-------------------------- MODULE AbstractSemaphore --------------------------
(***************************************************************************)
(* What the semaphore of src/semaphore.c promises: a counter that calls    *)
(* change in one step each, by one, and that is never negative.  Whether   *)
(* and in which order waiting threads succeed is left open.                *)
(***************************************************************************)
EXTENDS Integers

CONSTANTS Threads,
          InitialValues,
          Limit        \* SEM_VALUE_MAX, which no sem_post may exceed

VARIABLES value,
          at           \* the call a thread is in, and has yet to take effect

vars == <<value, at>>

Init ==
  /\ value \in InitialValues
  /\ at = [t \in Threads |-> "idle"]

Goto(t, place) == at' = [at EXCEPT ![t] = place]

Call(t) ==
  /\ at[t] = "idle"
  /\ \E function \in {"sem_wait", "sem_trywait", "sem_post"} : Goto(t, function)
  /\ UNCHANGED value

Take(t) ==
  /\ at[t] \in {"sem_wait", "sem_trywait"}
  /\ value > 0
  /\ value' = value - 1
  /\ Goto(t, "idle")

\* EAGAIN
TakeFails(t) ==
  /\ at[t] = "sem_trywait"
  /\ value = 0
  /\ Goto(t, "idle")
  /\ UNCHANGED value

Post(t) ==
  /\ at[t] = "sem_post"
  /\ value < Limit
  /\ value' = value + 1
  /\ Goto(t, "idle")

\* ERANGE
PostFails(t) ==
  /\ at[t] = "sem_post"
  /\ value >= Limit
  /\ Goto(t, "idle")
  /\ UNCHANGED value

\* A waiting thread is cancelled.
Quit(t) ==
  /\ at[t] = "sem_wait"
  /\ Goto(t, "exited")
  /\ UNCHANGED value

Next ==
  \E t \in Threads :
    Call(t) \/ Take(t) \/ TakeFails(t) \/ Post(t) \/ PostFails(t) \/ Quit(t)

Spec == Init /\ [][Next]_vars
=============================================================================
