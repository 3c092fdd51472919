--------------------------- MODULE AbstractMutex ---------------------------
(***************************************************************************)
(* What a mutex promises, without spin locks, links or signals.  A thread  *)
(* that wants the mutex contends for it; it takes a free mutex, or, finding *)
(* it taken, waits at the end of a line.  Releasing the mutex makes the    *)
(* first thread of the line contend again, so that a free mutex is never   *)
(* left to a line nobody will wake.                                        *)
(***************************************************************************)
EXTENDS Integers, Sequences

CONSTANTS Threads, NULL

VARIABLES owner,        \* the thread that holds the mutex, or NULL
          depth,        \* how many times it has locked it
          line,         \* the waiting threads, first come first
          contending    \* the threads that are about to try

vars == <<owner, depth, line, contending>>

Waiting == {line[i] : i \in 1..Len(line)}

Init ==
  /\ owner = NULL
  /\ depth = 0
  /\ line = <<>>
  /\ contending = {}

Contend(t) ==
  /\ t \notin contending \cup Waiting
  /\ contending' = contending \cup {t}
  /\ UNCHANGED <<owner, depth, line>>

\* A contender, or a thread that only tries, takes the mutex.
Acquire(t) ==
  /\ owner \in {NULL, t}
  /\ t \notin Waiting
  /\ owner' = t
  /\ depth' = depth + 1
  /\ contending' = contending \ {t}
  /\ UNCHANGED line

Wait(t) ==
  /\ t \in contending
  /\ owner \notin {NULL, t}
  /\ contending' = contending \ {t}
  /\ line' = Append(line, t)
  /\ UNCHANGED <<owner, depth>>

Release(t) ==
  /\ owner = t
  /\ depth' = depth - 1
  /\ IF depth > 1
     THEN UNCHANGED <<owner, line, contending>>
     ELSE /\ owner' = NULL
          /\ IF line = <<>>
             THEN UNCHANGED <<line, contending>>
             ELSE /\ line' = Tail(line)
                  /\ contending' = contending \cup {Head(line)}

Next == \E t \in Threads : Contend(t) \/ Acquire(t) \/ Wait(t) \/ Release(t)

\* A contender does not stop: unless it gets the mutex it joins the line.
Fairness == \A t \in Threads : WF_vars(t \in contending /\ (Acquire(t) \/ Wait(t)))

Spec == Init /\ [][Next]_vars

FairSpec == Spec /\ Fairness

=============================================================================
