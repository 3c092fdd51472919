----------------------------- MODULE Semaphore -----------------------------
(***************************************************************************)
(* One semaphore of src/semaphore.c, used by the threads of a process.     *)
(*                                                                         *)
(* sem_status is a long: 2N+1 when the count is N, or the address of the   *)
(* thread that came last, when threads wait.  A waiting thread's           *)
(* p_nextwaiting is the status it found: another waiting thread, or 1.     *)
(* Every read or write of a word that other threads touch is a step; the   *)
(* compare_and_swap, atomic or under sem_spinlock, is one.  An expression  *)
(* that the source reads again, without a volatile, may be a second read   *)
(* or the value of the first.                                              *)
(***************************************************************************)
EXTENDS CancelOps

CONSTANTS LONG_MAX,     \* 2^(w-1) - 1, where longs have w bits
          INT_MAX,      \* the same, or less where ints are shorter
          InitialValues \* the values sem_init is called with

SEM_VALUE_MAX == INT_MAX

ASSUME SemaphoreAssumption ==
  /\ LONG_MAX \in Nat \ (0 .. 2)
  /\ LONG_MAX % 2 = 1
  /\ INT_MAX \in 2 .. LONG_MAX
  /\ InitialValues \subseteq 0 .. 2 * SEM_VALUE_MAX + 1
  /\ Threads \cap Int = {}

VARIABLES sem_status,
          p_nextwaiting,
          pc,
          oldstatus, newstatus,   \* local variables
          cursor,    \* th of sem_post; in sem_wait, the thread whose
                     \* p_nextwaiting the local th points to
          next_th    \* local variable of sem_post; in sem_wait, *th as it
                     \* was read last

localVars == <<oldstatus, newstatus, cursor, next_th>>
vars == <<sem_status, p_nextwaiting, pc, localVars, signalVars, cancelVars>>
-----------------------------------------------------------------------------
(***************************************************************************)
(* The status word.                                                        *)
(***************************************************************************)

\* n modulo the number of longs, as an unsigned long and as a long.
Unsigned(n) == n % (2 * (LONG_MAX + 1))
Long(n) == Unsigned(n + LONG_MAX + 1) - (LONG_MAX + 1)

LongType == -LONG_MAX - 1 .. LONG_MAX
Status == Threads \cup {n \in LongType : n % 2 = 1}

IsCount(s) == s \notin Threads        \* s & 1
Encode(value) == Long(2 * value + 1)  \* ((long) value << 1) + 1

\* What sem_getvalue stores: (unsigned long) status >> 1, or 0.
sem_getvalue(s) == IF IsCount(s) THEN Unsigned(s) \div 2 ELSE 0

\* Mutant: the list of waiters stays.
Up_keeps_list(s) == IF IsCount(s) THEN Long(s + 2) ELSE s

\* The status the loops of sem_trywait and sem_wait ask for when there is one
\* to take, and sem_post's.
Down(s) == Long(s - 2)
Up(s) == IF IsCount(s) THEN Long(s + 2) ELSE 3

Positive(s) == IsCount(s) /\ s # 1
PostOverflows(s) == IsCount(s) /\ s >= SEM_VALUE_MAX
-----------------------------------------------------------------------------
Labels ==
  {"idle", "exited", "crashed",
   "wait_read", "wait_link", "wait_swap", "wait_suspend", "wait_sleep",
   "wait_check", "cancel_head", "cancel_next", "cancel_swap", "cancel_walk",
   "cancel_compare", "cancel_advance", "cancel_read", "cancel_unlink",
   "cancel_crashed", "try_read", "try_swap",
   "post_read", "post_swap", "post_next", "post_clear", "post_restart"}

TypeOK ==
  /\ SignalTypeOK
  /\ CancelTypeOK
  /\ sem_status \in Status
  /\ p_nextwaiting \in [Threads -> Status \cup {NULL}]
  /\ pc \in [Threads -> Labels]
  /\ oldstatus \in [Threads -> Status]
  /\ newstatus \in [Threads -> Status \cup {NULL}]
  /\ cursor \in [Threads -> Pointer]
  /\ next_th \in [Threads -> Status \cup {NULL}]

\* sem_init(sem, 0, value); a value > SEM_VALUE_MAX is refused.
sem_init(value) ==
  /\ value <= SEM_VALUE_MAX
  /\ sem_status = Encode(value)

Init ==
  /\ SignalInit
  /\ CancelInit
  /\ \E value \in InitialValues : sem_init(value)
  /\ p_nextwaiting = [t \in Threads |-> NULL]
  /\ pc = [t \in Threads |-> "idle"]
  /\ oldstatus = [t \in Threads |-> 1]
  /\ newstatus = [t \in Threads |-> 1]
  /\ cursor = [t \in Threads |-> NULL]
  /\ next_th = [t \in Threads |-> NULL]

Goto(self, label) == pc' = [pc EXCEPT ![self] = label]

\* Go to a label where the local variables are dead.
Leave(self, label) ==
  /\ Goto(self, label)
  /\ oldstatus' = [oldstatus EXCEPT ![self] = 1]
  /\ newstatus' = [newstatus EXCEPT ![self] = 1]
  /\ cursor' = [cursor EXCEPT ![self] = NULL]
  /\ next_th' = [next_th EXCEPT ![self] = NULL]

\* Mutant: a swap that does not compare.
swap_blindly(self) == sem_status' = newstatus[self]

\* compare_and_swap(sem, oldstatus, newstatus) succeeds, or fails.
Swapped(self) == sem_status = oldstatus[self] /\ sem_status' = newstatus[self]
SwapFails(self) == sem_status # oldstatus[self] /\ UNCHANGED sem_status
-----------------------------------------------------------------------------
(***************************************************************************)
(* sem_wait.                                                               *)
(***************************************************************************)
sem_wait_read(self) ==
  /\ pc[self] = "wait_read"
  /\ oldstatus' = [oldstatus EXCEPT ![self] = sem_status]
  /\ IF Positive(sem_status)
     THEN /\ newstatus' = [newstatus EXCEPT ![self] = Down(sem_status)]
          /\ Goto(self, "wait_swap")
     ELSE /\ newstatus' = [newstatus EXCEPT ![self] = self]
          /\ Goto(self, "wait_link")
  /\ UNCHANGED <<sem_status, p_nextwaiting, cursor, next_th, signalVars,
                 cancelVars>>

sem_wait_link(self) ==
  /\ pc[self] = "wait_link"
  /\ p_nextwaiting' = [p_nextwaiting EXCEPT ![self] = oldstatus[self]]
  /\ Goto(self, "wait_swap")
  /\ UNCHANGED <<sem_status, localVars, signalVars, cancelVars>>

sem_wait_swap(self) ==
  /\ pc[self] = "wait_swap"
  /\ \/ /\ SwapFails(self)
        /\ Leave(self, "wait_read")
     \/ /\ Swapped(self)
        /\ Leave(self, IF IsCount(newstatus[self]) THEN "idle" ELSE "wait_suspend")
  /\ UNCHANGED <<p_nextwaiting, signalVars, cancelVars>>

\* Mutant: no suspend when a sem_post has been seen to empty the list.
suspend_unless_posted(self) ==
  /\ pc[self] = "wait_suspend"
  /\ Goto(self, IF CancelDue(self) \/ IsCount(sem_status) THEN "wait_check"
                ELSE "wait_sleep")
  /\ UNCHANGED <<sem_status, p_nextwaiting, localVars, signalVars, cancelVars>>

\* Into suspend_with_cancellation, and out of it.
sem_wait_suspend(self) ==
  /\ pc[self] = "wait_suspend"
  /\ Goto(self, IF CancelDue(self) THEN "wait_check" ELSE "wait_sleep")
  /\ UNCHANGED <<sem_status, p_nextwaiting, localVars, signalVars, cancelVars>>

sem_wait_resume(self) ==
  /\ pc[self] = "wait_sleep"
  /\ suspend_with_cancellation(self)
  /\ Goto(self, "wait_check")
  /\ UNCHANGED <<sem_status, p_nextwaiting, localVars>>

\* The cancellation point; without a cancellation, try again.
sem_wait_check(self) ==
  /\ pc[self] = "wait_check"
  /\ Goto(self, IF CancelDue(self) THEN "cancel_head" ELSE "wait_read")
  /\ UNCHANGED <<sem_status, p_nextwaiting, localVars, signalVars, cancelVars>>
-----------------------------------------------------------------------------
(***************************************************************************)
(* The cancelled thread removes itself from the list.                      *)
(***************************************************************************)

\* pthread_exit(PTHREAD_CANCELED)
Exit(self) ==
  /\ p_canceled' = [p_canceled EXCEPT ![self] = FALSE]
  /\ UNCHANGED <<p_cancelstate, sigcancel>>
  /\ Leave(self, "exited")

sem_wait_cancel_head(self) ==
  /\ pc[self] = "cancel_head"
  /\ \/ /\ sem_status = self
        /\ oldstatus' = [oldstatus EXCEPT ![self] = self]
        /\ Goto(self, "cancel_next")
        /\ UNCHANGED <<newstatus, cursor, next_th, cancelVars>>
     \/ /\ sem_status \in Threads \ {self}
        /\ cursor' = [cursor EXCEPT ![self] = sem_status]
        /\ Goto(self, "cancel_walk")
        /\ UNCHANGED <<oldstatus, newstatus, next_th, cancelVars>>
     \/ IsCount(sem_status) /\ Exit(self)
  /\ UNCHANGED <<sem_status, p_nextwaiting, signalVars>>

\* self->p_nextwaiting is read, at the head of the list or in its middle.
sem_wait_cancel_read(self) ==
  /\ pc[self] \in {"cancel_next", "cancel_read"}
  /\ newstatus' = [newstatus EXCEPT ![self] = p_nextwaiting[self]]
  /\ Goto(self, IF pc[self] = "cancel_next" THEN "cancel_swap" ELSE "cancel_unlink")
  /\ UNCHANGED <<sem_status, p_nextwaiting, oldstatus, cursor, next_th, signalVars,
                 cancelVars>>

\* Mutant: no second try.
cancel_swap_once(self) ==
  /\ pc[self] = "cancel_swap"
  /\ SwapFails(self) \/ Swapped(self)
  /\ Exit(self)
  /\ UNCHANGED <<p_nextwaiting, signalVars>>

sem_wait_cancel_swap(self) ==
  /\ pc[self] = "cancel_swap"
  /\ \/ SwapFails(self) /\ Leave(self, "cancel_head") /\ UNCHANGED cancelVars
     \/ Swapped(self) /\ Exit(self)
  /\ UNCHANGED <<p_nextwaiting, signalVars>>

\* The condition of the while loop.
sem_wait_cancel_walk(self) ==
  LET next == p_nextwaiting[cursor[self]] IN
  /\ pc[self] = "cancel_walk"
  /\ \/ next \in {1, NULL} /\ Exit(self)
     \/ /\ next \in Threads
        /\ next_th' = [next_th EXCEPT ![self] = next]
        /\ Goto(self, "cancel_compare")
        /\ UNCHANGED <<oldstatus, newstatus, cursor, cancelVars>>
  /\ UNCHANGED <<sem_status, p_nextwaiting, signalVars>>

\* *th once more: read again, or kept.
Reread(self) == {next_th[self], p_nextwaiting[cursor[self]]}

\* Is it self?
sem_wait_cancel_compare(self) ==
  /\ pc[self] = "cancel_compare"
  /\ \E next \in Reread(self) :
       /\ next_th' = [next_th EXCEPT ![self] = next]
       /\ Goto(self, IF next = self THEN "cancel_read" ELSE "cancel_advance")
  /\ UNCHANGED <<sem_status, p_nextwaiting, oldstatus, newstatus, cursor, signalVars,
                 cancelVars>>

\* To the link of that thread; a fault at its next use if *th is no thread.
sem_wait_cancel_advance(self) ==
  /\ pc[self] = "cancel_advance"
  /\ \E next \in Reread(self) :
       IF next \in Threads
       THEN /\ cursor' = [cursor EXCEPT ![self] = next]
            /\ next_th' = [next_th EXCEPT ![self] = NULL]
            /\ Goto(self, "cancel_walk")
            /\ UNCHANGED <<oldstatus, newstatus>>
       ELSE Leave(self, "cancel_crashed")
  /\ UNCHANGED <<sem_status, p_nextwaiting, signalVars, cancelVars>>

sem_wait_cancel_unlink(self) ==
  /\ pc[self] = "cancel_unlink"
  /\ p_nextwaiting' = [p_nextwaiting EXCEPT ![cursor[self]] = newstatus[self]]
  /\ Exit(self)
  /\ UNCHANGED <<sem_status, signalVars>>
-----------------------------------------------------------------------------
(***************************************************************************)
(* sem_trywait and sem_post.                                               *)
(***************************************************************************)
sem_trywait_read(self) ==
  /\ pc[self] = "try_read"
  /\ IF Positive(sem_status)
     THEN /\ oldstatus' = [oldstatus EXCEPT ![self] = sem_status]
          /\ newstatus' = [newstatus EXCEPT ![self] = Down(sem_status)]
          /\ Goto(self, "try_swap")
          /\ UNCHANGED <<cursor, next_th>>
     ELSE Leave(self, "idle")    \* EAGAIN
  /\ UNCHANGED <<sem_status, p_nextwaiting, signalVars, cancelVars>>

sem_trywait_swap(self) ==
  /\ pc[self] = "try_swap"
  /\ \/ SwapFails(self) /\ Leave(self, "try_read")
     \/ Swapped(self) /\ Leave(self, "idle")
  /\ UNCHANGED <<p_nextwaiting, signalVars, cancelVars>>

sem_post_read(self) ==
  /\ pc[self] = "post_read"
  /\ IF PostOverflows(sem_status)
     THEN Leave(self, "idle")    \* ERANGE
     ELSE /\ oldstatus' = [oldstatus EXCEPT ![self] = sem_status]
          /\ newstatus' = [newstatus EXCEPT ![self] = Up(sem_status)]
          /\ Goto(self, "post_swap")
          /\ UNCHANGED <<cursor, next_th>>
  /\ UNCHANGED <<sem_status, p_nextwaiting, signalVars, cancelVars>>

sem_post_swap(self) ==
  /\ pc[self] = "post_swap"
  /\ \/ /\ SwapFails(self)
        /\ Leave(self, "post_read")
     \/ /\ Swapped(self)
        /\ IsCount(oldstatus[self])
        /\ Leave(self, "idle")
     \/ /\ Swapped(self)
        /\ ~IsCount(oldstatus[self])
        /\ cursor' = [cursor EXCEPT ![self] = oldstatus[self]]
        /\ oldstatus' = [oldstatus EXCEPT ![self] = 1]
        /\ newstatus' = [newstatus EXCEPT ![self] = 1]
        /\ Goto(self, "post_next")
        /\ UNCHANGED next_th
  /\ UNCHANGED <<p_nextwaiting, signalVars, cancelVars>>

\* next_th = th->p_nextwaiting: a null th is a fault that ends the process.
sem_post_next(self) ==
  /\ pc[self] = "post_next"
  /\ IF cursor[self] = NULL
     THEN Leave(self, "crashed")
     ELSE /\ next_th' = [next_th EXCEPT ![self] = p_nextwaiting[cursor[self]]]
          /\ Goto(self, "post_clear")
          /\ UNCHANGED <<oldstatus, newstatus, cursor>>
  /\ UNCHANGED <<sem_status, p_nextwaiting, signalVars, cancelVars>>

sem_post_clear(self) ==
  /\ pc[self] = "post_clear"
  /\ p_nextwaiting' = [p_nextwaiting EXCEPT ![cursor[self]] = NULL]
  /\ Goto(self, "post_restart")
  /\ UNCHANGED <<sem_status, localVars, signalVars, cancelVars>>

\* Mutant: the loop stops before the last thread of the list.
post_stops_early(self) ==
  /\ pc[self] = "post_restart"
  /\ IF next_th[self] = 1
     THEN Leave(self, "idle") /\ UNCHANGED signalVars
     ELSE /\ restart(cursor[self])
          /\ cursor' = [cursor EXCEPT ![self] = next_th[self]]
          /\ next_th' = [next_th EXCEPT ![self] = NULL]
          /\ Goto(self, "post_next")
          /\ UNCHANGED <<oldstatus, newstatus>>
  /\ UNCHANGED <<sem_status, p_nextwaiting, cancelVars>>

sem_post_restart(self) ==
  /\ pc[self] = "post_restart"
  /\ restart(cursor[self])
  /\ IF next_th[self] = 1
     THEN Leave(self, "idle")
     ELSE /\ cursor' = [cursor EXCEPT ![self] = next_th[self]]
          /\ next_th' = [next_th EXCEPT ![self] = NULL]
          /\ Goto(self, "post_next")
          /\ UNCHANGED <<oldstatus, newstatus>>
  /\ UNCHANGED <<sem_status, p_nextwaiting, cancelVars>>
-----------------------------------------------------------------------------
\* PTHREAD_SIG_CANCEL handled where the handler does not jump.
sigcancel_ignored(self) ==
  /\ cancel_handled(self)
  /\ ~(pc[self] = "wait_sleep" /\ CancelDue(self))
  /\ UNCHANGED <<sem_status, p_nextwaiting, pc, localVars, signalVars>>

LibraryStep(self) ==
  \/ sem_wait_read(self)
  \/ sem_wait_link(self)
  \/ sem_wait_swap(self)
  \/ sem_wait_suspend(self)
  \/ sem_wait_resume(self)
  \/ sem_wait_check(self)
  \/ sem_wait_cancel_head(self)
  \/ sem_wait_cancel_read(self)
  \/ sem_wait_cancel_swap(self)
  \/ sem_wait_cancel_walk(self)
  \/ sem_wait_cancel_compare(self)
  \/ sem_wait_cancel_advance(self)
  \/ sem_wait_cancel_unlink(self)
  \/ sem_trywait_read(self)
  \/ sem_trywait_swap(self)
  \/ sem_post_read(self)
  \/ sem_post_swap(self)
  \/ sem_post_next(self)
  \/ sem_post_clear(self)
  \/ sem_post_restart(self)
  \/ sigcancel_ignored(self)

\* Any thread may call any function; the caller of pthread_cancel is any thread.
Call(self, entry) ==
  /\ pc[self] = "idle"
  /\ Goto(self, entry)
  /\ UNCHANGED <<sem_status, p_nextwaiting, localVars, signalVars, cancelVars>>

CallCancel(thread) ==
  /\ thread \in Cancels
  /\ pc[thread] # "exited"
  /\ ~p_canceled[thread]
  /\ pthread_cancel(thread)
  /\ UNCHANGED <<sem_status, p_nextwaiting, pc, localVars, signalVars>>

ProgramCall(self) ==
  \/ Call(self, "wait_read")
  \/ Call(self, "try_read")
  \/ Call(self, "post_read")
  \/ CallCancel(self)

\* A fault in one thread ends the process.
Running == \A t \in Threads : pc[t] \notin {"crashed", "cancel_crashed"}

Next == Running /\ \E self \in Threads : ProgramCall(self) \/ LibraryStep(self)

Spec == Init /\ [][Next]_vars
-----------------------------------------------------------------------------
(***************************************************************************)
(* The abstract semaphore.  A post has taken effect when the count has     *)
(* changed, though its caller has yet to restart those who waited.         *)
(***************************************************************************)
Place(label) ==
  CASE label \in {"wait_read", "wait_link", "wait_swap", "wait_suspend", "wait_sleep",
                  "wait_check", "cancel_head", "cancel_next", "cancel_swap",
                  "cancel_walk", "cancel_compare", "cancel_advance", "cancel_read",
                  "cancel_unlink", "cancel_crashed"} -> "sem_wait"
    [] label \in {"try_read", "try_swap"} -> "sem_trywait"
    [] label \in {"post_read", "post_swap"} -> "sem_post"
    [] label \in {"idle", "post_next", "post_clear", "post_restart", "crashed"} -> "idle"
    [] label = "exited" -> "exited"

Abstract ==
  INSTANCE AbstractSemaphore
  WITH value <- sem_getvalue(sem_status),
       at <- [t \in Threads |-> Place(pc[t])],
       Limit <- SEM_VALUE_MAX

\* sem_post compares 2N+1, not N, with SEM_VALUE_MAX: it fails from half of that
\* on, where the manual has it succeed (man/sem_init.man, ERANGE).
RefusedEarly ==
  /\ sem_getvalue(sem_status) \in SEM_VALUE_MAX \div 2 .. SEM_VALUE_MAX - 1
  /\ \E t \in Threads : pc[t] = "post_read" /\ Goto(t, "idle")
  /\ UNCHANGED sem_status

\* Every successful sem_wait and sem_trywait takes one unit from a positive count
\* and every successful sem_post adds one, at a single moment of the call, whatever
\* compare_and_swaps fail and whichever waiters are cancelled; a call fails when
\* the manual says so, and a sem_post from half of SEM_VALUE_MAX on.
ImplementsAbstractSemaphore ==
  Abstract!Init /\ [][Abstract!Next \/ RefusedEarly]_(Abstract!vars)
-----------------------------------------------------------------------------
(***************************************************************************)
(* Safety.                                                                 *)
(***************************************************************************)

\* The threads found by following p_nextwaiting from s.
Followed(s) ==
  LET w[i \in Nat] == IF i = 0 THEN s
                      ELSE IF w[i - 1] \in Threads THEN p_nextwaiting[w[i - 1]] ELSE 1
  IN  w

ListFrom(s) == {Followed(s)[i] : i \in WalkRange} \cap Threads

RestartDue(t) ==
  \/ t \in sigpending
  \/ \E u \in Threads :
       \/ pc[u] \in {"post_next", "post_clear", "post_restart"} /\ cursor[u] = t
       \/ pc[u] = "post_next" /\ t \in ListFrom(cursor[u])
       \/ pc[u] \in {"post_clear", "post_restart"} /\ t \in ListFrom(next_th[u])

Asleep(t) == pc[t] \in {"wait_suspend", "wait_sleep"}

\* t was cancelled in sem_wait and is removing itself, or has exited.
Departing(t) ==
  \/ CancelDue(t) /\ pc[t] \in {"wait_check", "cancel_head", "cancel_next",
                                "cancel_swap", "cancel_walk", "cancel_compare",
                                "cancel_advance", "cancel_read", "cancel_unlink"}
  \/ pc[t] = "exited"

\* No lost wakeup: a thread asleep in sem_wait is in the list of the semaphore,
\* whose count is then 0, or a sem_post is about to restart it or has done so.
NoLostWakeup ==
  \A t \in Threads : Asleep(t) => t \in ListFrom(sem_status) \/ RestartDue(t)

\* The list of waiting threads: each is asleep or on its way out, has no restart
\* due and is linked from exactly one place, and the list ends in 1 (the comment
\* on sem_status).
ListWellFormed ==
  \A t \in ListFrom(sem_status) :
    /\ Asleep(t) \/ Departing(t)
    /\ ~RestartDue(t)
    /\ p_nextwaiting[t] \in Threads \cup {1}
    /\ \A u \in ListFrom(sem_status) : p_nextwaiting[u] = t =>
         /\ sem_status # t
         /\ \A v \in ListFrom(sem_status) : p_nextwaiting[v] = t => v = u

NobodyCancelled == \A t \in Threads : ~p_canceled[t] /\ pc[t] # "exited"

\* While no thread has been cancelled, every sleeper of sem_wait is once in the
\* list with no restart due, or has left it with a restart due: the walk of
\* sem_post and the pushes of sem_wait neither lose a thread nor keep one.
WaitersReached == NobodyCancelled => NoLostWakeup /\ ListWellFormed

\* While no thread has been cancelled, a restart is sent only to a thread that
\* sleeps in sem_wait: one left over would end a later suspend of the thread before
\* its time.
NoStrayRestart == NobodyCancelled => \A t \in sigpending : Asleep(t)

\* "the net result is that at the time pthread_exit is called, self is no longer
\* reachable from sem->sem_status" (sem_wait's cancellation).
ExitedUnreachable ==
  \A t \in Threads : pc[t] = "exited" => t \notin ListFrom(sem_status)
-----------------------------------------------------------------------------
\* While no thread has been cancelled, none sleeps for ever in sem_wait on a
\* count that stays positive.  (It may lose every compare_and_swap: sem_wait
\* promises no more.)
SleeperWakes ==
  \A t \in Threads :
    []<>(NobodyCancelled => ~(Asleep(t) /\ sem_getvalue(sem_status) > 0))

=============================================================================
