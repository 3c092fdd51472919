-------------------------- MODULE SemaphoreProofs --------------------------
(***************************************************************************)
(* For every set of threads, every width of long and of int, and every     *)
(* interleaving of the compare_and_swap loops: the semaphore implements    *)
(* AbstractSemaphore, while no thread is cancelled and the initial value   *)
(* is one that sem_post could have reached; and, until a thread is         *)
(* cancelled, no thread that sleeps in sem_wait is lost.                   *)
(***************************************************************************)
EXTENDS Semaphore, QueueProofs

\* A status that holds a count without using the sign of the long.
Count == {n \in 1 .. LONG_MAX : n % 2 = 1}
Word == Threads \cup Count

\* What a thread at a compare_and_swap is about to do: to take a unit, to join the
\* list of those who wait, to add a unit.
Takes(t) == oldstatus[t] \in Count \ {1} /\ newstatus[t] = oldstatus[t] - 2
Joins(t) == oldstatus[t] \in Threads \cup {1} /\ newstatus[t] = t
Adds(t) ==
  \/ oldstatus[t] \in Threads /\ newstatus[t] = 3
  \/ /\ oldstatus[t] \in Count
     /\ oldstatus[t] < SEM_VALUE_MAX
     /\ newstatus[t] = oldstatus[t] + 2

CountInv ==
  /\ sem_status \in Word
  /\ pc \in [Threads -> Labels]
  /\ oldstatus \in [Threads -> Word]
  /\ newstatus \in [Threads -> Word]
  /\ p_canceled = [t \in Threads |-> FALSE]
  /\ \A t \in Threads :
       /\ pc[t] \notin {"cancel_head", "cancel_next", "cancel_swap", "cancel_walk",
                        "cancel_compare", "cancel_advance", "cancel_read",
                        "cancel_unlink", "cancel_crashed", "exited"}
       /\ pc[t] = "wait_link" => Joins(t)
       /\ pc[t] = "wait_swap" => Takes(t) \/ Joins(t)
       /\ pc[t] = "try_swap" => Takes(t)
       /\ pc[t] = "post_swap" => Adds(t)
-----------------------------------------------------------------------------
(***************************************************************************)
(* Arithmetic of the status word.                                          *)
(***************************************************************************)

\* A number that a long can hold is not changed by the conversion.
LEMMA LongKeeps ==
  ASSUME NEW n \in -LONG_MAX - 1 .. LONG_MAX
  PROVE  Long(n) = n
BY SemaphoreAssumption DEF Long, Unsigned

\* What sem_getvalue finds in a count, and in a list of waiting threads.
LEMMA Values ==
  /\ \A n \in Count : IsCount(n) /\ sem_getvalue(n) = n \div 2
  /\ \A t \in Threads : ~IsCount(t) /\ sem_getvalue(t) = 0
<1>1. ASSUME NEW n \in Count
      PROVE  IsCount(n) /\ sem_getvalue(n) = n \div 2
  <2>1. n \in 1 .. LONG_MAX
    BY Zenon DEF Count
  <2>2. IsCount(n)
    BY <2>1, SemaphoreAssumption DEF IsCount
  <2>3. Unsigned(n) = n
    BY <2>1, SemaphoreAssumption DEF Unsigned
  <2> QED
    BY <2>2, <2>3, Zenon DEF sem_getvalue
<1> QED
  BY <1>1, Zenon DEF IsCount, sem_getvalue

\* A unit less and a unit more, and the limit of sem_post.
LEMMA Steps ==
  /\ \A n \in Count \ {1} : /\ n - 2 \in Count
                            /\ Down(n) = n - 2
                            /\ n \div 2 > 0
                            /\ (n - 2) \div 2 = (n \div 2) - 1
  /\ \A n \in Count : n < SEM_VALUE_MAX =>
                            /\ n + 2 \in Count
                            /\ Long(n + 2) = n + 2
                            /\ n \div 2 < SEM_VALUE_MAX \div 2
                            /\ (n + 2) \div 2 = (n \div 2) + 1
  /\ \A n \in Count : n >= SEM_VALUE_MAX => n \div 2 >= SEM_VALUE_MAX \div 2
<1>1. ASSUME NEW n \in Count \ {1}
      PROVE  /\ n - 2 \in Count
             /\ Down(n) = n - 2
             /\ n \div 2 > 0
             /\ (n - 2) \div 2 = (n \div 2) - 1
  <2>1. n \in 3 .. LONG_MAX /\ n % 2 = 1
    BY SemaphoreAssumption DEF Count
  <2>2. n - 2 \in Count
    BY <2>1, SemaphoreAssumption DEF Count
  <2>3. Down(n) = n - 2
    BY <2>1, LongKeeps, SemaphoreAssumption DEF Down
  <2> QED
    BY <2>1, <2>2, <2>3, SemaphoreAssumption
<1>2. ASSUME NEW n \in Count, n < SEM_VALUE_MAX
      PROVE  /\ n + 2 \in Count
             /\ Long(n + 2) = n + 2
             /\ n \div 2 < SEM_VALUE_MAX \div 2
             /\ (n + 2) \div 2 = (n \div 2) + 1
  <2>1. n \in 1 .. LONG_MAX /\ n % 2 = 1
    BY Zenon DEF Count
  <2>2. n + 2 \in Count
    BY <1>2, <2>1, SemaphoreAssumption DEF Count, SEM_VALUE_MAX
  <2>3. Long(n + 2) = n + 2
    BY <2>2, LongKeeps, SemaphoreAssumption DEF Count
  <2>4. n \div 2 < SEM_VALUE_MAX \div 2
    BY <1>2, <2>1, SemaphoreAssumption DEF SEM_VALUE_MAX
  <2> QED
    BY <2>1, <2>2, <2>3, <2>4, SemaphoreAssumption
<1>3. ASSUME NEW n \in Count, n >= SEM_VALUE_MAX
      PROVE  n \div 2 >= SEM_VALUE_MAX \div 2
  BY <1>3, SemaphoreAssumption DEF Count, SEM_VALUE_MAX
<1> QED
  BY <1>1, <1>2, <1>3, Zenon
-----------------------------------------------------------------------------
(***************************************************************************)
(* The steps of one thread, as CountInv and AbstractSemaphore see them.    *)
(***************************************************************************)

\* The variables of the invariant and of the mapping, when self goes to label.
Moves(self, label) ==
  /\ pc' = [pc EXCEPT ![self] = label]
  /\ \E old \in Word : oldstatus' = [oldstatus EXCEPT ![self] = old]
  /\ \E new \in Word : newstatus' = [newstatus EXCEPT ![self] = new]
  /\ UNCHANGED p_canceled

\* The labels of a thread that is not cancelled.
Live ==
  Labels \ {"cancel_head", "cancel_next", "cancel_swap", "cancel_walk", "cancel_compare",
            "cancel_advance", "cancel_read", "cancel_unlink", "cancel_crashed", "exited"}

\* The invariant depends on a thread through its own local variables.
LEMMA MovesKeeps ==
  ASSUME CountInv, NEW self \in Threads, NEW label \in Live, Moves(self, label),
         sem_status' \in Word,
         label = "wait_link" => Joins(self)',
         label = "wait_swap" => Takes(self)' \/ Joins(self)',
         label = "try_swap" => Takes(self)',
         label = "post_swap" => Adds(self)'
  PROVE  CountInv'
<1>1. pc' \in [Threads -> Labels] /\ oldstatus' \in [Threads -> Word]
      /\ newstatus' \in [Threads -> Word]
      /\ p_canceled' = [t \in Threads |-> FALSE]
  BY Zenon DEF CountInv, Moves, Live
<1>2. ASSUME NEW t \in Threads \ {self}
      PROVE  pc'[t] = pc[t] /\ oldstatus'[t] = oldstatus[t] /\ newstatus'[t] = newstatus[t]
  BY Zenon DEF CountInv, Moves
<1>3. ASSUME NEW t \in Threads \ {self}
      PROVE  /\ pc'[t] \in Live
             /\ pc'[t] = "wait_link" => Joins(t)'
             /\ pc'[t] = "wait_swap" => Takes(t)' \/ Joins(t)'
             /\ pc'[t] = "try_swap" => Takes(t)'
             /\ pc'[t] = "post_swap" => Adds(t)'
  BY <1>2 DEF CountInv, Live, Joins, Takes, Adds
<1>4. pc'[self] = label
  BY Zenon DEF Moves, CountInv
<1> QED
  BY <1>1, <1>3, <1>4, Zenon DEF CountInv, Live

\* A step inside a call, or from the end of a call, is none of the abstract one.
LEMMA MovesStutters ==
  ASSUME CountInv, NEW self \in Threads, NEW label, Moves(self, label),
         Place(label) = Place(pc[self]),
         sem_getvalue(sem_status') = sem_getvalue(sem_status)
  PROVE  UNCHANGED Abstract!vars
<1>1. \A t \in Threads : Place(pc'[t]) = Place(pc[t])
  BY Zenon DEF CountInv, Moves
<1>2. [t \in Threads |-> Place(pc[t])]' = [t \in Threads |-> Place(pc[t])]
  BY <1>1, Zenon
<1>3. sem_getvalue(sem_status)' = sem_getvalue(sem_status)
  BY Zenon DEF sem_getvalue, IsCount, Unsigned
<1> QED
  BY <1>2, <1>3, Zenon DEF Abstract!vars

\* A step to another place changes the abstract at of self only.
LEMMA MovesGoes ==
  ASSUME CountInv, NEW self \in Threads, NEW label, Moves(self, label)
  PROVE  Abstract!Goto(self, Place(label))
<1>1. \A t \in Threads : Place(pc'[t]) = IF t = self THEN Place(label) ELSE Place(pc[t])
  BY Zenon DEF CountInv, Moves
<1> QED
  BY <1>1, Zenon DEF Abstract!Goto
-----------------------------------------------------------------------------
(***************************************************************************)
(* The implementation.                                                     *)
(***************************************************************************)

\* The initial values that sem_post could have reached.
SmallValues == \A v \in InitialValues : v <= SEM_VALUE_MAX \div 2

\* At first everyone is idle, and the count is a small number.
LEMMA CountInvInit ==
  ASSUME SmallValues, Init
  PROVE  CountInv /\ Abstract!Init
<1>1. PICK v \in InitialValues : sem_init(v)
  BY Zenon DEF Init
<1>2. v \in Nat /\ v <= SEM_VALUE_MAX \div 2
  BY SemaphoreAssumption DEF SmallValues, SEM_VALUE_MAX
<1>3. 2 * v + 1 \in Count
  BY <1>2, SemaphoreAssumption DEF Count, SEM_VALUE_MAX
<1>4. sem_status = 2 * v + 1
  BY <1>1, <1>3, LongKeeps, SemaphoreAssumption DEF sem_init, Encode, Count
<1>5. sem_getvalue(sem_status) = v
  BY <1>2, <1>3, <1>4, Values
<1>6. 1 \in Count
  BY SemaphoreAssumption DEF Count
<1>7. CountInv
  BY <1>3, <1>4, <1>6, Zenon DEF Init, CancelInit, CountInv, Word, Labels
<1>8. [t \in Threads |-> Place(pc[t])] = [t \in Threads |-> "idle"]
  BY Zenon DEF Init, Place
<1> QED
  BY <1>5, <1>7, <1>8, Zenon DEF Abstract!Init

Implements == Abstract!Next \/ RefusedEarly \/ UNCHANGED Abstract!vars

\* sem_wait.
LEMMA WaitStep ==
  ASSUME CountInv, NEW self \in Threads,
         \/ sem_wait_read(self) \/ sem_wait_link(self) \/ sem_wait_swap(self)
         \/ sem_wait_suspend(self) \/ sem_wait_resume(self) \/ sem_wait_check(self)
  PROVE  CountInv' /\ Implements
<1> DEFINE Old == oldstatus[self]
<1>0. /\ 1 \in Count
      /\ ~CancelDue(self)
      /\ sem_status \in Word /\ Old \in Word
      /\ \A n \in Word : n \in Threads \/ n \in Count
  BY SemaphoreAssumption DEF CountInv, Count, Word, CancelDue
<1>1. CASE sem_wait_read(self) /\ Positive(sem_status)
  <2>1. sem_status \in Count \ {1}
    BY <1>0, <1>1, Values, Zenon DEF Positive
  <2>2. Moves(self, "wait_swap") /\ sem_status' = sem_status
    BY <1>0, <1>1, <2>1, Steps, Zenon DEF sem_wait_read, Moves, Goto, cancelVars, Word
  <2>3. Takes(self)'
    BY <1>1, <2>1, Steps, Zenon DEF sem_wait_read, Takes, CountInv
  <2>4. CountInv'
    BY <1>0, <2>2, <2>3, MovesKeeps, Zenon DEF Live, Labels
  <2>5. Place("wait_swap") = Place(pc[self])
    BY <1>1, Zenon DEF sem_wait_read, Place
  <2> QED
    BY <2>2, <2>4, <2>5, MovesStutters, Zenon DEF Implements
<1>2. CASE sem_wait_read(self) /\ ~Positive(sem_status)
  <2>1. sem_status \in Threads \cup {1}
    BY <1>0, <1>2, Values, Zenon DEF Positive
  <2>2. Moves(self, "wait_link") /\ sem_status' = sem_status
    BY <1>0, <1>2, Zenon DEF sem_wait_read, Moves, Goto, cancelVars, Word
  <2>3. Joins(self)'
    BY <1>2, <2>1, Zenon DEF sem_wait_read, Joins, CountInv
  <2>4. CountInv'
    BY <1>0, <2>2, <2>3, MovesKeeps, Zenon DEF Live, Labels
  <2>5. Place("wait_link") = Place(pc[self])
    BY <1>2, Zenon DEF sem_wait_read, Place
  <2> QED
    BY <2>2, <2>4, <2>5, MovesStutters, Zenon DEF Implements
<1>3. CASE sem_wait_link(self)
  <2>1. Moves(self, "wait_swap") /\ sem_status' = sem_status
    BY <1>0, <1>3, Zenon DEF sem_wait_link, Moves, Goto, cancelVars, localVars, CountInv
  <2>2. Joins(self)'
    BY <1>3, Zenon DEF sem_wait_link, Joins, CountInv, localVars
  <2>3. CountInv'
    BY <1>0, <2>1, <2>2, MovesKeeps, Zenon DEF Live, Labels
  <2>4. Place("wait_swap") = Place(pc[self])
    BY <1>3, Zenon DEF sem_wait_link, Place
  <2> QED
    BY <2>1, <2>3, <2>4, MovesStutters, Zenon DEF Implements
<1>4. CASE sem_wait_swap(self) /\ SwapFails(self)
  <2>1. Moves(self, "wait_read") /\ sem_status' = sem_status
    BY <1>0, <1>4, Zenon DEF sem_wait_swap, SwapFails, Swapped, Leave, Moves, Goto, cancelVars, Word
  <2>2. CountInv'
    BY <1>0, <2>1, MovesKeeps, Zenon DEF Live, Labels
  <2>3. Place("wait_read") = Place(pc[self])
    BY <1>4, Zenon DEF sem_wait_swap, Place
  <2> QED
    BY <2>1, <2>2, <2>3, MovesStutters, Zenon DEF Implements
<1>5. CASE sem_wait_swap(self) /\ Swapped(self) /\ Takes(self)
  <2>1. /\ sem_status \in Count \ {1} /\ sem_status' = sem_status - 2
        /\ sem_status' \in Count
        /\ sem_status' = newstatus[self]
    BY <1>5, Steps, Zenon DEF Swapped, Takes
  <2>2. IsCount(newstatus[self])
    BY <2>1, Values, Zenon
  <2>3. Moves(self, "idle")
    BY <1>0, <1>5, <2>2, Zenon DEF sem_wait_swap, SwapFails, Swapped, Leave, Moves, Goto, cancelVars, Word
  <2>4. CountInv'
    BY <1>0, <2>1, <2>3, MovesKeeps, Zenon DEF Live, Labels, Word
  <2>5. Abstract!Goto(self, "idle")
    BY <2>3, MovesGoes, Zenon DEF Place
  <2>6. /\ sem_getvalue(sem_status) > 0
        /\ sem_getvalue(sem_status') = sem_getvalue(sem_status) - 1
    BY <2>1, Values, Steps, Zenon
  <2>7. sem_getvalue(sem_status)' = sem_getvalue(sem_status) - 1
    BY <2>6, Zenon DEF sem_getvalue, IsCount, Unsigned
  <2>8. Place(pc[self]) = "sem_wait"
    BY <1>5, Zenon DEF sem_wait_swap, Place
  <2>9. Abstract!Take(self)
    BY <2>5, <2>6, <2>7, <2>8, Zenon DEF Abstract!Take
  <2> QED
    BY <2>4, <2>9, Zenon DEF Implements, Abstract!Next
<1>6. CASE sem_wait_swap(self) /\ Swapped(self) /\ Joins(self)
  <2>1. sem_status \in Threads \cup {1} /\ sem_status' = self /\ newstatus[self] = self
    BY <1>6, Zenon DEF Swapped, Joins
  <2>2. Moves(self, "wait_suspend")
    BY <1>0, <1>6, <2>1, Zenon DEF sem_wait_swap, SwapFails, Swapped, Leave, Moves, Goto, cancelVars,
       Word, IsCount
  <2>3. CountInv'
    BY <1>0, <2>1, <2>2, MovesKeeps, Zenon DEF Live, Labels, Word
  <2>4. Place("wait_suspend") = Place(pc[self])
    BY <1>6, Zenon DEF sem_wait_swap, Place
  <2>5. sem_getvalue(sem_status') = sem_getvalue(sem_status)
    BY <1>0, <2>1, Values
  <2> QED
    BY <2>2, <2>3, <2>4, <2>5, MovesStutters, Zenon DEF Implements
<1>7. CASE sem_wait_suspend(self)
  <2>1. Moves(self, "wait_sleep") /\ sem_status' = sem_status
    BY <1>0, <1>7, Zenon DEF sem_wait_suspend, Moves, Goto, cancelVars, localVars, CountInv
  <2>2. CountInv'
    BY <1>0, <2>1, MovesKeeps, Zenon DEF Live, Labels
  <2>3. Place("wait_sleep") = Place(pc[self])
    BY <1>7, Zenon DEF sem_wait_suspend, Place
  <2> QED
    BY <2>1, <2>2, <2>3, MovesStutters, Zenon DEF Implements
<1>8. CASE sem_wait_resume(self)
  <2>1. Moves(self, "wait_check") /\ sem_status' = sem_status
    BY <1>0, <1>8, Zenon DEF sem_wait_resume, suspend_with_cancellation, swc_restarted,
       swc_interrupted, swc_canceled, cancel_handled, Moves, Goto, cancelVars, localVars, CountInv
  <2>2. CountInv'
    BY <1>0, <2>1, MovesKeeps, Zenon DEF Live, Labels
  <2>3. Place("wait_check") = Place(pc[self])
    BY <1>8, Zenon DEF sem_wait_resume, Place
  <2> QED
    BY <2>1, <2>2, <2>3, MovesStutters, Zenon DEF Implements
<1>9. CASE sem_wait_check(self)
  <2>1. Moves(self, "wait_read") /\ sem_status' = sem_status
    BY <1>0, <1>9, Zenon DEF sem_wait_check, Moves, Goto, cancelVars, localVars, CountInv
  <2>2. CountInv'
    BY <1>0, <2>1, MovesKeeps, Zenon DEF Live, Labels
  <2>3. Place("wait_read") = Place(pc[self])
    BY <1>9, Zenon DEF sem_wait_check, Place
  <2> QED
    BY <2>1, <2>2, <2>3, MovesStutters, Zenon DEF Implements
<1>10. sem_wait_swap(self) => SwapFails(self) \/ (Swapped(self) /\ (Takes(self) \/ Joins(self)))
  BY Zenon DEF sem_wait_swap, CountInv
<1> QED
  BY <1>1, <1>2, <1>3, <1>4, <1>5, <1>6, <1>7, <1>8, <1>9, <1>10, Zenon

\* sem_trywait.
LEMMA TryStep ==
  ASSUME CountInv, NEW self \in Threads, sem_trywait_read(self) \/ sem_trywait_swap(self)
  PROVE  CountInv' /\ Implements
<1>0. /\ 1 \in Count
      /\ sem_status \in Word
      /\ \A n \in Word : n \in Threads \/ n \in Count
  BY SemaphoreAssumption DEF CountInv, Count, Word
<1>1. CASE sem_trywait_read(self) /\ Positive(sem_status)
  <2>1. sem_status \in Count \ {1}
    BY <1>0, <1>1, Values, Zenon DEF Positive
  <2>2. Moves(self, "try_swap") /\ sem_status' = sem_status
    BY <1>0, <1>1, <2>1, Steps, Zenon DEF sem_trywait_read, Moves, Goto, cancelVars, Word
  <2>3. Takes(self)'
    BY <1>1, <2>1, Steps, Zenon DEF sem_trywait_read, Takes, CountInv
  <2>4. CountInv'
    BY <1>0, <2>2, <2>3, MovesKeeps, Zenon DEF Live, Labels
  <2>5. Place("try_swap") = Place(pc[self])
    BY <1>1, Zenon DEF sem_trywait_read, Place
  <2> QED
    BY <2>2, <2>4, <2>5, MovesStutters, Zenon DEF Implements
<1>2. CASE sem_trywait_read(self) /\ ~Positive(sem_status)
  <2>1. sem_status \in Threads \cup {1}
    BY <1>0, <1>2, Values, Zenon DEF Positive
  <2>2. Moves(self, "idle") /\ sem_status' = sem_status
    BY <1>0, <1>2, Zenon DEF sem_trywait_read, Leave, Moves, Goto, cancelVars, Word
  <2>3. CountInv'
    BY <1>0, <2>2, MovesKeeps, Zenon DEF Live, Labels
  <2>4. Abstract!Goto(self, "idle")
    BY <2>2, MovesGoes, Zenon DEF Place
  <2>5. sem_getvalue(sem_status) = 0
    BY <1>0, <2>1, Values
  <2>6. sem_getvalue(sem_status)' = sem_getvalue(sem_status)
    BY <2>2, Zenon DEF sem_getvalue, IsCount, Unsigned
  <2>7. Place(pc[self]) = "sem_trywait"
    BY <1>2, Zenon DEF sem_trywait_read, Place
  <2>8. Abstract!TakeFails(self)
    BY <2>4, <2>5, <2>6, <2>7, Zenon DEF Abstract!TakeFails
  <2> QED
    BY <2>3, <2>8, Zenon DEF Implements, Abstract!Next
<1>3. CASE sem_trywait_swap(self) /\ SwapFails(self)
  <2>1. Moves(self, "try_read") /\ sem_status' = sem_status
    BY <1>0, <1>3, Zenon DEF sem_trywait_swap, SwapFails, Swapped, Leave, Moves, Goto, cancelVars, Word
  <2>2. CountInv'
    BY <1>0, <2>1, MovesKeeps, Zenon DEF Live, Labels
  <2>3. Place("try_read") = Place(pc[self])
    BY <1>3, Zenon DEF sem_trywait_swap, Place
  <2> QED
    BY <2>1, <2>2, <2>3, MovesStutters, Zenon DEF Implements
<1>4. CASE sem_trywait_swap(self) /\ Swapped(self)
  <2>1. /\ sem_status \in Count \ {1} /\ sem_status' = sem_status - 2
        /\ sem_status' \in Count
    BY <1>4, Steps, Zenon DEF sem_trywait_swap, Swapped, Takes, CountInv
  <2>2. Moves(self, "idle")
    BY <1>0, <1>4, Zenon DEF sem_trywait_swap, SwapFails, Swapped, Leave, Moves, Goto, cancelVars, Word
  <2>3. CountInv'
    BY <1>0, <2>1, <2>2, MovesKeeps, Zenon DEF Live, Labels, Word
  <2>4. Abstract!Goto(self, "idle")
    BY <2>2, MovesGoes, Zenon DEF Place
  <2>5. /\ sem_getvalue(sem_status) > 0
        /\ sem_getvalue(sem_status') = sem_getvalue(sem_status) - 1
    BY <2>1, Values, Steps, Zenon
  <2>6. sem_getvalue(sem_status)' = sem_getvalue(sem_status) - 1
    BY <2>5, Zenon DEF sem_getvalue, IsCount, Unsigned
  <2>7. Place(pc[self]) = "sem_trywait"
    BY <1>4, Zenon DEF sem_trywait_swap, Place
  <2>8. Abstract!Take(self)
    BY <2>4, <2>5, <2>6, <2>7, Zenon DEF Abstract!Take
  <2> QED
    BY <2>3, <2>8, Zenon DEF Implements, Abstract!Next
<1> QED
  BY <1>1, <1>2, <1>3, <1>4, Zenon DEF sem_trywait_swap

\* sem_post.
LEMMA PostStep ==
  ASSUME CountInv, NEW self \in Threads,
         \/ sem_post_read(self) \/ sem_post_swap(self) \/ sem_post_next(self)
         \/ sem_post_clear(self) \/ sem_post_restart(self)
  PROVE  CountInv' /\ Implements
<1>0. /\ 1 \in Count /\ 3 \in Count
      /\ sem_status \in Word
      /\ \A n \in Word : n \in Threads \/ n \in Count
  BY SemaphoreAssumption DEF CountInv, Count, Word
<1>1. CASE sem_post_read(self) /\ PostOverflows(sem_status)
  <2>1. sem_status \in Count /\ sem_status >= SEM_VALUE_MAX
    BY <1>0, <1>1, Values, Zenon DEF PostOverflows
  <2>2. Moves(self, "idle") /\ sem_status' = sem_status
    BY <1>0, <1>1, Zenon DEF sem_post_read, Leave, Moves, Goto, cancelVars, Word
  <2>3. CountInv'
    BY <1>0, <2>2, MovesKeeps, Zenon DEF Live, Labels
  <2>4. Abstract!Goto(self, "idle")
    BY <2>2, MovesGoes, Zenon DEF Place
  <2>5. sem_getvalue(sem_status) >= SEM_VALUE_MAX \div 2
    BY <2>1, Values, Steps, Zenon
  <2>6. sem_getvalue(sem_status)' = sem_getvalue(sem_status)
    BY <2>2, Zenon DEF sem_getvalue, IsCount, Unsigned
  <2>7. Place(pc[self]) = "sem_post"
    BY <1>1, Zenon DEF sem_post_read, Place
  <2>8. sem_getvalue(sem_status) \in Int /\ SEM_VALUE_MAX \in Int /\ SEM_VALUE_MAX \div 2 \in Int
    BY <2>1, Values, SemaphoreAssumption DEF Count, SEM_VALUE_MAX
  <2>9. CASE sem_getvalue(sem_status) < SEM_VALUE_MAX
    <3>1. sem_getvalue(sem_status) \in SEM_VALUE_MAX \div 2 .. SEM_VALUE_MAX - 1
      BY <2>5, <2>8, <2>9
    <3>2. RefusedEarly
      BY <1>1, <2>2, <3>1, Zenon DEF RefusedEarly, sem_post_read, Leave
    <3> QED
      BY <2>3, <3>2, Zenon DEF Implements
  <2>10. CASE sem_getvalue(sem_status) >= SEM_VALUE_MAX
    <3>1. Abstract!PostFails(self)
      BY <2>4, <2>6, <2>7, <2>10, Zenon DEF Abstract!PostFails
    <3> QED
      BY <2>3, <3>1, Zenon DEF Implements, Abstract!Next
  <2> QED
    BY <2>8, <2>9, <2>10
<1>2. CASE sem_post_read(self) /\ ~PostOverflows(sem_status)
  <2>1. \/ sem_status \in Threads /\ Up(sem_status) = 3
        \/ /\ sem_status \in Count /\ sem_status < SEM_VALUE_MAX
           /\ Up(sem_status) = sem_status + 2 /\ sem_status + 2 \in Count
    <3>1. CASE sem_status \in Threads
      BY <3>1, Values, Zenon DEF Up
    <3>2. CASE sem_status \in Count
      <4>1. sem_status < SEM_VALUE_MAX
        BY <1>2, <3>2, Values, SemaphoreAssumption DEF PostOverflows, Count, SEM_VALUE_MAX
      <4> QED
        BY <3>2, <4>1, Values, Steps, Zenon DEF Up
    <3> QED
      BY <1>0, <3>1, <3>2, Zenon
  <2>2. Moves(self, "post_swap") /\ sem_status' = sem_status
    BY <1>0, <1>2, <2>1, Zenon DEF sem_post_read, Moves, Goto, cancelVars, Word
  <2>3. Adds(self)'
    BY <1>2, <2>1, Zenon DEF sem_post_read, Adds, CountInv
  <2>4. CountInv'
    BY <1>0, <2>2, <2>3, MovesKeeps, Zenon DEF Live, Labels
  <2>5. Place("post_swap") = Place(pc[self])
    BY <1>2, Zenon DEF sem_post_read, Place
  <2> QED
    BY <2>2, <2>4, <2>5, MovesStutters, Zenon DEF Implements
<1>3. CASE sem_post_swap(self) /\ SwapFails(self)
  <2>1. Moves(self, "post_read") /\ sem_status' = sem_status
    BY <1>0, <1>3, Zenon DEF sem_post_swap, SwapFails, Swapped, Leave, Moves, Goto, cancelVars, Word
  <2>2. CountInv'
    BY <1>0, <2>1, MovesKeeps, Zenon DEF Live, Labels
  <2>3. Place("post_read") = Place(pc[self])
    BY <1>3, Zenon DEF sem_post_swap, Place
  <2> QED
    BY <2>1, <2>2, <2>3, MovesStutters, Zenon DEF Implements
<1>4. CASE sem_post_swap(self) /\ Swapped(self)
  <2>1. \/ sem_status \in Threads /\ sem_status' = 3
        \/ /\ sem_status \in Count /\ sem_status < SEM_VALUE_MAX
           /\ sem_status' = sem_status + 2
    BY <1>4, Zenon DEF sem_post_swap, Swapped, Adds, CountInv
  <2>2. PICK label \in {"idle", "post_next"} : Moves(self, label)
    BY <1>0, <1>4, Zenon DEF sem_post_swap, SwapFails, Swapped, Leave, Moves, Goto, cancelVars, Word
  <2>3. sem_status' \in Count
    BY <1>0, <2>1, Steps, Zenon
  <2>4. CountInv'
    BY <1>0, <2>2, <2>3, MovesKeeps, Zenon DEF Live, Labels, Word
  <2>5. Abstract!Goto(self, "idle")
    BY <2>2, MovesGoes, Zenon DEF Place
  <2>6. /\ sem_getvalue(sem_status) < SEM_VALUE_MAX \div 2
        /\ sem_getvalue(sem_status') = sem_getvalue(sem_status) + 1
    <3>1. CASE sem_status \in Threads
      BY <1>0, <2>1, <3>1, Values, SemaphoreAssumption DEF SEM_VALUE_MAX, Count
    <3>2. CASE sem_status \in Count /\ sem_status < SEM_VALUE_MAX /\ sem_status' = sem_status + 2
      BY <2>3, <3>2, Values, Steps, Zenon
    <3> QED
      BY <2>1, <3>1, <3>2, Zenon
  <2>7. sem_getvalue(sem_status)' = sem_getvalue(sem_status) + 1
    BY <2>6, Zenon DEF sem_getvalue, IsCount, Unsigned
  <2>8. Place(pc[self]) = "sem_post"
    BY <1>4, Zenon DEF sem_post_swap, Place
  <2>9. sem_getvalue(sem_status) < SEM_VALUE_MAX
    <3>1. sem_getvalue(sem_status) \in Int
      BY <1>0, Values, SemaphoreAssumption DEF Count
    <3> QED
      BY <2>6, <3>1, SemaphoreAssumption DEF SEM_VALUE_MAX
  <2>10. Abstract!Post(self)
    BY <2>5, <2>7, <2>8, <2>9, Zenon DEF Abstract!Post
  <2> QED
    BY <2>4, <2>10, Zenon DEF Implements, Abstract!Next
<1>5. CASE sem_post_next(self) \/ sem_post_clear(self) \/ sem_post_restart(self)
  <2>1. sem_status' = sem_status
    BY <1>5, ZenonT(30) DEF sem_post_next, sem_post_clear, sem_post_restart
  <2>2. PICK label \in {"crashed", "post_clear", "post_restart", "idle", "post_next"} :
          Moves(self, label)
    BY <1>0, <1>5 DEF sem_post_next, sem_post_clear, sem_post_restart, Leave, Moves, Goto,
       cancelVars, localVars, Word, CountInv
  <2>3. CountInv'
    BY <1>0, <2>1, <2>2, MovesKeeps, Zenon DEF Live, Labels
  <2>4. Place(label) = Place(pc[self])
    BY <1>5, Zenon DEF sem_post_next, sem_post_clear, sem_post_restart, Place
  <2> QED
    BY <2>1, <2>2, <2>3, <2>4, MovesStutters, Zenon DEF Implements
<1> QED
  BY <1>1, <1>2, <1>3, <1>4, <1>5, Zenon DEF sem_post_swap

\* Every step keeps the counts, and is one of the abstract semaphore or a stutter.
LEMMA CountStep ==
  ASSUME Cancels = {}, CountInv, [Next]_vars
  PROVE  CountInv' /\ Implements
<1>1. CASE UNCHANGED vars
  <2>1. CountInv'
    BY <1>1, Zenon DEF CountInv, Joins, Takes, Adds, vars, localVars, cancelVars
  <2>2. sem_getvalue(sem_status)' = sem_getvalue(sem_status)
    BY <1>1, Zenon DEF vars, sem_getvalue, IsCount, Unsigned
  <2> QED
    BY <1>1, <2>1, <2>2, Zenon DEF Implements, Abstract!vars, vars
<1>2. ASSUME NEW self \in Threads, ProgramCall(self)
      PROVE  CountInv' /\ Implements
  <2>1. PICK entry \in {"wait_read", "try_read", "post_read"} : Call(self, entry)
    BY <1>2, Zenon DEF ProgramCall, CallCancel
  <2>2. Moves(self, entry) /\ sem_status' = sem_status
    BY <2>1, Zenon DEF Call, Moves, Goto, cancelVars, localVars, CountInv
  <2>3. CountInv'
    <3>1. sem_status' \in Word
      BY <2>2, Zenon DEF CountInv
    <3> QED
      BY <2>2, <3>1, MovesKeeps, Zenon DEF Live, Labels
  <2>4. Abstract!Goto(self, Place(entry))
    BY <2>2, MovesGoes, Zenon
  <2>5. sem_getvalue(sem_status)' = sem_getvalue(sem_status)
    BY <2>2, Zenon DEF sem_getvalue, IsCount, Unsigned
  <2>6. Place(pc[self]) = "idle" /\ Place(entry) \in {"sem_wait", "sem_trywait", "sem_post"}
    BY <2>1, Zenon DEF Call, Place
  <2>7. Abstract!Call(self)
    BY <2>4, <2>5, <2>6, Zenon DEF Abstract!Call
  <2> QED
    BY <2>3, <2>7, Zenon DEF Implements, Abstract!Next
<1>3. ASSUME NEW self \in Threads, LibraryStep(self)
      PROVE  CountInv' /\ Implements
  <2>1. CASE sigcancel_ignored(self)
    <3>1. CountInv'
      BY <2>1, Zenon DEF sigcancel_ignored, cancel_handled, CountInv, Joins, Takes, Adds, localVars
    <3>2. sem_getvalue(sem_status)' = sem_getvalue(sem_status)
      BY <2>1, Zenon DEF sigcancel_ignored, sem_getvalue, IsCount, Unsigned
    <3> QED
      BY <2>1, <3>1, <3>2, Zenon DEF sigcancel_ignored, Implements, Abstract!vars
  <2>2. ~(\/ sem_wait_cancel_head(self) \/ sem_wait_cancel_read(self)
          \/ sem_wait_cancel_swap(self) \/ sem_wait_cancel_walk(self)
          \/ sem_wait_cancel_compare(self) \/ sem_wait_cancel_advance(self)
          \/ sem_wait_cancel_unlink(self))
    BY Zenon DEF CountInv, sem_wait_cancel_head, sem_wait_cancel_read, sem_wait_cancel_swap,
       sem_wait_cancel_walk, sem_wait_cancel_compare, sem_wait_cancel_advance,
       sem_wait_cancel_unlink
  <2> QED
    BY <1>3, <2>1, <2>2, WaitStep, TryStep, PostStep, Zenon DEF LibraryStep
<1> QED
  BY <1>1, <1>2, <1>3, Zenon DEF Next

\* The count changes by one at a single moment of each successful call of sem_wait,
\* sem_trywait and sem_post, is positive when a unit is taken and below SEM_VALUE_MAX
\* when one is added, and a call fails where the manual has it fail or, a sem_post,
\* from half of SEM_VALUE_MAX on: sem_wait, sem_trywait and sem_post of
\* src/semaphore.c, however their compare_and_swap loops interleave.
THEOREM ImplementsAbstractSemaphoreHolds ==
  ASSUME Cancels = {}, SmallValues
  PROVE  Spec => ImplementsAbstractSemaphore
<1>1. Init => CountInv /\ Abstract!Init
  BY CountInvInit, Zenon
<1>2. CountInv /\ [Next]_vars => CountInv' /\ [Abstract!Next \/ RefusedEarly]_(Abstract!vars)
  BY CountStep, Zenon DEF Implements
<1> QED
  BY <1>1, <1>2, PTL DEF Spec, ImplementsAbstractSemaphore
-----------------------------------------------------------------------------
(***************************************************************************)
(* The lists of waiting threads, while nobody is cancelled.                *)
(***************************************************************************)

\* The links lead from head through the threads of m, and only those, to 1; r
\* counts the threads from the end.
Line(m, r, head, next) ==
  /\ IF head \in Threads THEN head \in m ELSE m = {}
  /\ \A t \in m : r[t] <= r[head]
  /\ \A t \in m : (r[t] = 1 /\ next[t] = 1) \/ (next[t] \in m /\ r[t] = r[next[t]] + 1)
  /\ \A t, u \in m : r[t] = r[u] => t = u

Ranks == [Threads -> Nat \ {0}]

\* A count is not the address of a thread.
LEMMA OneIsNoThread == \A n \in Int : n \notin Threads
  BY SemaphoreAssumption, Zenon

\* A line depends on the links and ranks of its own threads only.
LEMMA LineFrame ==
  ASSUME NEW m \in SUBSET Threads, NEW r, NEW head, NEW next, Line(m, r, head, next), NEW q, NEW links,
         \A t \in m : q[t] = r[t] /\ links[t] = next[t]
  PROVE  Line(m, q, head, links)
<1>1. head \in Threads => q[head] = r[head]
  BY Zenon DEF Line
<1>2. \A t \in m : q[t] <= q[head]
  BY <1>1, Zenon DEF Line
<1>3. \A t, u \in m : q[t] = q[u] => t = u
  BY Zenon DEF Line
<1>4. \A t \in m : (q[t] = 1 /\ links[t] = 1) \/ (links[t] \in m /\ q[t] = q[links[t]] + 1)
  <2> SUFFICES ASSUME NEW t \in m, ~(q[t] = 1 /\ links[t] = 1)
               PROVE  links[t] \in m /\ q[t] = q[links[t]] + 1
    BY Zenon
  <2>1. next[t] \in m /\ r[t] = r[next[t]] + 1
    BY Zenon DEF Line
  <2> QED
    BY <2>1, Zenon
<1> QED
  BY <1>2, <1>3, <1>4, Zenon DEF Line

\* sem_wait puts a thread in front.
LEMMA LinePush ==
  ASSUME NEW m \in SUBSET Threads, NEW r \in Ranks, NEW head, NEW next, Line(m, r, head, next),
         NEW t \in Threads \ m, next[t] = IF head \in Threads THEN head ELSE 1,
         NEW q, q = [r EXCEPT ![t] = IF head \in Threads THEN r[head] + 1 ELSE 1]
  PROVE  q \in Ranks /\ Line(m \cup {t}, q, t, next)
<1>1. /\ \A u \in m : q[u] = r[u] /\ r[u] \in Nat \ {0} /\ u # t
      /\ q[t] = IF head \in Threads THEN r[head] + 1 ELSE 1
      /\ q \in Ranks
  BY DEF Ranks
<1>2. CASE head \in Threads
  <2>1. head \in m /\ q[t] = q[head] + 1 /\ next[t] = head /\ q[head] = r[head]
    BY <1>1, <1>2, Zenon DEF Line
  <2>2. \A u \in m : q[u] <= q[head] /\ q[u] \in Nat /\ q[head] \in Nat
    BY <1>1, <2>1, Zenon DEF Line
  <2>3. \A u \in m : q[u] <= q[t] /\ q[u] # q[t]
    BY <2>1, <2>2
  <2>4. \A u \in m : (q[u] = 1 /\ next[u] = 1) \/ (next[u] \in m /\ q[u] = q[next[u]] + 1)
    BY <1>1, Zenon DEF Line
  <2>5. \A u, v \in m : q[u] = q[v] => u = v
    BY <1>1, Zenon DEF Line
  <2>6. q[t] <= q[t]
    BY <2>1, <2>2
  <2> QED
    BY <1>1, <2>1, <2>3, <2>4, <2>5, <2>6, Zenon DEF Line
<1>3. CASE head \notin Threads
  BY <1>1, <1>3 DEF Line
<1> QED
  BY <1>2, <1>3, Zenon

\* sem_post takes the first thread.
LEMMA LinePop ==
  ASSUME NEW m \in SUBSET Threads, NEW r \in Ranks, NEW head \in Threads, NEW next, Line(m, r, head, next)
  PROVE  next[head] \in Threads \cup {1} /\ Line(m \ {head}, r, next[head], next)
<1>1. head \in m /\ \A t \in m : r[t] \in Nat \ {0} /\ r[t] <= r[head]
  BY Zenon DEF Line, Ranks
<1>2. \A t \in m : r[t] = r[head] => t = head
  BY <1>1, Zenon DEF Line
<1>3. \A t \in m : (r[t] = 1 /\ next[t] = 1) \/ (next[t] \in m \ {head} /\ r[t] = r[next[t]] + 1)
  <2> SUFFICES ASSUME NEW t \in m, next[t] = head, r[t] = r[head] + 1 PROVE FALSE
    BY Zenon DEF Line
  <2> QED
    BY <1>1
<1>4. \A t \in m \ {head} : r[t] < r[head]
  BY <1>1, <1>2
<1>5. CASE r[head] = 1 /\ next[head] = 1
  <2>1. m \ {head} = {}
    BY <1>1, <1>4, <1>5
  <2> QED
    BY <1>5, <2>1, OneIsNoThread DEF Line
<1>6. CASE next[head] \in m \ {head} /\ r[head] = r[next[head]] + 1
  <2>1. \A t \in m \ {head} : r[t] <= r[next[head]]
    BY <1>1, <1>4, <1>6
  <2>2. \A t, u \in m : r[t] = r[u] => t = u
    BY Zenon DEF Line
  <2> QED
    BY <1>3, <1>6, <2>1, <2>2, Zenon DEF Line
<1> QED
  BY <1>1, <1>3, <1>5, <1>6, Zenon

\* The ranks of a line are all the numbers from 1 to that of its head.
LEMMA LineRanks ==
  ASSUME NEW m \in SUBSET Threads, NEW r \in Ranks, NEW head \in Threads, NEW next, Line(m, r, head, next)
  PROVE  \A i \in Nat : i < r[head] => \E t \in m : r[t] = r[head] - i
<1> DEFINE bad == {i \in Nat : i < r[head] /\ \A t \in m : r[t] # r[head] - i}
<1> SUFFICES ASSUME bad # {} PROVE FALSE
  BY Zenon
<1>1. PICK n \in bad : \A k \in bad : n <= k
  BY LeastNumber, Zenon
<1>2. head \in m /\ \A t \in m : r[t] \in Nat \ {0}
  BY Zenon DEF Line, Ranks
<1>3. n \in Nat /\ n < r[head] /\ \A t \in m : r[t] # r[head] - n
  BY <1>1, Zenon
<1>4. n # 0
  BY <1>2, <1>3
<1>5. n - 1 \in Nat /\ n - 1 < r[head] /\ n - 1 \notin bad
  BY <1>1, <1>2, <1>3, <1>4
<1>6. PICK t \in m : r[t] = r[head] - (n - 1)
  BY <1>5, Zenon
<1>7. r[t] # 1
  BY <1>2, <1>3, <1>6
<1>8. next[t] \in m /\ r[t] = r[next[t]] + 1
  BY <1>7, Zenon DEF Line
<1> QED
  BY <1>2, <1>3, <1>6, <1>8

\* The recursion that follows the links has a solution, and is one.
LEMMA FollowedUnfolds ==
  ASSUME NEW m \in SUBSET Threads, NEW r \in Ranks, NEW head, Line(m, r, head, p_nextwaiting)
  PROVE  /\ Followed(head)[0] = head
         /\ \A i \in Nat \ {0} :
              Followed(head)[i] = IF Followed(head)[i - 1] \in Threads
                                  THEN p_nextwaiting[Followed(head)[i - 1]] ELSE 1
<1> DEFINE step(w) == [i \in Nat |-> IF i = 0 THEN head
                                     ELSE IF w[i - 1] \in Threads THEN p_nextwaiting[w[i - 1]] ELSE 1]
           at(i) == CHOOSE t \in m : r[t] = r[head] - i
           line == [i \in Nat |-> IF i = 0 THEN head
                                  ELSE IF head \in Threads /\ i < r[head] THEN at(i) ELSE 1]
<1>1. /\ 1 \notin Threads /\ \A t \in m : t \in Threads /\ r[t] \in Nat \ {0}
      /\ head \in Threads => head \in m
  BY OneIsNoThread DEF Line, Ranks
<1>2. ASSUME head \in Threads, NEW i \in Nat \ {0}, i < r[head] PROVE at(i) \in m /\ r[at(i)] = r[head] - i
  BY <1>2, LineRanks, Zenon
<1>3. ASSUME head \in Threads, NEW i \in Nat, i < r[head] PROVE line[i] \in m /\ r[line[i]] = r[head] - i
  <2>1. CASE i = 0
    BY <1>1, <1>3, <2>1
  <2>2. CASE i # 0
    <3>1. line[i] = at(i)
      BY <1>3, <2>2, Zenon
    <3> QED
      BY <1>2, <1>3, <2>2, <3>1, Zenon
  <2> QED
    BY <2>1, <2>2, Zenon
<1>4. \A i \in Nat : i # 0 /\ ~(head \in Threads /\ i < r[head]) => line[i] = 1
  BY Zenon
<1>5. line[0] = head /\ line = [i \in Nat |-> line[i]]
  OBVIOUS
<1> HIDE DEF line
<1>6. ASSUME NEW i \in Nat PROVE line[i] = step(line)[i]
  <2>1. CASE i = 0
    BY <1>5, <2>1, Zenon
  <2>2. CASE i # 0 /\ head \in Threads /\ i <= r[head]
    <3>1. i - 1 \in Nat /\ i - 1 < r[head] /\ (i - 1) + 1 = i
      BY <1>1, <2>2
    <3>2. line[i - 1] \in m /\ r[line[i - 1]] = r[head] - (i - 1)
      BY <1>3, <2>2, <3>1, Zenon
    <3>3. step(line)[i] = p_nextwaiting[line[i - 1]]
      BY <1>1, <2>2, <3>2, Zenon
    <3>4. CASE i = r[head]
      <4>1. r[line[i - 1]] = 1 /\ line[i] = 1
        <5>1. r[head] \in Nat /\ ~(i < r[head]) /\ r[head] - (i - 1) = 1
          BY <1>1, <2>2, <3>4
        <5> QED
          BY <1>4, <2>2, <3>2, <5>1, Zenon
      <4>2. ~(p_nextwaiting[line[i - 1]] \in m /\ r[line[i - 1]] = r[p_nextwaiting[line[i - 1]]] + 1)
        BY <1>1, <4>1
      <4> QED
        BY <3>2, <3>3, <4>1, <4>2, Zenon DEF Line
    <3>5. CASE i # r[head]
      <4>1. i < r[head] /\ r[line[i - 1]] # 1
        BY <1>1, <2>2, <3>1, <3>2, <3>5
      <4>2. /\ p_nextwaiting[line[i - 1]] \in m
            /\ r[line[i - 1]] = r[p_nextwaiting[line[i - 1]]] + 1
        BY <3>2, <4>1, Zenon DEF Line
      <4>3. line[i] \in m /\ r[line[i]] = r[head] - i
        BY <1>3, <2>2, <4>1, Zenon
      <4>4. r[p_nextwaiting[line[i - 1]]] = r[line[i]]
        <5>1. r[head] \in Nat /\ r[p_nextwaiting[line[i - 1]]] \in Nat
          BY <1>1, <2>2, <4>2, Zenon
        <5>2. \A a, b \in Nat : a - (i - 1) = b + 1 => b = a - i
          OBVIOUS
        <5> QED
          BY <3>2, <4>2, <4>3, <5>1, <5>2, Zenon
      <4> QED
        BY <3>3, <4>2, <4>3, <4>4, Zenon DEF Line
    <3> QED
      BY <3>4, <3>5, Zenon
  <2>3. CASE i # 0 /\ ~(head \in Threads /\ i <= r[head])
    <3>1. i - 1 \in Nat /\ ~(head \in Threads /\ i - 1 < r[head]) /\ ~(head \in Threads /\ i < r[head])
      BY <1>1, <2>3
    <3>2. line[i] = 1 /\ line[i - 1] \notin Threads
      BY <1>1, <1>4, <1>5, <2>3, <3>1
    <3> QED
      BY <2>3, <3>2, Zenon
  <2> QED
    BY <2>1, <2>2, <2>3, Zenon
<1>7. line = step(line)
  BY <1>5, <1>6, Zenon
<1>8. Followed(head) = step(Followed(head))
  BY <1>7, Zenon DEF Followed
<1> QED
  BY <1>8, Zenon

\* Following p_nextwaiting from the head of a line finds its threads, all of them.
LEMMA ListIs ==
  ASSUME IsFiniteSet(Threads), NEW m \in SUBSET Threads, NEW r \in Ranks, NEW head,
         Line(m, r, head, p_nextwaiting)
  PROVE  ListFrom(head) = m
<1> DEFINE w(i) == Followed(head)[i]
           In(i) == head \in Threads /\ i < r[head]
           Right(i) == IF In(i) THEN w(i) \in m /\ r[w(i)] = r[head] - i ELSE w(i) \notin Threads
           bad == {i \in Nat : ~Right(i)}
<1>1. /\ 1 \notin Threads /\ \A t \in m : t \in Threads /\ r[t] \in Nat \ {0} /\ r[t] <= r[head]
      /\ head \in Threads => head \in m
  BY OneIsNoThread DEF Line, Ranks
<1>2. w(0) = head /\ \A i \in Nat \ {0} : w(i) = IF w(i - 1) \in Threads THEN p_nextwaiting[w(i - 1)] ELSE 1
  BY FollowedUnfolds
<1> HIDE DEF w
<1>3. bad = {}
  <2> SUFFICES ASSUME bad # {} PROVE FALSE
    BY Zenon
  <2>1. PICK n \in bad : \A k \in bad : n <= k
    BY LeastNumber, Zenon
  <2>2. n \in Nat /\ ~Right(n)
    BY <2>1, Zenon
  <2>3. n # 0
    BY <1>1, <1>2, <2>2
  <2>4. n - 1 \in Nat /\ n - 1 \notin bad /\ (n - 1) + 1 = n
    BY <2>1, <2>2, <2>3
  <2>5. Right(n - 1)
    BY <2>4, Zenon
  <2>6. CASE ~In(n - 1)
    BY <1>1, <1>2, <2>2, <2>3, <2>4, <2>5, <2>6
  <2>7. CASE In(n - 1)
    <3>1. w(n - 1) \in m /\ r[w(n - 1)] = r[head] - (n - 1)
      BY <2>5, <2>7, Zenon
    <3>2. w(n) = p_nextwaiting[w(n - 1)]
      BY <1>1, <1>2, <2>2, <2>3, <3>1, Zenon
    <3>3. CASE r[w(n - 1)] = 1 /\ p_nextwaiting[w(n - 1)] = 1
      BY <1>1, <2>2, <2>4, <3>1, <3>2, <3>3
    <3>4. CASE p_nextwaiting[w(n - 1)] \in m /\ r[w(n - 1)] = r[p_nextwaiting[w(n - 1)]] + 1
      <4>1. r[w(n)] = r[head] - n /\ In(n)
        BY <1>1, <2>2, <2>4, <2>7, <3>1, <3>2, <3>4
      <4> QED
        BY <2>2, <3>2, <3>4, <4>1, Zenon
    <3> QED
      BY <3>1, <3>3, <3>4, Zenon DEF Line
  <2> QED
    BY <2>6, <2>7, Zenon
<1>4. \A i \in Nat : Right(i)
  BY <1>3, Zenon
<1>5. Cardinality(Threads) \in Nat
  BY FS_CardinalityType, Zenon
<1>6. ASSUME NEW i \in WalkRange, w(i) \in Threads PROVE w(i) \in m
  BY <1>4, <1>5, <1>6 DEF WalkRange
<1>7. ASSUME NEW t \in m PROVE \E i \in WalkRange : w(i) = t
  <2>1. head \in m /\ head \in Threads
    BY Zenon DEF Line
  <2> DEFINE n == r[head] - r[t]
  <2>2. n \in Nat /\ n < r[head] /\ r[head] \in Nat
    BY <1>1, <2>1
  <2>3. w(n) \in m /\ r[w(n)] = r[t]
    BY <1>1, <1>4, <2>1, <2>2
  <2>4. w(n) = t
    BY <2>3, Zenon DEF Line
  <2>5. r[head] <= Cardinality(Threads)
    <3> DEFINE s == [i \in 1 .. r[head] |-> w(i - 1)]
    <3>1. \A i \in 1 .. r[head] : s[i] \in m /\ r[s[i]] = r[head] - (i - 1)
      BY <1>4, <2>1, <2>2
    <3>2. s \in [1 .. r[head] -> Threads] /\ \A i, j \in 1 .. r[head] : s[i] = s[j] => i = j
      <4>1. s \in [1 .. r[head] -> Threads]
        BY <1>1, <3>1, Zenon
      <4> HIDE DEF s
      <4> QED
        BY <2>2, <3>1, <4>1
    <3> HIDE DEF s
    <3>3. s \in Injection(1 .. r[head], Threads)
      BY <3>2, Zenon DEF Injection, IsInjective
    <3>4. Cardinality(1 .. r[head]) = r[head]
      <4>1. 1 \in Int /\ r[head] \in Int /\ r[head] >= 1
        BY <1>1, <2>1, <2>2
      <4>2. Cardinality(1 .. r[head]) = IF 1 > r[head] THEN 0 ELSE r[head] - 1 + 1
        BY <4>1, FS_Interval, Zenon
      <4> QED
        BY <4>1, <4>2
    <3> QED
      BY <3>3, <3>4, FS_Injection
  <2>6. n \in WalkRange
    BY <1>5, <2>2, <2>5 DEF WalkRange
  <2> QED
    BY <2>4, <2>6, Zenon
<1>8. ListFrom(head) = {w(i) : i \in WalkRange} \cap Threads
  BY Zenon DEF ListFrom, w
<1>9. ListFrom(head) \subseteq m
  BY <1>6, <1>8, Zenon
<1>10. m \subseteq ListFrom(head)
  BY <1>1, <1>7, <1>8, Zenon
<1> QED
  BY <1>9, <1>10, Zenon

\* Where the list starts that sem_status holds (p is NULL), or that the sem_post of
\* p has taken and has yet to walk through.
Start(p) ==
  IF p \notin Threads THEN sem_status
  ELSE IF pc[p] = "post_next" THEN cursor[p]
  ELSE IF pc[p] \in {"post_clear", "post_restart"} THEN next_th[p] ELSE 1

\* u has taken t off its list, and will restart it.
Owes(u, t) == pc[u] \in {"post_clear", "post_restart"} /\ cursor[u] = t

\* A count is a number, and only one who joins the list has linked itself to it.
At(t) ==
  /\ pc[t] \in Live
  /\ pc[t] = "wait_link" => Joins(t)
  /\ pc[t] = "wait_swap" => \/ newstatus[t] \in Int /\ oldstatus[t] \in Int
                            \/ Joins(t) /\ p_nextwaiting[t] = oldstatus[t]
  /\ pc[t] = "try_swap" => newstatus[t] \in Int /\ oldstatus[t] \in Int
  /\ pc[t] = "post_swap" => newstatus[t] \in Int
  /\ pc[t] = "post_next" => cursor[t] \in Threads
  /\ pc[t] \in {"post_clear", "post_restart"} => cursor[t] \in Threads /\ next_th[t] \in Threads \cup {1}

LineTyped ==
  /\ sem_status \in Threads \cup Int
  /\ pc \in [Threads -> Labels] /\ DOMAIN p_nextwaiting = Threads
  /\ DOMAIN oldstatus = Threads /\ DOMAIN newstatus = Threads
  /\ DOMAIN cursor = Threads /\ DOMAIN next_th = Threads
  /\ sigcancel = {} /\ p_canceled = [t \in Threads |-> FALSE]
  /\ \A t \in Threads : At(t)

\* A thread has one restart coming at most, and sleeps.
OneRestart ==
  /\ \A t \in sigpending : t \in Threads /\ Asleep(t)
  /\ \A u, t \in Threads : Owes(u, t) =>
       Asleep(t) /\ t \notin sigpending /\ \A v \in Threads : Owes(v, t) => v = u

\* The lists M have no thread in common, and a thread sleeps if it is in one or
\* has a restart coming.
Lines(M, r) ==
  /\ M \in [Pointer -> SUBSET Threads] /\ r \in Ranks
  /\ \A p, q \in Pointer : \A t \in M[p] : t \in M[q] => p = q
  /\ \A p \in Pointer : Line(M[p], r, Start(p), p_nextwaiting)
  /\ \A p \in Pointer : \A t \in M[p] :
       Asleep(t) /\ t \notin sigpending /\ \A u \in Threads : ~Owes(u, t)
  /\ \A t \in Threads : Asleep(t) =>
       \/ t \in sigpending \/ (\E u \in Threads : Owes(u, t))
       \/ \E p \in Pointer : t \in M[p]

LinesInv == OneRestart /\ \E M, r : Lines(M, r)
LineInv == LineTyped /\ LinesInv

\* A step of self leaves the local variables of the others alone.
Others(self) ==
  \A t \in Threads \ {self} :
    /\ pc'[t] = pc[t] /\ oldstatus'[t] = oldstatus[t] /\ newstatus'[t] = newstatus[t]
    /\ cursor'[t] = cursor[t] /\ next_th'[t] = next_th[t]

\* What a step of self does not change for the other threads.
LEMMA OthersSame ==
  ASSUME NEW self \in Threads, Others(self), NEW t \in Threads \ {self}
  PROVE  /\ Asleep(t)' <=> Asleep(t)
         /\ \A u \in Threads : Owes(t, u)' <=> Owes(t, u)
         /\ Start(t)' = Start(t)
         /\ (pc[t] = "wait_swap" => p_nextwaiting'[t] = p_nextwaiting[t]) /\ At(t) => At(t)'
<1>1. /\ pc'[t] = pc[t] /\ oldstatus'[t] = oldstatus[t] /\ newstatus'[t] = newstatus[t]
      /\ cursor'[t] = cursor[t] /\ next_th'[t] = next_th[t]
  BY Zenon DEF Others
<1>2. Asleep(t)' <=> Asleep(t)
  BY <1>1, Zenon DEF Asleep
<1>3. \A u \in Threads : Owes(t, u)' <=> Owes(t, u)
  BY <1>1, Zenon DEF Owes
<1>4. Start(t)' = Start(t)
  BY <1>1, Zenon DEF Start
<1>5. (pc[t] = "wait_swap" => p_nextwaiting'[t] = p_nextwaiting[t]) /\ At(t) => At(t)'
  BY <1>1, Zenon DEF At, Joins
<1> QED
  BY <1>2, <1>3, <1>4, <1>5, Zenon

\* Steps that change no list.
LEMMA QuietKeeps ==
  ASSUME LinesInv, sigpending' = sigpending,
         \A t \in Threads : Asleep(t)' <=> Asleep(t),
         \A u, t \in Threads : Owes(u, t)' <=> Owes(u, t),
         \A p \in Threads : Start(p)' = Start(p),
         sem_status' = sem_status \/ (sem_status \notin Threads /\ sem_status' \notin Threads),
         \A t \in Threads : Asleep(t) /\ (\A u \in Threads : ~Owes(u, t)) => p_nextwaiting'[t] = p_nextwaiting[t]
  PROVE  LinesInv'
<1>1. PICK M, r : Lines(M, r)
  BY Zenon DEF LinesInv
<1>2. OneRestart /\ Pointer = Threads \cup {NULL} /\ NULL \notin Threads
  BY NullAssumption, Zenon DEF LinesInv, Pointer
<1>3. OneRestart'
  BY <1>2, Zenon DEF OneRestart
<1>4. ASSUME NEW p \in Pointer PROVE Line(M[p], r, Start(p)', p_nextwaiting')
  <2>1. /\ M[p] \in SUBSET Threads /\ Line(M[p], r, Start(p), p_nextwaiting)
        /\ \A t \in M[p] : r[t] = r[t] /\ p_nextwaiting'[t] = p_nextwaiting[t]
    BY <1>1, Zenon DEF Lines
  <2>2. Line(M[p], r, Start(p), p_nextwaiting')
    BY <2>1, LineFrame, Zenon
  <2>3. CASE Start(p)' = Start(p)
    BY <2>2, <2>3, Zenon
  <2>4. CASE Start(p)' # Start(p)
    <3>1. Start(p)' \notin Threads /\ Start(p) \notin Threads
      BY <1>2, <2>4, Zenon DEF Start
    <3>2. M[p] = {}
      BY <2>1, <3>1, Zenon DEF Line
    <3> QED
      BY <3>1, <3>2, Zenon DEF Line
  <2> QED
    BY <2>3, <2>4, Zenon
<1>5. Lines(M, r)'
  <2>1. \A p \in Pointer : \A t \in M[p] :
          Asleep(t)' /\ t \notin sigpending' /\ \A u \in Threads : ~Owes(u, t)'
    BY <1>1, Zenon DEF Lines
  <2>2. \A t \in Threads : Asleep(t)' =>
          \/ t \in sigpending' \/ (\E u \in Threads : Owes(u, t)')
          \/ \E p \in Pointer : t \in M[p]
    BY <1>1, Zenon DEF Lines
  <2> QED
    BY <1>1, <1>4, <2>1, <2>2, Zenon DEF Lines
<1> QED
  BY <1>3, <1>5, Zenon DEF LinesInv

\* The lists of the invariant, one by one.
LEMMA LinesFacts ==
  ASSUME NEW M, NEW r, Lines(M, r)
  PROVE  /\ NULL \in Pointer /\ (\A p \in Threads : p \in Pointer) /\ \A p \in Pointer : p = NULL \/ p \in Threads
         /\ \A p \in Pointer : M[p] \in SUBSET Threads /\ Line(M[p], r, Start(p), p_nextwaiting)
         /\ \A p, q \in Pointer : \A t \in M[p] : t \in M[q] => p = q
  BY Zenon DEF Lines, Pointer

\* Another list is that of p.
LEMMA SameLine ==
  ASSUME NEW m, NEW r, NEW head, NEW next, Line(m, r, head, next), NEW n, NEW begin, NEW links,
         n = m, begin = head, links = next
  PROVE  Line(n, r, begin, links)
  BY Zenon

Posting == {"post_next", "post_clear", "post_restart"}

\* A thread joins the list of the semaphore.
LEMMA PushKeeps ==
  ASSUME LinesInv, NEW self \in Threads, Others(self), pc[self] \notin Posting, pc'[self] \notin Posting,
         ~Asleep(self), Asleep(self)', UNCHANGED <<sigpending, p_nextwaiting>>,
         sem_status \in Threads \cup {1}, sem_status' = self, p_nextwaiting[self] = sem_status
  PROVE  LinesInv'
<1>1. PICK M, r : Lines(M, r)
  BY Zenon DEF LinesInv
<1>2. OneRestart /\ Pointer = Threads \cup {NULL} /\ NULL \notin Threads /\ 1 \notin Threads
  BY NullAssumption, OneIsNoThread DEF LinesInv, Pointer
<1>3. /\ \A t \in Threads \ {self} : Asleep(t)' <=> Asleep(t)
      /\ \A u, t \in Threads : Owes(u, t)' <=> Owes(u, t)
      /\ \A p \in Threads : Start(p)' = Start(p)
  <2>1. \A t \in Threads : ~Owes(self, t) /\ ~Owes(self, t)'
    BY Zenon DEF Owes, Posting
  <2>2. Start(self) = 1 /\ Start(self)' = 1
    BY Zenon DEF Start, Posting
  <2> QED
    BY <2>1, <2>2, OthersSame, Zenon
<1>4. self \notin sigpending /\ (\A u \in Threads : ~Owes(u, self)) /\ \A p \in Pointer : self \notin M[p]
  BY <1>1, <1>2, Zenon DEF OneRestart, Lines
<1>5. OneRestart'
  BY <1>2, <1>3, Zenon DEF OneRestart
<1>6. Start(NULL) = sem_status /\ Start(NULL)' = self
  BY <1>2, Zenon DEF Start
<1>7. PICK T : T = [M EXCEPT ![NULL] = M[NULL] \cup {self}]
  BY Zenon
<1>8. PICK q : q = [r EXCEPT ![self] = IF sem_status \in Threads THEN r[sem_status] + 1 ELSE 1]
  BY Zenon
<1>9. /\ T \in [Pointer -> SUBSET Threads] /\ T[NULL] = M[NULL] \cup {self}
      /\ \A p \in Threads : T[p] = M[p]
  <2>1. M \in [Pointer -> SUBSET Threads]
    BY <1>1, Zenon DEF Lines
  <2>2. NULL \in Pointer /\ (\A p \in Threads : p \in Pointer /\ p # NULL)
    BY <1>2, Zenon
  <2>3. M[NULL] \cup {self} \in SUBSET Threads
    BY <2>1, <2>2, Zenon
  <2> QED
    BY <1>7, <2>1, <2>2, <2>3, Zenon
<1>10. q \in Ranks /\ Line(M[NULL] \cup {self}, q, self, p_nextwaiting)
  <2>1. /\ M[NULL] \in SUBSET Threads /\ r \in Ranks /\ self \in Threads \ M[NULL]
        /\ Line(M[NULL], r, sem_status, p_nextwaiting)
        /\ p_nextwaiting[self] = IF sem_status \in Threads THEN sem_status ELSE 1
    <3>1. NULL \in Pointer /\ M[NULL] \in SUBSET Threads /\ Line(M[NULL], r, Start(NULL), p_nextwaiting)
      BY <1>1, LinesFacts, Zenon
    <3>2. self \in Threads \ M[NULL] /\ r \in Ranks
      BY <1>1, <1>4, <3>1, Zenon DEF Lines
    <3>3. Line(M[NULL], r, sem_status, p_nextwaiting)
      BY <1>6, <3>1, SameLine, Zenon
    <3>4. p_nextwaiting[self] = IF sem_status \in Threads THEN sem_status ELSE 1
      BY <1>2, Zenon
    <3> QED
      BY <3>1, <3>2, <3>3, <3>4, Zenon
  <2> QED
    BY <1>8, <2>1, LinePush, Zenon
<1>11. ASSUME NEW p \in Threads PROVE Line(M[p], q, Start(p), p_nextwaiting)
  <2>1. M[p] \in SUBSET Threads /\ Line(M[p], r, Start(p), p_nextwaiting) /\ self \notin M[p]
    BY <1>1, <1>2, <1>4, Zenon DEF Lines
  <2>2. \A t \in M[p] : q[t] = r[t] /\ p_nextwaiting[t] = p_nextwaiting[t]
    BY <1>1, <1>8, <2>1, Zenon DEF Lines, Ranks
  <2> QED
    BY <2>1, <2>2, LineFrame, Zenon
<1>12. \A p \in Pointer : Line(T[p], q, Start(p)', p_nextwaiting')
  <2>1. Line(T[NULL], q, Start(NULL)', p_nextwaiting')
    BY <1>6, <1>9, <1>10, SameLine, Zenon
  <2>2. ASSUME NEW p \in Threads PROVE Line(T[p], q, Start(p)', p_nextwaiting')
    BY <1>3, <1>9, <1>11, SameLine, Zenon
  <2> QED
    BY <1>1, <2>1, <2>2, LinesFacts, Zenon
<1>13. Lines(T, q)'
  <2>1. \A p, o \in Pointer : \A t \in T[p] : t \in T[o] => p = o
    <3> SUFFICES ASSUME NEW p \in Pointer, NEW o \in Pointer, NEW t \in T[p], t \in T[o] PROVE p = o
      BY Zenon
    <3>1. CASE t = self
      BY <1>2, <1>4, <1>9, <3>1, Zenon
    <3>2. CASE t # self
      BY <1>1, <1>2, <1>9, <3>2, LinesFacts, Zenon
    <3> QED
      BY <3>1, <3>2, Zenon
  <2>2. \A p \in Pointer : \A t \in T[p] :
          Asleep(t)' /\ t \notin sigpending' /\ \A u \in Threads : ~Owes(u, t)'
    <3> SUFFICES ASSUME NEW p \in Pointer, NEW t \in T[p]
                 PROVE  Asleep(t)' /\ t \notin sigpending' /\ \A u \in Threads : ~Owes(u, t)'
      BY Zenon
    <3>1. t = self \/ t \in M[p]
      BY <1>2, <1>9, Zenon
    <3>2. t \in M[p] => /\ t \in Threads \ {self} /\ Asleep(t) /\ t \notin sigpending
                        /\ \A u \in Threads : ~Owes(u, t)
      BY <1>1, <1>4, Zenon DEF Lines
    <3> QED
      BY <1>3, <1>4, <3>1, <3>2, Zenon
  <2>3. \A t \in Threads : Asleep(t)' =>
          \/ t \in sigpending' \/ (\E u \in Threads : Owes(u, t)')
          \/ \E p \in Pointer : t \in T[p]
    BY <1>1, <1>2, <1>3, <1>9, Zenon DEF Lines
  <2> QED
    BY <1>9, <1>10, <1>12, <2>1, <2>2, <2>3, ZenonT(30) DEF Lines
<1> QED
  BY <1>5, <1>13, Zenon DEF LinesInv

\* A thread that has been restarted wakes up.
LEMMA ResumeKeeps ==
  ASSUME LinesInv, NEW self \in Threads, Others(self), pc[self] \notin Posting, pc'[self] \notin Posting,
         ~Asleep(self)', self \in sigpending, sigpending' = sigpending \ {self},
         UNCHANGED <<sem_status, p_nextwaiting>>
  PROVE  LinesInv'
<1>1. PICK M, r : Lines(M, r)
  BY Zenon DEF LinesInv
<1>2. OneRestart
  BY Zenon DEF LinesInv
<1>3. /\ \A t \in Threads \ {self} : Asleep(t)' <=> Asleep(t)
      /\ \A u, t \in Threads : Owes(u, t)' <=> Owes(u, t)
      /\ \A p \in Threads : Start(p)' = Start(p)
  <2>1. \A t \in Threads : ~Owes(self, t) /\ ~Owes(self, t)'
    BY Zenon DEF Owes, Posting
  <2>2. Start(self) = 1 /\ Start(self)' = 1
    BY Zenon DEF Start, Posting
  <2> QED
    BY <2>1, <2>2, OthersSame, Zenon
<1>4. (\A u \in Threads : ~Owes(u, self)) /\ \A p \in Pointer : self \notin M[p]
  BY <1>1, <1>2, Zenon DEF OneRestart, Lines
<1>5. OneRestart'
  <2>1. \A t \in sigpending' : t \in Threads /\ Asleep(t)'
    BY <1>2, <1>3, Zenon DEF OneRestart
  <2>2. ASSUME NEW u \in Threads, NEW t \in Threads, Owes(u, t)'
        PROVE  Asleep(t)' /\ t \notin sigpending' /\ \A v \in Threads : Owes(v, t)' => v = u
    <3>1. Owes(u, t) /\ t # self
      BY <1>3, <1>4, <2>2, Zenon
    <3>2. Asleep(t) /\ t \notin sigpending /\ \A v \in Threads : Owes(v, t) => v = u
      BY <1>2, <3>1, Zenon DEF OneRestart
    <3> QED
      BY <1>3, <3>1, <3>2, Zenon
  <2> QED
    BY <2>1, <2>2, Zenon DEF OneRestart
<1>6. \A p \in Pointer : Start(p)' = Start(p)
  BY <1>3, Zenon DEF Start
<1>7. Lines(M, r)'
  <2>1. \A p \in Pointer : \A t \in M[p] :
          Asleep(t)' /\ t \notin sigpending' /\ \A u \in Threads : ~Owes(u, t)'
    <3> SUFFICES ASSUME NEW p \in Pointer, NEW t \in M[p]
                 PROVE  Asleep(t)' /\ t \notin sigpending' /\ \A u \in Threads : ~Owes(u, t)'
      BY Zenon
    <3>1. t \in Threads \ {self} /\ Asleep(t) /\ t \notin sigpending /\ \A u \in Threads : ~Owes(u, t)
      BY <1>1, <1>4, Zenon DEF Lines
    <3> QED
      BY <1>3, <3>1, Zenon
  <2>2. \A t \in Threads : Asleep(t)' =>
          \/ t \in sigpending' \/ (\E u \in Threads : Owes(u, t)')
          \/ \E p \in Pointer : t \in M[p]
    BY <1>1, <1>3, Zenon DEF Lines
  <2>3. ASSUME NEW p \in Pointer PROVE Line(M[p], r, Start(p)', p_nextwaiting')
    BY <1>1, <1>6, LinesFacts, SameLine, Zenon
  <2> QED
    BY <1>1, <2>1, <2>2, <2>3, Zenon DEF Lines
<1> QED
  BY <1>5, <1>7, Zenon DEF LinesInv

\* sem_post takes the list of the semaphore.
LEMMA TakeKeeps ==
  ASSUME LinesInv, NEW self \in Threads, Others(self), pc[self] \notin Posting, pc'[self] = "post_next",
         ~Asleep(self), UNCHANGED <<sigpending, p_nextwaiting>>,
         sem_status \in Threads, sem_status' \notin Threads, cursor'[self] = sem_status
  PROVE  LinesInv'
<1>1. PICK M, r : Lines(M, r)
  BY Zenon DEF LinesInv
<1>2. OneRestart /\ Pointer = Threads \cup {NULL} /\ NULL \notin Threads /\ 1 \notin Threads
  BY NullAssumption, OneIsNoThread DEF LinesInv, Pointer
<1>3. /\ \A t \in Threads : Asleep(t)' <=> Asleep(t)
      /\ \A u, t \in Threads : Owes(u, t)' <=> Owes(u, t)
      /\ \A p \in Threads \ {self} : Start(p)' = Start(p)
      /\ Start(self) = 1 /\ Start(self)' = sem_status
      /\ Start(NULL) = sem_status /\ Start(NULL)' = sem_status'
  <2>1. \A t \in Threads : ~Owes(self, t) /\ ~Owes(self, t)'
    BY Zenon DEF Owes, Posting
  <2>2. Start(self) = 1 /\ Start(self)' = sem_status
    BY Zenon DEF Start, Posting
  <2>3. ~Asleep(self)'
    BY Zenon DEF Asleep
  <2>4. Start(NULL) = sem_status /\ Start(NULL)' = sem_status'
    BY <1>2, Zenon DEF Start
  <2>5. \A t \in Threads : Asleep(t)' <=> Asleep(t)
    BY <2>3, OthersSame, Zenon
  <2>6. \A u, t \in Threads : Owes(u, t)' <=> Owes(u, t)
    BY <2>1, OthersSame, Zenon
  <2> QED
    BY <2>2, <2>4, <2>5, <2>6, OthersSame, Zenon
<1>4. OneRestart'
  BY <1>2, <1>3, Zenon DEF OneRestart
<1>5. M[self] = {}
  BY <1>1, <1>2, <1>3, LinesFacts DEF Line
<1>6. PICK T : T = [M EXCEPT ![self] = M[NULL], ![NULL] = {}]
  BY Zenon
<1>7. /\ T \in [Pointer -> SUBSET Threads] /\ T[NULL] = {} /\ T[self] = M[NULL]
      /\ \A p \in Threads \ {self} : T[p] = M[p]
  BY <1>1, <1>2, <1>6, Zenon DEF Lines
<1>8. \A p \in Pointer : Line(T[p], r, Start(p)', p_nextwaiting')
  <2>1. Line(T[self], r, Start(self)', p_nextwaiting')
    BY <1>1, <1>3, <1>7, LinesFacts, SameLine, ZenonT(30)
  <2>2. Line(T[NULL], r, Start(NULL)', p_nextwaiting')
    BY <1>3, <1>7, Zenon DEF Line
  <2>3. ASSUME NEW p \in Threads \ {self} PROVE Line(T[p], r, Start(p)', p_nextwaiting')
    BY <1>1, <1>3, <1>7, LinesFacts, SameLine, Zenon
  <2> QED
    BY <1>2, <2>1, <2>2, <2>3, Zenon
<1>9. Lines(T, r)'
  <2>1. \A p, o \in Pointer : \A t \in T[p] : t \in T[o] => p = o
    BY <1>1, <1>2, <1>5, <1>7, LinesFacts, SMTT(30)
  <2>2. \A p \in Pointer : \A t \in T[p] :
          Asleep(t)' /\ t \notin sigpending' /\ \A u \in Threads : ~Owes(u, t)'
    <3> SUFFICES ASSUME NEW p \in Pointer, NEW t \in T[p]
                 PROVE  Asleep(t)' /\ t \notin sigpending' /\ \A u \in Threads : ~Owes(u, t)'
      BY Zenon
    <3>1. t \in Threads /\ \E o \in Pointer : t \in M[o]
      BY <1>2, <1>7, Zenon
    <3> QED
      BY <1>1, <1>3, <3>1, Zenon DEF Lines
  <2>3. \A t \in Threads : Asleep(t)' =>
          \/ t \in sigpending' \/ (\E u \in Threads : Owes(u, t)')
          \/ \E p \in Pointer : t \in T[p]
    <3>1. \A t : (\E p \in Pointer : t \in M[p]) => \E p \in Pointer : t \in T[p]
      BY <1>2, <1>5, <1>7, Zenon
    <3> QED
      BY <1>1, <1>3, <3>1, Zenon DEF Lines
  <2> QED
    BY <1>1, <1>7, <1>8, <2>1, <2>2, <2>3, ZenonT(30) DEF Lines
<1> QED
  BY <1>4, <1>9, Zenon DEF LinesInv

\* It takes the first thread off the list, to restart it.
LEMMA NextKeeps ==
  ASSUME LinesInv, NEW self \in Threads, Others(self), pc[self] = "post_next", pc'[self] = "post_clear",
         UNCHANGED <<sigpending, sem_status, p_nextwaiting>>, cursor[self] \in Threads,
         cursor'[self] = cursor[self], next_th'[self] = p_nextwaiting[cursor[self]]
  PROVE  LinesInv' /\ next_th'[self] \in Threads \cup {1}
<1>1. PICK M, r : Lines(M, r)
  BY Zenon DEF LinesInv
<1>2. OneRestart /\ Pointer = Threads \cup {NULL} /\ NULL \notin Threads
  BY NullAssumption, Zenon DEF LinesInv, Pointer
<1>3. PICK h \in Threads : h = cursor[self]
  BY Zenon
<1>4. /\ \A t \in Threads : Asleep(t)' <=> Asleep(t)
      /\ \A u \in Threads \ {self} : \A t \in Threads : Owes(u, t)' <=> Owes(u, t)
      /\ \A t \in Threads : ~Owes(self, t) /\ (Owes(self, t)' <=> t = h)
      /\ \A p \in Pointer \ {self} : Start(p)' = Start(p)
      /\ Start(self) = h /\ Start(self)' = p_nextwaiting[h]
  <2>1. \A t \in Threads : ~Owes(self, t) /\ (Owes(self, t)' <=> t = h)
    BY <1>3, Zenon DEF Owes
  <2>2. Start(self) = h /\ Start(self)' = p_nextwaiting[h]
    BY <1>3, Zenon DEF Start
  <2>3. ~Asleep(self) /\ ~Asleep(self)'
    BY Zenon DEF Asleep
  <2>4. Start(NULL)' = Start(NULL)
    BY <1>2, Zenon DEF Start
  <2>5. \A t \in Threads : Asleep(t)' <=> Asleep(t)
    BY <2>3, OthersSame, Zenon
  <2>6. \A u \in Threads \ {self} : \A t \in Threads : Owes(u, t)' <=> Owes(u, t)
    BY OthersSame, Zenon
  <2>7. \A p \in Pointer \ {self} : Start(p)' = Start(p)
    BY <1>2, <2>4, OthersSame, Zenon
  <2> QED
    BY <2>1, <2>2, <2>5, <2>6, <2>7, Zenon
<1>5. /\ self \in Pointer /\ M[self] \in SUBSET Threads /\ r \in Ranks
      /\ Line(M[self], r, h, p_nextwaiting) /\ h \in M[self]
  <2>1. self \in Pointer /\ M[self] \in SUBSET Threads /\ r \in Ranks /\ Line(M[self], r, h, p_nextwaiting)
    BY <1>1, <1>4, LinesFacts, Zenon DEF Lines
  <2> QED
    BY <2>1, Zenon DEF Line
<1>6. p_nextwaiting[h] \in Threads \cup {1} /\ Line(M[self] \ {h}, r, p_nextwaiting[h], p_nextwaiting)
  BY <1>5, LinePop, Zenon
<1>7. Asleep(h) /\ h \notin sigpending /\ \A u \in Threads : ~Owes(u, h)
  BY <1>1, <1>5, Zenon DEF Lines
<1>8. OneRestart'
  <2>1. \A t \in sigpending' : t \in Threads /\ Asleep(t)'
    BY <1>2, <1>4, Zenon DEF OneRestart
  <2>2. ASSUME NEW u \in Threads, NEW t \in Threads, Owes(u, t)'
        PROVE  Asleep(t)' /\ t \notin sigpending' /\ \A v \in Threads : Owes(v, t)' => v = u
    <3>1. CASE t = h
      <4>1. \A v \in Threads : Owes(v, t)' => v = self
        BY <1>4, <1>7, <3>1, Zenon
      <4> QED
        BY <1>4, <1>7, <2>2, <3>1, <4>1, Zenon
    <3>2. CASE t # h
      <4>1. \A v \in Threads : Owes(v, t)' <=> Owes(v, t)
        BY <1>4, <3>2, Zenon
      <4>2. Asleep(t) /\ t \notin sigpending /\ \A v \in Threads : Owes(v, t) => v = u
        BY <1>2, <2>2, <4>1, Zenon DEF OneRestart
      <4> QED
        BY <1>4, <4>1, <4>2, Zenon
    <3> QED
      BY <3>1, <3>2, Zenon
  <2> QED
    BY <2>1, <2>2, Zenon DEF OneRestart
<1>9. PICK T : T = [M EXCEPT ![self] = M[self] \ {h}]
  BY Zenon
<1>10. /\ T \in [Pointer -> SUBSET Threads] /\ T[self] = M[self] \ {h}
       /\ \A p \in Pointer \ {self} : T[p] = M[p]
  BY <1>1, <1>5, <1>9, Zenon DEF Lines
<1>11. \A p \in Pointer : Line(T[p], r, Start(p)', p_nextwaiting')
  <2>1. Line(T[self], r, Start(self)', p_nextwaiting')
    BY <1>4, <1>6, <1>10, SameLine, Zenon
  <2>2. ASSUME NEW p \in Pointer \ {self} PROVE Line(T[p], r, Start(p)', p_nextwaiting')
    BY <1>1, <1>4, <1>10, LinesFacts, SameLine, Zenon
  <2> QED
    BY <2>1, <2>2, Zenon
<1>12. Lines(T, r)'
  <2>1. \A p \in Pointer : \A t \in T[p] : t \in M[p] /\ t # h
    <3>1. self \in Pointer /\ h \in M[self] /\ \A p \in Pointer : h \in M[p] => p = self
      BY <1>1, <1>5, LinesFacts, Zenon
    <3>2. \A t \in T[self] : t \in M[self] /\ t # h
      BY <1>10, Zenon
    <3>3. \A p \in Pointer \ {self} : \A t \in T[p] : t \in M[p] /\ t # h
      BY <1>10, <3>1, Zenon
    <3> QED
      BY <3>2, <3>3, Zenon
  <2>2. \A p, o \in Pointer : \A t \in T[p] : t \in T[o] => p = o
    BY <1>1, <2>1, LinesFacts, Zenon
  <2>3. ASSUME NEW p \in Pointer, NEW t \in T[p]
        PROVE  Asleep(t)' /\ t \notin sigpending' /\ \A u \in Threads : ~Owes(u, t)'
    <3>1. t \in Threads /\ t # h /\ Asleep(t) /\ t \notin sigpending /\ \A u \in Threads : ~Owes(u, t)
      BY <1>1, <2>1, Zenon DEF Lines
    <3> QED
      BY <1>4, <3>1, Zenon
  <2>4. ASSUME NEW t \in Threads, Asleep(t)'
        PROVE  \/ t \in sigpending' \/ (\E u \in Threads : Owes(u, t)')
               \/ \E p \in Pointer : t \in T[p]
    <3>1. CASE t = h
      BY <1>4, <3>1, Zenon
    <3>2. ASSUME NEW u \in Threads, Owes(u, t) PROVE Owes(u, t)'
      BY <1>4, <3>2, Zenon
    <3>3. ASSUME t # h, NEW p \in Pointer, t \in M[p] PROVE t \in T[p]
      BY <1>10, <3>3, Zenon
    <3>4. \/ t \in sigpending \/ (\E u \in Threads : Owes(u, t))
          \/ \E p \in Pointer : t \in M[p]
      BY <1>1, <1>4, <2>4, Zenon DEF Lines
    <3> QED
      BY <3>1, <3>2, <3>3, <3>4, Zenon
  <2> QED
    BY <1>1, <1>10, <1>11, <2>2, <2>3, <2>4, ZenonT(30) DEF Lines
<1> QED
  BY <1>3, <1>6, <1>8, <1>12, Zenon DEF LinesInv

\* It restarts it.
LEMMA RestartKeeps ==
  ASSUME LinesInv, NEW self \in Threads, Others(self), pc[self] = "post_restart", cursor[self] \in Threads,
         \/ pc'[self] = "idle" /\ next_th[self] = 1
         \/ pc'[self] = "post_next" /\ cursor'[self] = next_th[self],
         sigpending' = sigpending \cup {cursor[self]}, UNCHANGED <<sem_status, p_nextwaiting>>
  PROVE  LinesInv'
<1>1. PICK M, r : Lines(M, r)
  BY Zenon DEF LinesInv
<1>2. OneRestart /\ Pointer = Threads \cup {NULL} /\ NULL \notin Threads
  BY NullAssumption, Zenon DEF LinesInv, Pointer
<1>3. PICK h \in Threads : h = cursor[self]
  BY Zenon
<1>4. /\ \A t \in Threads : Asleep(t)' <=> Asleep(t)
      /\ \A u \in Threads \ {self} : \A t \in Threads : Owes(u, t)' <=> Owes(u, t)
      /\ \A t \in Threads : ~Owes(self, t)' /\ (Owes(self, t) <=> t = h)
      /\ \A p \in Pointer : Start(p)' = Start(p)
  <2>1. \A t \in Threads : ~Owes(self, t)' /\ (Owes(self, t) <=> t = h)
    BY <1>3, Zenon DEF Owes
  <2>2. Start(self)' = Start(self)
    BY <1>3, Zenon DEF Start
  <2>3. ~Asleep(self) /\ ~Asleep(self)'
    BY Zenon DEF Asleep
  <2>4. Start(NULL)' = Start(NULL)
    BY <1>2, Zenon DEF Start
  <2>5. \A t \in Threads : Asleep(t)' <=> Asleep(t)
    BY <2>3, OthersSame, Zenon
  <2>6. \A u \in Threads \ {self} : \A t \in Threads : Owes(u, t)' <=> Owes(u, t)
    BY OthersSame, Zenon
  <2>7. \A p \in Pointer : Start(p)' = Start(p)
    BY <1>2, <2>2, <2>4, OthersSame, Zenon
  <2> QED
    BY <2>1, <2>5, <2>6, <2>7, Zenon
<1>5. Asleep(h) /\ h \notin sigpending /\ \A v \in Threads : Owes(v, h) => v = self
  BY <1>2, <1>4, Zenon DEF OneRestart
<1>6. OneRestart'
  <2>1. \A t \in sigpending' : t \in Threads /\ Asleep(t)'
    BY <1>2, <1>3, <1>4, <1>5, Zenon DEF OneRestart
  <2>2. ASSUME NEW u \in Threads, NEW t \in Threads, Owes(u, t)'
        PROVE  Asleep(t)' /\ t \notin sigpending' /\ \A v \in Threads : Owes(v, t)' => v = u
    <3>1. u # self /\ Owes(u, t)
      BY <1>4, <2>2, Zenon
    <3>2. t # h
      BY <1>5, <3>1, Zenon
    <3>3. Asleep(t) /\ t \notin sigpending /\ \A v \in Threads : Owes(v, t) => v = u
      BY <1>2, <3>1, Zenon DEF OneRestart
    <3>4. \A v \in Threads : Owes(v, t)' => Owes(v, t)
      BY <1>4, Zenon
    <3> QED
      BY <1>3, <1>4, <3>2, <3>3, <3>4, ZenonT(30)
  <2> QED
    BY <2>1, <2>2, Zenon DEF OneRestart
<1>7. Lines(M, r)'
  <2>1. ASSUME NEW p \in Pointer PROVE Line(M[p], r, Start(p)', p_nextwaiting')
    BY <1>1, <1>4, LinesFacts, SameLine, Zenon
  <2>2. ASSUME NEW p \in Pointer, NEW t \in M[p]
        PROVE  Asleep(t)' /\ t \notin sigpending' /\ \A u \in Threads : ~Owes(u, t)'
    <3>1. t \in Threads /\ Asleep(t) /\ t \notin sigpending /\ \A u \in Threads : ~Owes(u, t)
      BY <1>1, Zenon DEF Lines
    <3>2. t # h
      BY <1>4, <3>1, Zenon
    <3> QED
      BY <1>3, <1>4, <3>1, <3>2, Zenon
  <2>3. ASSUME NEW t \in Threads, Asleep(t)'
        PROVE  \/ t \in sigpending' \/ (\E u \in Threads : Owes(u, t)')
               \/ \E p \in Pointer : t \in M[p]
    <3>1. ASSUME NEW u \in Threads, Owes(u, t) PROVE t \in sigpending' \/ Owes(u, t)'
      BY <1>3, <1>4, <3>1, Zenon
    <3>2. \/ t \in sigpending \/ (\E u \in Threads : Owes(u, t))
          \/ \E p \in Pointer : t \in M[p]
      BY <1>1, <1>4, <2>3, Zenon DEF Lines
    <3> QED
      BY <3>1, <3>2, Zenon
  <2> QED
    BY <1>1, <2>1, <2>2, <2>3, Zenon DEF Lines
<1> QED
  BY <1>6, <1>7, Zenon DEF LinesInv
-----------------------------------------------------------------------------
\* What the steps have in common.
Alone(self) ==
  /\ Others(self)
  /\ pc' \in [Threads -> Labels] /\ DOMAIN p_nextwaiting' = Threads
  /\ DOMAIN oldstatus' = Threads /\ DOMAIN newstatus' = Threads
  /\ DOMAIN cursor' = Threads /\ DOMAIN next_th' = Threads
  /\ UNCHANGED <<sigcancel, p_canceled>>

\* A step keeps the types if self is where its local variables say.
LEMMA TypedKeeps ==
  ASSUME LineTyped, NEW self \in Threads, Alone(self), At(self)', sem_status' \in Threads \cup Int,
         \A t \in Threads \ {self} : pc[t] = "wait_swap" => p_nextwaiting'[t] = p_nextwaiting[t]
  PROVE  LineTyped'
<1>1. \A t \in Threads \ {self} : At(t)'
  BY OthersSame, Zenon DEF LineTyped, Alone
<1>2. \A t \in Threads : At(t)'
  BY <1>1, Zenon
<1> QED
  BY <1>2, Zenon DEF LineTyped, Alone

\* The conversions to long give numbers.
LEMMA Numbers ==
  /\ \A n \in Int : /\ Long(n) \in Int /\ Long(2 * n + 1) \in Int
                    /\ Long(n - 2) \in Int /\ Long(n + 2) \in Int
  /\ 3 \in Int
  BY SemaphoreAssumption DEF Long, Unsigned

\* Steps of self that change neither lists nor sleepers.
Plain(self) ==
  /\ pc[self] \notin Posting /\ pc'[self] \notin Posting
  /\ Asleep(self)' <=> Asleep(self)
  /\ sigpending' = sigpending
  /\ sem_status' = sem_status \/ (sem_status \notin Threads /\ sem_status' \notin Threads)
  /\ \A t \in Threads : Asleep(t) => p_nextwaiting'[t] = p_nextwaiting[t]

\* They keep the lists.
LEMMA PlainKeeps ==
  ASSUME LinesInv, NEW self \in Threads, Others(self), Plain(self)
  PROVE  LinesInv'
<1>1. \A t \in Threads : ~Owes(self, t) /\ ~Owes(self, t)'
  BY Zenon DEF Owes, Posting, Plain
<1>2. Start(self) = 1 /\ Start(self)' = 1
  BY Zenon DEF Start, Posting, Plain
<1>3. \A t \in Threads : Asleep(t)' <=> Asleep(t)
  BY OthersSame, Zenon DEF Plain
<1>4. \A u, t \in Threads : Owes(u, t)' <=> Owes(u, t)
  BY <1>1, OthersSame, Zenon
<1>5. \A p \in Threads : Start(p)' = Start(p)
  BY <1>2, OthersSame, Zenon
<1>6. \A t \in Threads : Asleep(t) /\ (\A u \in Threads : ~Owes(u, t)) => p_nextwaiting'[t] = p_nextwaiting[t]
  BY Zenon DEF Plain
<1> QED
  BY <1>3, <1>4, <1>5, <1>6, QuietKeeps, ZenonT(30) DEF Plain

\* And so the whole invariant.
LEMMA PlainStep ==
  ASSUME LineInv, NEW self \in Threads, Alone(self), Plain(self), At(self)', sem_status' \in Threads \cup Int,
         \A t \in Threads \ {self} : pc[t] = "wait_swap" => p_nextwaiting'[t] = p_nextwaiting[t]
  PROVE  LineInv'
<1>1. LineTyped'
  BY TypedKeeps, Zenon DEF LineInv
<1>2. LinesInv'
  BY PlainKeeps, Zenon DEF LineInv, Alone
<1> QED
  BY <1>1, <1>2, Zenon DEF LineInv

\* The steps of sem_wait; the swap that joins the list puts self in front.
LEMMA WaitLines ==
  ASSUME LineInv, ~Interrupts, NEW self \in Threads,
         \/ sem_wait_read(self) \/ sem_wait_link(self) \/ sem_wait_swap(self)
         \/ sem_wait_suspend(self) \/ sem_wait_resume(self) \/ sem_wait_check(self)
  PROVE  LineInv'
<1>1. LineTyped /\ LinesInv /\ At(self) /\ ~CancelDue(self) /\ sem_status \in Threads \cup Int
  BY Zenon DEF LineInv, LineTyped, CancelDue
<1>2. CASE sem_wait_read(self)
  <2>1. Alone(self) /\ UNCHANGED <<sem_status, p_nextwaiting>>
    BY <1>1, <1>2, Zenon DEF sem_wait_read, Alone, Others, LineTyped, Goto, cancelVars, Labels
  <2>2. Plain(self)
    BY <1>1, <1>2, Zenon DEF sem_wait_read, Plain, Asleep, Posting, LineTyped, Goto, signalVars
  <2>3. At(self)'
    <3>1. CASE Positive(sem_status)
      <4>1. sem_status \in Int /\ Down(sem_status) \in Int
        BY <1>1, <3>1, Numbers, Zenon DEF Positive, IsCount, Down
      <4>2. pc'[self] = "wait_swap" /\ oldstatus'[self] = sem_status /\ newstatus'[self] = Down(sem_status)
        BY <1>1, <1>2, <3>1, Zenon DEF sem_wait_read, LineTyped, Goto
      <4> QED
        BY <4>1, <4>2, Zenon DEF At, Live, Labels
    <3>2. CASE ~Positive(sem_status)
      <4>1. sem_status \in Threads \cup {1}
        BY <1>1, <3>2, Zenon DEF Positive, IsCount
      <4>2. pc'[self] = "wait_link" /\ oldstatus'[self] = sem_status /\ newstatus'[self] = self
        BY <1>1, <1>2, <3>2, Zenon DEF sem_wait_read, LineTyped, Goto
      <4> QED
        BY <4>1, <4>2, Zenon DEF At, Joins, Live, Labels
    <3> QED
      BY <3>1, <3>2, Zenon
  <2> QED
    BY <1>1, <2>1, <2>2, <2>3, PlainStep, ZenonT(30)
<1>3. CASE sem_wait_link(self)
  <2>1. Alone(self) /\ UNCHANGED sem_status /\ \A t \in Threads \ {self} : p_nextwaiting'[t] = p_nextwaiting[t]
    BY <1>1, <1>3, Zenon DEF sem_wait_link, Alone, Others, LineTyped, Goto, localVars, cancelVars, Labels
  <2>2. pc'[self] = "wait_swap" /\ p_nextwaiting'[self] = oldstatus[self] /\ UNCHANGED <<oldstatus, newstatus>>
    BY <1>1, <1>3, Zenon DEF sem_wait_link, LineTyped, Goto, localVars
  <2>3. Plain(self)
    BY <1>3, <2>1, <2>2, Zenon DEF sem_wait_link, Plain, Asleep, Posting, signalVars
  <2>4. At(self)'
    BY <1>1, <1>3, <2>2, Zenon DEF sem_wait_link, At, Joins, Live, Labels
  <2> QED
    BY <1>1, <2>1, <2>3, <2>4, PlainStep, Zenon
<1>4. CASE sem_wait_swap(self)
  <2>1. Alone(self) /\ UNCHANGED <<sigpending, p_nextwaiting>> /\ pc[self] = "wait_swap"
    BY <1>1, <1>4, ZenonT(30) DEF sem_wait_swap, Alone, Others, LineTyped, Goto, Leave, signalVars,
       cancelVars, Labels
  <2>2. CASE SwapFails(self) /\ pc'[self] = "wait_read"
    <3>1. Plain(self) /\ At(self)' /\ sem_status' = sem_status
      BY <2>1, <2>2, ZenonT(30) DEF SwapFails, Plain, Asleep, Posting, At, Live, Labels
    <3> QED
      BY <1>1, <2>1, <3>1, PlainStep, Zenon
  <2>3. CASE Swapped(self) /\ newstatus[self] \in Int /\ oldstatus[self] \in Int
    <3>1. pc'[self] = "idle" /\ sem_status \in Int /\ sem_status' \in Int
      BY <1>1, <1>4, <2>3, OneIsNoThread, ZenonT(30) DEF sem_wait_swap, SwapFails, Swapped, Leave, Goto,
         IsCount, LineTyped
    <3>2. Plain(self) /\ At(self)'
      BY <2>1, <3>1, OneIsNoThread, Zenon DEF Plain, Asleep, Posting, At, Live, Labels
    <3> QED
      BY <1>1, <2>1, <3>1, <3>2, PlainStep, Zenon
  <2>4. CASE Swapped(self) /\ Joins(self) /\ p_nextwaiting[self] = oldstatus[self]
    <3>1. /\ pc'[self] = "wait_suspend" /\ sem_status' = self
          /\ sem_status \in Threads \cup {1} /\ p_nextwaiting[self] = sem_status
      BY <1>1, <1>4, <2>4, Zenon DEF sem_wait_swap, SwapFails, Swapped, Leave, Goto, IsCount, LineTyped,
         Joins
    <3>2. At(self)' /\ pc[self] \notin Posting /\ pc'[self] \notin Posting /\ ~Asleep(self) /\ Asleep(self)'
      BY <2>1, <3>1, ZenonT(30) DEF Asleep, Posting, At, Live, Labels
    <3>3. LineTyped'
      BY <1>1, <2>1, <3>1, <3>2, TypedKeeps, ZenonT(30)
    <3>4. LinesInv'
      BY <1>1, <2>1, <3>1, <3>2, PushKeeps, ZenonT(30) DEF Alone
    <3> QED
      BY <3>3, <3>4, Zenon DEF LineInv
  <2>5. (SwapFails(self) /\ pc'[self] = "wait_read") \/ Swapped(self)
    BY <1>1, <1>4, Zenon DEF sem_wait_swap, Leave, Goto, LineTyped
  <2> QED
    BY <1>1, <2>1, <2>2, <2>3, <2>4, <2>5, ZenonT(30) DEF At
<1>5. CASE sem_wait_suspend(self) \/ sem_wait_check(self)
  <2>1. Alone(self) /\ UNCHANGED <<sem_status, p_nextwaiting>>
    BY <1>1, <1>5, Zenon DEF sem_wait_suspend, sem_wait_check, Alone, Others, LineTyped, Goto, localVars,
       cancelVars,
       Labels
  <2>2. \/ pc[self] = "wait_suspend" /\ pc'[self] = "wait_sleep"
        \/ pc[self] = "wait_check" /\ pc'[self] = "wait_read"
    BY <1>1, <1>5, Zenon DEF sem_wait_suspend, sem_wait_check, LineTyped, Goto
  <2>3. Plain(self) /\ At(self)'
    BY <1>5, <2>1, <2>2, Zenon DEF sem_wait_suspend, sem_wait_check, Plain, Asleep, Posting, signalVars,
       At, Live, Labels
  <2> QED
    BY <1>1, <2>1, <2>3, PlainStep, Zenon
<1>6. CASE sem_wait_resume(self)
  <2>1. self \in sigpending /\ sigpending' = sigpending \ {self} /\ UNCHANGED cancelVars
    BY <1>1, <1>6, Zenon DEF sem_wait_resume, suspend_with_cancellation, swc_restarted, swc_interrupted,
       swc_canceled,
       suspend_restarted, cancel_handled, LineTyped
  <2>2. Alone(self) /\ UNCHANGED <<sem_status, p_nextwaiting>> /\ pc[self] = "wait_sleep" /\ pc'[self] = "wait_check"
    BY <1>1, <1>6, <2>1, Zenon DEF sem_wait_resume, Alone, Others, LineTyped, Goto, localVars,
       cancelVars, Labels
  <2>3. At(self)' /\ pc[self] \notin Posting /\ pc'[self] \notin Posting /\ ~Asleep(self)'
    BY <2>2, Zenon DEF Asleep, Posting, At, Live, Labels
  <2>4. LineTyped'
    BY <1>1, <2>2, <2>3, TypedKeeps, Zenon
  <2>5. LinesInv'
    BY <1>1, <2>1, <2>2, <2>3, ResumeKeeps, ZenonT(30) DEF Alone
  <2> QED
    BY <2>4, <2>5, Zenon DEF LineInv
<1> QED
  BY <1>2, <1>3, <1>4, <1>5, <1>6, ZenonT(30)

\* The steps of sem_post, which takes the list and restarts its threads in turn.
LEMMA PostLines ==
  ASSUME LineInv, NEW self \in Threads,
         \/ sem_post_read(self) \/ sem_post_swap(self) \/ sem_post_next(self)
         \/ sem_post_clear(self) \/ sem_post_restart(self)
  PROVE  LineInv'
<1>1. LineTyped /\ LinesInv /\ At(self) /\ sem_status \in Threads \cup Int
  BY Zenon DEF LineInv, LineTyped
<1>2. CASE sem_post_read(self)
  <2>1. Alone(self) /\ UNCHANGED <<sem_status, p_nextwaiting>>
    BY <1>1, <1>2, Zenon DEF sem_post_read, Alone, Others, LineTyped, Goto, Leave, cancelVars, Labels
  <2>2. \/ pc'[self] = "idle"
        \/ pc'[self] = "post_swap" /\ newstatus'[self] = Up(sem_status)
    BY <1>1, <1>2, Zenon DEF sem_post_read, LineTyped, Goto, Leave
  <2>3. Plain(self)
    BY <1>2, <2>1, <2>2, Zenon DEF sem_post_read, Plain, Asleep, Posting, signalVars
  <2>4. Up(sem_status) \in Int
    BY <1>1, Numbers, Zenon DEF Up, IsCount
  <2>5. At(self)'
    BY <2>2, <2>4, Zenon DEF At, Live, Labels
  <2> QED
    BY <1>1, <2>1, <2>3, <2>5, PlainStep, ZenonT(30)
<1>3. CASE sem_post_swap(self)
  <2>1. Alone(self) /\ UNCHANGED <<sigpending, p_nextwaiting>> /\ pc[self] = "post_swap"
    BY <1>1, <1>3, Zenon DEF sem_post_swap, Alone, Others, LineTyped, Goto, Leave, signalVars,
       cancelVars, Labels
  <2>2. CASE SwapFails(self) /\ pc'[self] = "post_read"
    <3>1. Plain(self) /\ At(self)' /\ sem_status' = sem_status
      BY <2>1, <2>2, Zenon DEF SwapFails, Plain, Asleep, Posting, At, Live, Labels
    <3> QED
      BY <1>1, <2>1, <3>1, PlainStep, Zenon
  <2>3. CASE Swapped(self) /\ IsCount(oldstatus[self]) /\ pc'[self] = "idle"
    <3>1. sem_status \notin Threads /\ sem_status' \in Int
      BY <1>1, <2>1, <2>3, Zenon DEF Swapped, IsCount, At
    <3>2. Plain(self) /\ At(self)'
      BY <2>1, <2>3, <3>1, OneIsNoThread, ZenonT(30) DEF Plain, Asleep, Posting, At, Live, Labels
    <3> QED
      BY <1>1, <2>1, <3>1, <3>2, PlainStep, ZenonT(30)
  <2>4. CASE /\ Swapped(self) /\ ~IsCount(oldstatus[self]) /\ pc'[self] = "post_next"
             /\ cursor'[self] = oldstatus[self]
    <3>1. sem_status \in Threads /\ sem_status' \in Int /\ sem_status' \notin Threads /\ cursor'[self] = sem_status
      BY <1>1, <2>1, <2>4, OneIsNoThread, Zenon DEF Swapped, IsCount, At
    <3>2. At(self)' /\ pc[self] \notin Posting /\ ~Asleep(self)
      BY <2>1, <2>4, <3>1, Zenon DEF Asleep, Posting, At, Live, Labels
    <3>3. LineTyped'
      BY <1>1, <2>1, <3>1, <3>2, TypedKeeps, ZenonT(30)
    <3>4. LinesInv'
      BY <1>1, <2>1, <2>4, <3>1, <3>2, TakeKeeps, ZenonT(30) DEF Alone
    <3> QED
      BY <3>3, <3>4, Zenon DEF LineInv
  <2> QED
    BY <1>1, <1>3, <2>2, <2>3, <2>4, ZenonT(30) DEF sem_post_swap, Leave, Goto, LineTyped
<1>4. CASE sem_post_next(self)
  <2>1. pc[self] = "post_next" /\ cursor[self] \in Threads /\ cursor[self] # NULL
    BY <1>1, <1>4, NullAssumption, Zenon DEF sem_post_next, At
  <2>2. /\ Alone(self) /\ UNCHANGED <<sigpending, sem_status, p_nextwaiting>> /\ pc'[self] = "post_clear"
        /\ cursor'[self] = cursor[self] /\ next_th'[self] = p_nextwaiting[cursor[self]]
    BY <1>1, <1>4, <2>1, Zenon DEF sem_post_next, Alone, Others, LineTyped, Goto, signalVars, cancelVars,
       Labels
  <2>3. LinesInv' /\ next_th'[self] \in Threads \cup {1}
    BY <1>1, <2>1, <2>2, NextKeeps, Zenon DEF Alone
  <2>4. At(self)'
    BY <2>1, <2>2, <2>3, Zenon DEF At, Live, Labels
  <2>5. LineTyped'
    BY <1>1, <2>2, <2>4, TypedKeeps, Zenon
  <2> QED
    BY <2>3, <2>5, Zenon DEF LineInv
<1>5. CASE sem_post_clear(self)
  <2>1. pc[self] = "post_clear" /\ cursor[self] \in Threads
    BY <1>1, <1>5, Zenon DEF sem_post_clear, At
  <2>2. /\ Alone(self) /\ UNCHANGED <<sigpending, sem_status>> /\ pc'[self] = "post_restart"
        /\ cursor'[self] = cursor[self] /\ next_th'[self] = next_th[self]
        /\ \A t \in Threads \ {cursor[self]} : p_nextwaiting'[t] = p_nextwaiting[t]
    BY <1>1, <1>5, <2>1, Zenon DEF sem_post_clear, Alone, Others, LineTyped, Goto, localVars, signalVars,
       cancelVars, Labels
  <2>3. At(self)'
    BY <1>1, <2>1, <2>2, Zenon DEF At, Live, Labels
  <2>4. Owes(self, cursor[self]) /\ Asleep(cursor[self])
    BY <1>1, <2>1, Zenon DEF Owes, LinesInv, OneRestart
  <2>5. \A t \in Threads \ {self} : pc[t] = "wait_swap" => p_nextwaiting'[t] = p_nextwaiting[t]
    BY <2>2, <2>4, Zenon DEF Asleep
  <2>6. LineTyped'
    BY <1>1, <2>2, <2>3, <2>5, TypedKeeps, ZenonT(30)
  <2>7. \A t \in Threads : Asleep(t)' <=> Asleep(t)
    <3>1. ~Asleep(self) /\ ~Asleep(self)'
      BY <2>1, <2>2, Zenon DEF Asleep
    <3> QED
      BY <2>2, <3>1, OthersSame, Zenon DEF Alone
  <2>8. \A u, t \in Threads : Owes(u, t)' <=> Owes(u, t)
    <3>1. \A t \in Threads : Owes(self, t)' <=> Owes(self, t)
      BY <2>1, <2>2, Zenon DEF Owes
    <3> QED
      BY <2>2, <3>1, OthersSame, Zenon DEF Alone
  <2>9. \A p \in Threads : Start(p)' = Start(p)
    <3>1. Start(self)' = Start(self)
      BY <2>1, <2>2, Zenon DEF Start
    <3> QED
      BY <2>2, <3>1, OthersSame, Zenon DEF Alone
  <2>10. LinesInv'
    BY <1>1, <2>2, <2>4, <2>7, <2>8, <2>9, QuietKeeps, ZenonT(30)
  <2> QED
    BY <2>6, <2>10, Zenon DEF LineInv
<1>6. CASE sem_post_restart(self)
  <2>1. pc[self] = "post_restart" /\ cursor[self] \in Threads /\ next_th[self] \in Threads \cup {1}
    BY <1>1, <1>6, ZenonT(30) DEF sem_post_restart, At
  <2>2. Alone(self) /\ UNCHANGED <<sem_status, p_nextwaiting>> /\ sigpending' = sigpending \cup {cursor[self]}
    BY <1>1, <1>6, Zenon DEF sem_post_restart, restart, Alone, Others, LineTyped, Goto, Leave,
       cancelVars, Labels
  <2>3. \/ pc'[self] = "idle" /\ next_th[self] = 1
        \/ pc'[self] = "post_next" /\ cursor'[self] = next_th[self] /\ next_th[self] # 1
    BY <1>1, <1>6, Zenon DEF sem_post_restart, LineTyped, Goto, Leave
  <2>4. At(self)'
    BY <2>1, <2>3, Zenon DEF At, Live, Labels
  <2>5. LineTyped'
    BY <1>1, <2>2, <2>4, TypedKeeps, Zenon
  <2>6. LinesInv'
    BY <1>1, <2>1, <2>2, <2>3, RestartKeeps, ZenonT(30) DEF Alone
  <2> QED
    BY <2>5, <2>6, ZenonT(30) DEF LineInv
<1> QED
  BY <1>2, <1>3, <1>4, <1>5, <1>6, ZenonT(30)

\* The steps of sem_trywait, and the calls.
LEMMA TryCallLines ==
  ASSUME LineInv, NEW self \in Threads,
         \/ sem_trywait_read(self) \/ sem_trywait_swap(self)
         \/ \E entry \in {"wait_read", "try_read", "post_read"} : Call(self, entry)
  PROVE  LineInv'
<1>1. LineTyped /\ LinesInv /\ At(self) /\ sem_status \in Threads \cup Int
  BY Zenon DEF LineInv, LineTyped
<1>2. CASE sem_trywait_read(self)
  <2>1. Alone(self) /\ UNCHANGED <<sem_status, p_nextwaiting>>
    BY <1>1, <1>2, Zenon DEF sem_trywait_read, Alone, Others, LineTyped, Goto, Leave, cancelVars, Labels
  <2>2. \/ pc'[self] = "idle"
        \/ /\ pc'[self] = "try_swap" /\ Positive(sem_status)
           /\ oldstatus'[self] = sem_status /\ newstatus'[self] = Down(sem_status)
    BY <1>1, <1>2, ZenonT(30) DEF sem_trywait_read, LineTyped, Goto, Leave
  <2>3. Plain(self)
    BY <1>2, <2>1, <2>2, Zenon DEF sem_trywait_read, Plain, Asleep, Posting, signalVars
  <2>4. Positive(sem_status) => sem_status \in Int /\ Down(sem_status) \in Int
    BY <1>1, Numbers, Zenon DEF Positive, IsCount, Down
  <2>5. At(self)'
    BY <2>2, <2>4, Zenon DEF At, Live, Labels
  <2> QED
    BY <1>1, <2>1, <2>3, <2>5, PlainStep, Zenon
<1>3. CASE sem_trywait_swap(self)
  <2>1. Alone(self) /\ UNCHANGED <<sigpending, p_nextwaiting>> /\ pc[self] = "try_swap"
    BY <1>1, <1>3, Zenon DEF sem_trywait_swap, Alone, Others, LineTyped, Goto, Leave, signalVars,
       cancelVars, Labels
  <2>2. \/ pc'[self] = "try_read" /\ sem_status' = sem_status
        \/ pc'[self] = "idle" /\ sem_status \in Int /\ sem_status' \in Int
    BY <1>1, <1>3, SMTT(30) DEF sem_trywait_swap, SwapFails, Swapped, LineTyped, Goto, Leave, At
  <2>3. Plain(self) /\ At(self)'
    BY <2>1, <2>2, OneIsNoThread, Zenon DEF Plain, Asleep, Posting, At, Live, Labels
  <2>4. sem_status' \in Threads \cup Int
    BY <1>1, <2>2, Zenon
  <2> QED
    BY <1>1, <2>1, <2>3, <2>4, PlainStep, ZenonT(30)
<1>4. ASSUME NEW entry \in {"wait_read", "try_read", "post_read"}, Call(self, entry)
      PROVE  LineInv'
  <2>1. Alone(self) /\ UNCHANGED <<sem_status, p_nextwaiting>>
    BY <1>1, <1>4, Zenon DEF Call, Alone, Others, LineTyped, Goto, localVars, cancelVars, Labels
  <2>2. pc[self] = "idle" /\ pc'[self] = entry /\ UNCHANGED sigpending
    BY <1>1, <1>4, Zenon DEF Call, LineTyped, Goto, signalVars
  <2>3. Plain(self) /\ At(self)'
    BY <2>1, <2>2, Zenon DEF Plain, Asleep, Posting, At, Live, Labels
  <2> QED
    BY <1>1, <2>1, <2>3, PlainStep, Zenon
<1> QED
  BY <1>2, <1>3, <1>4, Zenon

\* At first nobody waits.
LEMMA LineInvInit == Init => LineInv
<1> SUFFICES ASSUME Init PROVE LineInv
  BY Zenon
<1>1. sem_status \in Int
  <2>1. PICK v \in InitialValues : sem_status = Encode(v)
    BY Zenon DEF Init, sem_init
  <2>2. v \in Int
    BY SemaphoreAssumption DEF SEM_VALUE_MAX
  <2> QED
    BY <2>1, <2>2, Numbers, Zenon DEF Encode
<1>2. \A t \in Threads : pc[t] = "idle"
  BY Zenon DEF Init
<1>3. LineTyped
  <2>1. \A t \in Threads : At(t)
    BY <1>2, Zenon DEF At, Live, Labels
  <2> QED
    BY <1>1, <2>1, Zenon DEF LineTyped, Init, CancelInit, Labels
<1>4. OneRestart
  BY <1>2, Zenon DEF OneRestart, Init, SignalInit, Owes
<1>5. \A p \in Pointer : Start(p) \notin Threads
  BY <1>1, <1>2, OneIsNoThread DEF Start
<1>6. \A t \in Threads : ~Asleep(t)
  BY <1>2, Zenon DEF Asleep
<1> DEFINE M == [p \in Pointer |-> {}]
           r == [t \in Threads |-> 1]
<1>7. /\ M \in [Pointer -> SUBSET Threads] /\ r \in Ranks
      /\ \A p \in Pointer : M[p] = {}
  BY DEF Ranks
<1>8. \A p \in Pointer : Line(M[p], r, Start(p), p_nextwaiting)
  BY <1>5, <1>7, Zenon DEF Line
<1> HIDE DEF M, r
<1>9. Lines(M, r)
  BY <1>6, <1>7, <1>8, Zenon DEF Lines
<1> QED
  BY <1>3, <1>4, <1>9, Zenon DEF LineInv, LinesInv

\* Every step but a cancellation keeps the lists in order.
LEMMA LineInvNext ==
  ASSUME ~Interrupts, LineInv, [Next]_vars, \A t \in Threads : ~CallCancel(t)
  PROVE  LineInv'
<1>1. ASSUME NEW self \in Threads, LibraryStep(self) PROVE LineInv'
  <2>1. At(self) /\ self \notin sigcancel
    BY Zenon DEF LineInv, LineTyped
  <2>2. /\ ~sem_wait_cancel_head(self) /\ ~sem_wait_cancel_read(self)
        /\ ~sem_wait_cancel_swap(self) /\ ~sem_wait_cancel_walk(self)
        /\ ~sem_wait_cancel_compare(self) /\ ~sem_wait_cancel_advance(self)
        /\ ~sem_wait_cancel_unlink(self)
    BY <2>1, Zenon DEF At, Live, sem_wait_cancel_head, sem_wait_cancel_read,
       sem_wait_cancel_swap, sem_wait_cancel_walk, sem_wait_cancel_compare,
       sem_wait_cancel_advance, sem_wait_cancel_unlink
  <2>3. ~sigcancel_ignored(self)
    BY <2>1, Zenon DEF sigcancel_ignored, cancel_handled
  <2> QED
    BY <1>1, <2>2, <2>3, WaitLines, PostLines, TryCallLines, ZenonT(30) DEF LibraryStep
<1>2. ASSUME NEW self \in Threads, ProgramCall(self) PROVE LineInv'
  <2>1. \E entry \in {"wait_read", "try_read", "post_read"} : Call(self, entry)
    BY <1>2, Zenon DEF ProgramCall
  <2> QED
    BY <2>1, TryCallLines, Zenon
<1>3. CASE UNCHANGED vars
  <2>1. \A t \in Threads : (At(t)' <=> At(t)) /\ (Asleep(t)' <=> Asleep(t)) /\ Start(t)' = Start(t)
    BY <1>3 DEF vars, localVars, At, Joins, Asleep, Start
  <2>2. \A u, t \in Threads : Owes(u, t)' <=> Owes(u, t)
    BY <1>3, Zenon DEF vars, localVars, Owes
  <2>3. LineTyped'
    BY <1>3, <2>1, Zenon DEF LineInv, LineTyped, vars, localVars, cancelVars
  <2>4. UNCHANGED <<sigpending, sem_status, p_nextwaiting>>
    BY <1>3, Zenon DEF vars, signalVars
  <2>5. LinesInv'
    BY <2>1, <2>2, <2>4, QuietKeeps, Zenon DEF LineInv
  <2> QED
    BY <2>3, <2>5, Zenon DEF LineInv
<1> QED
  BY <1>1, <1>2, <1>3, Zenon DEF Next

\* What the invariant says of the lists that p_nextwaiting leads through.
LEMMA LinesReached ==
  ASSUME IsFiniteSet(Threads), LineTyped, LinesInv
  PROVE  NoLostWakeup /\ ListWellFormed
<1>1. PICK M, r : Lines(M, r)
  BY Zenon DEF LinesInv
<1>2. /\ NULL \in Pointer /\ Threads \subseteq Pointer /\ \A p \in Pointer : p = NULL \/ p \in Threads
      /\ \A p \in Pointer : M[p] \in SUBSET Threads /\ Line(M[p], r, Start(p), p_nextwaiting)
      /\ \A p, q \in Pointer : \A t \in M[p] : t \in M[q] => p = q
      /\ r \in Ranks
  BY <1>1, LinesFacts, Zenon DEF Lines
<1>3. \A p \in Pointer : ListFrom(Start(p)) = M[p]
  BY <1>2, ListIs, Zenon
<1>4. Start(NULL) = sem_status
  BY NullAssumption, Zenon DEF Start
<1>5. ListFrom(sem_status) = M[NULL]
  BY <1>2, <1>3, <1>4, Zenon
<1>6. \A u \in Threads : pc[u] = "post_next" => cursor[u] \in M[u] /\ ListFrom(cursor[u]) = M[u]
  <2> SUFFICES ASSUME NEW u \in Threads, pc[u] = "post_next"
               PROVE  cursor[u] \in M[u] /\ ListFrom(cursor[u]) = M[u]
    BY Zenon
  <2>1. Start(u) = cursor[u] /\ cursor[u] \in Threads
    BY Zenon DEF Start, LineTyped, At
  <2>2. Line(M[u], r, Start(u), p_nextwaiting) /\ ListFrom(Start(u)) = M[u]
    BY <1>2, <1>3, Zenon
  <2> QED
    BY <2>1, <2>2, Zenon DEF Line
<1>7. \A u \in Threads : pc[u] \in {"post_clear", "post_restart"} => ListFrom(next_th[u]) = M[u]
  <2> SUFFICES ASSUME NEW u \in Threads, pc[u] \in {"post_clear", "post_restart"}
               PROVE  ListFrom(next_th[u]) = M[u]
    BY Zenon
  <2>1. Start(u) = next_th[u]
    BY Zenon DEF Start
  <2> QED
    BY <1>2, <1>3, <2>1, Zenon
<1>8. \A u \in Threads : \A t \in M[u] : RestartDue(t)
  <2> SUFFICES ASSUME NEW u \in Threads, NEW t \in M[u] PROVE RestartDue(t)
    BY Zenon
  <2>1. Start(u) \in Threads
    BY <1>2, Zenon DEF Line
  <2>2. pc[u] = "post_next" \/ pc[u] \in {"post_clear", "post_restart"}
    BY <2>1, OneIsNoThread DEF Start
  <2> QED
    BY <1>6, <1>7, <2>2, Zenon DEF RestartDue
<1>9. NoLostWakeup
  <2> SUFFICES ASSUME NEW t \in Threads, Asleep(t)
               PROVE  t \in ListFrom(sem_status) \/ RestartDue(t)
    BY Zenon DEF NoLostWakeup
  <2>1. \/ t \in sigpending \/ (\E u \in Threads : Owes(u, t))
        \/ \E p \in Pointer : t \in M[p]
    BY <1>1, Zenon DEF Lines
  <2>2. ASSUME NEW u \in Threads, Owes(u, t) PROVE RestartDue(t)
    BY <2>2, Zenon DEF Owes, RestartDue
  <2>3. ASSUME NEW p \in Pointer, t \in M[p] PROVE t \in ListFrom(sem_status) \/ RestartDue(t)
    BY <1>2, <1>5, <1>8, <2>3, Zenon
  <2> QED
    BY <2>1, <2>2, <2>3, Zenon DEF RestartDue
<1>10. ASSUME NEW t \in M[NULL] PROVE ~RestartDue(t)
  <2>1. t \in Threads /\ t \notin sigpending /\ \A u \in Threads : ~Owes(u, t)
    BY <1>1, <1>2, Zenon DEF Lines
  <2>2. \A u \in Threads : t \notin M[u]
    BY <1>2, NullAssumption, Zenon
  <2>3. ASSUME NEW u \in Threads, pc[u] = "post_next"
        PROVE  cursor[u] # t /\ t \notin ListFrom(cursor[u])
    BY <1>6, <2>2, <2>3, Zenon
  <2>4. ASSUME NEW u \in Threads, pc[u] \in {"post_clear", "post_restart"}
        PROVE  cursor[u] # t /\ t \notin ListFrom(next_th[u])
    BY <1>7, <2>1, <2>2, <2>4, Zenon DEF Owes
  <2> QED
    BY <2>1, <2>3, <2>4, Zenon DEF RestartDue
<1>11. ListWellFormed
  <2> SUFFICES ASSUME NEW t \in M[NULL]
               PROVE  /\ Asleep(t) /\ ~RestartDue(t) /\ p_nextwaiting[t] \in Threads \cup {1}
                      /\ \A u \in M[NULL] : p_nextwaiting[u] = t =>
                           /\ sem_status # t
                           /\ \A v \in M[NULL] : p_nextwaiting[v] = t => v = u
    BY <1>5, Zenon DEF ListWellFormed
  <2>1. Line(M[NULL], r, sem_status, p_nextwaiting) /\ M[NULL] \in SUBSET Threads
    BY <1>2, <1>4, Zenon
  <2>2. Asleep(t)
    BY <1>1, <1>2, Zenon DEF Lines
  <2>3. p_nextwaiting[t] \in Threads \cup {1}
    BY <2>1, Zenon DEF Line
  <2>4. ASSUME NEW u \in M[NULL], p_nextwaiting[u] = t
        PROVE  /\ sem_status # t
               /\ \A v \in M[NULL] : p_nextwaiting[v] = t => v = u
    <3>1. t \in Threads /\ t # 1
      BY <2>1, OneIsNoThread
    <3>2. \A v \in M[NULL] : p_nextwaiting[v] = t => r[v] = r[t] + 1
      BY <2>1, <3>1, Zenon DEF Line
    <3>3. \A v \in M[NULL] : p_nextwaiting[v] = t => v = u
      BY <2>1, <2>4, <3>2, Zenon DEF Line
    <3>4. r[u] = r[t] + 1 /\ r[u] <= r[sem_status] /\ r[t] \in Nat
      BY <1>2, <2>1, <2>4, <3>1, <3>2, ZenonT(30) DEF Line, Ranks
    <3>5. sem_status # t
      BY <3>4
    <3> QED
      BY <3>3, <3>5, Zenon
  <2> QED
    BY <1>10, <2>2, <2>3, <2>4, Zenon
<1> QED
  BY <1>9, <1>11, Zenon

\* A thread that was cancelled stays so until it has exited.
Progress(self) ==
  \/ UNCHANGED <<pc, p_canceled>>
  \/ /\ pc[self] # "exited" /\ UNCHANGED p_canceled
     /\ \E label \in Labels : pc' = [pc EXCEPT ![self] = label]
  \/ /\ pc[self] # "exited" /\ pc' = [pc EXCEPT ![self] = "exited"]
     /\ p_canceled' = [p_canceled EXCEPT ![self] = FALSE]
  \/ UNCHANGED pc /\ p_canceled' = [p_canceled EXCEPT ![self] = TRUE]

CancelTyped == pc \in [Threads -> Labels] /\ p_canceled \in [Threads -> BOOLEAN]

\* Every step is of one of these kinds.
LEMMA Progresses ==
  ASSUME NEW self \in Threads, LibraryStep(self) \/ ProgramCall(self)
  PROVE  Progress(self)
<1>1. CASE ProgramCall(self)
  BY <1>1, ZenonT(30) DEF ProgramCall, Call, CallCancel, Goto, pthread_cancel, cancelVars, Progress, Labels
<1>2. CASE sem_wait_read(self) \/ sem_wait_link(self)
  BY <1>2, Zenon DEF sem_wait_read, sem_wait_link, Goto, cancelVars, Progress, Labels
<1>3. CASE sem_wait_swap(self)
  BY <1>3, Zenon DEF sem_wait_swap, Leave, Goto, cancelVars, Progress, Labels
<1>4. CASE sem_wait_suspend(self) \/ sem_wait_check(self)
  BY <1>4, Zenon DEF sem_wait_suspend, sem_wait_check, Goto, cancelVars, Progress, Labels
<1>5. CASE sem_wait_resume(self)
  <2>1. UNCHANGED p_canceled
    BY <1>5, Zenon DEF sem_wait_resume, suspend_with_cancellation, swc_restarted, swc_interrupted,
       swc_canceled,
       cancel_handled, cancelVars
  <2> QED
    BY <1>5, <2>1, Zenon DEF sem_wait_resume, Goto, Progress, Labels
<1>6. CASE sem_wait_cancel_head(self)
  BY <1>6, Zenon DEF sem_wait_cancel_head, Exit, Leave, Goto, cancelVars, Progress, Labels
<1>7. CASE sem_wait_cancel_swap(self)
  BY <1>7, Zenon DEF sem_wait_cancel_swap, Exit, Leave, Goto, cancelVars, Progress, Labels
<1>8. CASE sem_wait_cancel_walk(self)
  BY <1>8, Zenon DEF sem_wait_cancel_walk, Exit, Leave, Goto, cancelVars, Progress, Labels
<1>9. CASE sem_wait_cancel_unlink(self)
  BY <1>9, Zenon DEF sem_wait_cancel_unlink, Exit, Leave, Goto, Progress, Labels
<1>10. CASE sem_trywait_read(self) \/ sem_trywait_swap(self)
  BY <1>10, Zenon DEF sem_trywait_read, sem_trywait_swap, Leave, Goto, cancelVars, Progress, Labels
<1>11. CASE sem_post_read(self) \/ sem_post_swap(self) \/ sem_post_next(self)
  BY <1>11, Zenon DEF sem_post_read, sem_post_swap, sem_post_next, Leave, Goto, cancelVars, Progress,
     Labels
<1>12. CASE sem_post_clear(self) \/ sem_post_restart(self)
  BY <1>12, Zenon DEF sem_post_clear, sem_post_restart, Leave, Goto, cancelVars, Progress, Labels
<1>13. CASE sigcancel_ignored(self)
  BY <1>13, Zenon DEF sigcancel_ignored, cancel_handled, Progress
<1>14. CASE sem_wait_cancel_read(self)
  BY <1>14, Zenon DEF sem_wait_cancel_read, Goto, cancelVars, Progress, Labels
<1>15. CASE sem_wait_cancel_compare(self)
  BY <1>15, Zenon DEF sem_wait_cancel_compare, Goto, cancelVars, Progress, Labels
<1>16. CASE sem_wait_cancel_advance(self)
  BY <1>16, Zenon DEF sem_wait_cancel_advance, Leave, Goto, cancelVars, Progress, Labels
<1> QED
  BY <1>1, <1>2, <1>3, <1>4, <1>5, <1>6, <1>7, <1>8, <1>9, <1>10, <1>11, <1>12, <1>13,
     <1>14, <1>15, <1>16, ZenonT(30) DEF LibraryStep

\* So, if nobody is cancelled or has exited after a step, nobody was before.
LEMMA CancelledStays ==
  ASSUME CancelTyped, [Next]_vars
  PROVE  CancelTyped' /\ (NobodyCancelled' => NobodyCancelled)
<1>1. CASE UNCHANGED vars
  BY <1>1, Zenon DEF vars, cancelVars, CancelTyped, NobodyCancelled
<1>2. ASSUME NEW self \in Threads, Progress(self)
      PROVE  CancelTyped' /\ (NobodyCancelled' => NobodyCancelled)
  <2>1. CancelTyped'
    <3>1. "exited" \in Labels
      BY Zenon DEF Labels
    <3> QED
      BY <1>2, <3>1, Zenon DEF Progress, CancelTyped
  <2>2. ASSUME NEW t \in Threads, ~p_canceled'[t], pc'[t] # "exited"
        PROVE  ~p_canceled[t] /\ pc[t] # "exited"
    BY <1>2, <2>2, Zenon DEF Progress, CancelTyped
  <2> QED
    BY <2>1, <2>2, Zenon DEF NobodyCancelled
<1> QED
  BY <1>1, <1>2, Progresses, Zenon DEF Next

\* The lists are in order until the first cancellation.
UntilCancelled == CancelTyped /\ (NobodyCancelled => LineInv)

\* Both steps of the induction.
LEMMA UntilCancelledAlways == ASSUME ~Interrupts PROVE Spec => []UntilCancelled
<1>1. Init => UntilCancelled
  <2>1. Init => CancelTyped
    BY Zenon DEF Init, CancelInit, CancelTyped, Labels
  <2> QED
    BY <2>1, LineInvInit, Zenon DEF UntilCancelled
<1>2. ASSUME UntilCancelled, [Next]_vars PROVE UntilCancelled'
  <2>1. CancelTyped' /\ (NobodyCancelled' => NobodyCancelled)
    BY <1>2, CancelledStays, Zenon DEF UntilCancelled
  <2>2. ASSUME NobodyCancelled' PROVE LineInv'
    <3>1. LineInv
      BY <1>2, <2>1, <2>2, Zenon DEF UntilCancelled
    <3>2. ASSUME NEW t \in Threads, CallCancel(t) PROVE FALSE
      <4>1. p_canceled'[t]
        BY <1>2, <3>2, Zenon DEF UntilCancelled, CancelTyped, CallCancel, pthread_cancel
      <4> QED
        BY <2>2, <4>1, Zenon DEF NobodyCancelled
    <3> QED
      BY <1>2, <3>1, <3>2, LineInvNext, Zenon
  <2> QED
    BY <2>1, <2>2, Zenon DEF UntilCancelled
<1> QED
  BY <1>1, <1>2, PTL DEF Spec

\* Where no other handler ends a sigsuspend: until some thread is cancelled, no
\* sleeper of sem_wait is lost, whichever pushes of sem_wait and walks of sem_post
\* overlap, and the list of those who wait has no gap, no cycle and no thread whose
\* restart is due.
THEOREM WaitersReachedHolds ==
  ASSUME ~Interrupts, IsFiniteSet(Threads)
  PROVE  Spec => []WaitersReached
<1>1. UntilCancelled => WaitersReached
  BY LinesReached, Zenon DEF UntilCancelled, LineInv, WaitersReached
<1> QED
  BY <1>1, UntilCancelledAlways, PTL

\* Where no other handler ends a sigsuspend: until some thread is cancelled, sem_post
\* restarts only threads that sleep in sem_wait.
THEOREM NoStrayRestartHolds ==
  ASSUME ~Interrupts
  PROVE  Spec => []NoStrayRestart
<1>1. UntilCancelled => NoStrayRestart
  BY Zenon DEF UntilCancelled, LineInv, LinesInv, OneRestart, NoStrayRestart
<1> QED
  BY <1>1, UntilCancelledAlways, PTL

=============================================================================
