---------------------------- MODULE MutexProofs ----------------------------
(***************************************************************************)
(* Mutual exclusion and the absence of lost wakeups for the mutexes of     *)
(* src/mutex.c, for any number of threads and any nesting.                 *)
(***************************************************************************)
EXTENDS Mutex, QueueProofs

USE NullAssumption, KindsAssumption DEF Pointer

\* The labels of the mutex functions, by the set they belong to.
LEMMA Labels ==
  /\ Entries = {"mutex_lock", "mutex_trylock", "mutex_unlock", "mutex_destroy"}
  /\ Bodies = {"lock_body", "trylock_body", "unlock_body", "destroy_body"}
  /\ Inside["mutex_lock"] = "lock_body"
  /\ Inside["mutex_trylock"] = "trylock_body"
  /\ Inside["mutex_unlock"] = "unlock_body"
  /\ Inside["mutex_destroy"] = "destroy_body"
<1>1. Entries = {"mutex_lock", "mutex_trylock", "mutex_unlock", "mutex_destroy"}
  BY Zenon DEF Entries, Inside
<1>2. /\ Inside["mutex_lock"] = "lock_body"
      /\ Inside["mutex_trylock"] = "trylock_body"
      /\ Inside["mutex_unlock"] = "unlock_body"
      /\ Inside["mutex_destroy"] = "destroy_body"
  BY Zenon DEF Inside
<1>. QED
  BY <1>1, <1>2, Zenon DEF Bodies

-----------------------------------------------------------------------------
(***************************************************************************)
(* Types and mutual exclusion.  TypeOK is not inductive alone: holds[t] - 1 *)
(* is a natural number only because a thread unlocks what it holds, and    *)
(* the target of a restart a thread only because dequeue returned one.     *)
(***************************************************************************)
LEMMA OwnershipInit == Init => OwnershipInv
<1> SUFFICES ASSUME Init PROVE OwnershipInv
  BY Zenon
<1> USE DEF Init, MutexInit, SignalInit, pthread_mutex_init
<1>1. TypeOK
  BY Labels, Zenon DEF TypeOK, MutexTypeOK, SignalTypeOK, QueueType, LinksType, queue_init,
         MutexLabels
<1>2. SpinExclusion /\ RestartTarget
  BY Labels, Zenon DEF SpinExclusion, RestartTarget, InBodies
<1>3. Ownership
  BY DEF Ownership, MutualExclusion
<1>. QED
  BY <1>1, <1>2, <1>3, Zenon DEF OwnershipInv

\* No step of a mutex function, nor a call of one, leaves a variable out of its
\* type.  The decrements of pthread_mutex_unlock need Ownership, its restart
\* RestartTarget.
LEMMA TypeNext == OwnershipInv /\ [Next]_vars => TypeOK'
<1> SUFFICES ASSUME OwnershipInv, [Next]_vars PROVE TypeOK'
  BY Zenon
<1> USE DEF TypeOK, MutexTypeOK, SignalTypeOK, MutexLabels, Goto, Return,
            mutexVars, signalVars
<1>0. TypeOK /\ Ownership /\ RestartTarget
  BY Zenon DEF OwnershipInv
<1>1. ASSUME NEW self \in Threads, ProgramCall(self) PROVE TypeOK'
  BY <1>0, <1>1, Labels, Zenon
     DEF ProgramCall, CallLock, CallTrylock, CallUnlock, CallDestroy, Call
<1>2. ASSUME NEW self \in Threads, acquire(self) PROVE TypeOK'
  BY <1>0, <1>2, Labels, Zenon DEF acquire
<1>3. ASSUME NEW self \in Threads, pthread_mutex_lock(self) PROVE TypeOK'
  BY <1>0, <1>3, Labels, QueueTypes DEF pthread_mutex_lock, ReturnEINVAL, Take, release
<1>4. ASSUME NEW self \in Threads, pthread_mutex_lock_retry(self) PROVE TypeOK'
  BY <1>0, <1>4, Labels, Zenon DEF pthread_mutex_lock_retry, suspend, suspend_restarted,
         suspend_interrupted
<1>5. ASSUME NEW self \in Threads, pthread_mutex_trylock(self) PROVE TypeOK'
  BY <1>0, <1>5, Labels DEF pthread_mutex_trylock, ReturnEINVAL, Take, release
<1>6. ASSUME NEW self \in Threads, pthread_mutex_unlock(self) PROVE TypeOK'
  <2>1. holds[self] > 0 \/ m_kind = BadKind
    BY <1>0, <1>6, Zenon DEF pthread_mutex_unlock, wake_if_any, Ownership
  <2>2. m_waiting.head \in Pointer
    BY <1>0, Zenon DEF QueueType
  <2>3. m_kind # BadKind => holds[self] - 1 \in Nat
    BY <1>0, <2>1
  <2>4. CASE ReturnEINVAL(self)
    BY <1>0, <1>6, <2>4, Labels, Zenon DEF ReturnEINVAL
  <2>5. CASE StillLocked /\ ~ReturnEINVAL(self)
    BY <1>0, <1>6, <2>3, <2>5, Labels DEF pthread_mutex_unlock, wake_if_any,
       StillLocked, release,
           BadKind, PTHREAD_MUTEX_RECURSIVE_NP
  <2>6. CASE ~StillLocked /\ ~ReturnEINVAL(self)
    BY <1>0, <1>6, <2>2, <2>3, <2>6, Labels, QueueTypes
       DEF pthread_mutex_unlock, wake_if_any, release
  <2>. QED
    BY <2>4, <2>5, <2>6, Zenon
<1>7. ASSUME NEW self \in Threads, pthread_mutex_unlock_restart(self) PROVE TypeOK'
  <2>1. th[self] \in Threads
    BY <1>0, <1>7, Zenon DEF pthread_mutex_unlock_restart, RestartTarget
  <2>. QED
    BY <1>0, <1>7, <2>1, Labels, Zenon DEF pthread_mutex_unlock_restart, restart
<1>8. ASSUME NEW self \in Threads, pthread_mutex_destroy(self) PROVE TypeOK'
  BY <1>0, <1>8, Labels, Zenon DEF pthread_mutex_destroy, release
<1>9. CASE UNCHANGED vars
  BY <1>0, <1>9, Zenon DEF vars
<1>. QED
  BY <1>1, <1>2, <1>3, <1>4, <1>5, <1>6, <1>7, <1>8, <1>9, Zenon DEF Next, MutexStep

\* testandset lets one thread at a time into the code that m_spinlock protects.
LEMMA SpinNext == OwnershipInv /\ [Next]_vars => SpinExclusion' /\ RestartTarget'
<1> SUFFICES ASSUME OwnershipInv, [Next]_vars PROVE SpinExclusion' /\ RestartTarget'
  BY Zenon
<1>0. /\ SpinExclusion
      /\ RestartTarget
      /\ pc \in [Threads -> MutexLabels \cup {"idle"}]
      /\ th \in [Threads -> Threads \cup {NULL}]
      /\ ret \in [Threads -> {"idle"}]
      /\ m_spinlock \in {0, 1}
      /\ m_waiting.head \in Threads \cup {NULL}
  BY Zenon DEF OwnershipInv, TypeOK, MutexTypeOK, QueueType
<1> USE DEF SpinExclusion, RestartTarget, InBodies, Goto, Return, mutexVars, signalVars
<1>1. ASSUME NEW self \in Threads, ProgramCall(self)
      PROVE  SpinExclusion' /\ RestartTarget'
  BY <1>0, <1>1, Labels
     DEF ProgramCall, CallLock, CallTrylock, CallUnlock, CallDestroy, Call
<1>2. ASSUME NEW self \in Threads, acquire(self)
      PROVE  SpinExclusion' /\ RestartTarget'
  BY <1>0, <1>2, Labels DEF acquire
<1>3. ASSUME NEW self \in Threads, pthread_mutex_lock(self)
      PROVE  SpinExclusion' /\ RestartTarget'
  BY <1>0, <1>3, Labels DEF pthread_mutex_lock, ReturnEINVAL, Take, release
<1>4. ASSUME NEW self \in Threads, pthread_mutex_lock_retry(self)
      PROVE  SpinExclusion' /\ RestartTarget'
  BY <1>0, <1>4, Labels DEF pthread_mutex_lock_retry
<1>5. ASSUME NEW self \in Threads, pthread_mutex_trylock(self)
      PROVE  SpinExclusion' /\ RestartTarget'
  BY <1>0, <1>5, Labels, Zenon DEF pthread_mutex_trylock, ReturnEINVAL, Take, release
<1>6. ASSUME NEW self \in Threads, pthread_mutex_unlock(self)
      PROVE  SpinExclusion' /\ RestartTarget'
  BY <1>0, <1>6, Labels DEF pthread_mutex_unlock, wake_if_any, ReturnEINVAL, release
<1>7. ASSUME NEW self \in Threads, pthread_mutex_unlock_restart(self)
      PROVE  SpinExclusion' /\ RestartTarget'
  BY <1>0, <1>7, Labels, Zenon DEF pthread_mutex_unlock_restart
<1>8. ASSUME NEW self \in Threads, pthread_mutex_destroy(self)
      PROVE  SpinExclusion' /\ RestartTarget'
  BY <1>0, <1>8, Labels, Zenon DEF pthread_mutex_destroy, release
<1>9. CASE UNCHANGED vars
  BY <1>0, <1>9, Zenon DEF vars
<1>. QED
  BY <1>1, <1>2, <1>3, <1>4, <1>5, <1>6, <1>7, <1>8, <1>9, Zenon DEF Next, MutexStep

\* Every step keeps m_count, m_owner and the callers' view of who holds the
\* mutex in agreement.
LEMMA OwnershipNext == OwnershipInv /\ [Next]_vars => Ownership'
<1> SUFFICES ASSUME OwnershipInv, [Next]_vars PROVE Ownership'
  BY Zenon
<1>0. /\ Ownership
      /\ pc \in [Threads -> MutexLabels \cup {"idle"}]
      /\ holds \in [Threads -> Nat]
      /\ ret \in [Threads -> {"idle"}]
      /\ m_count \in Nat
      /\ m_kind \in Kinds
  BY Zenon DEF OwnershipInv, TypeOK, MutexTypeOK
<1> USE DEF Ownership, MutualExclusion, Goto, Return, mutexVars, signalVars,
            BadKind, PTHREAD_MUTEX_RECURSIVE_NP, PTHREAD_MUTEX_FAST_NP
<1>1. ASSUME NEW self \in Threads, ProgramCall(self) PROVE Ownership'
  BY <1>0, <1>1, Zenon DEF ProgramCall, CallLock, CallTrylock, CallUnlock, CallDestroy, Call
<1>2. ASSUME NEW self \in Threads, acquire(self) PROVE Ownership'
  BY <1>0, <1>2, Labels, Zenon DEF acquire
<1>3. ASSUME NEW self \in Threads, m_kind # BadKind, Available(self), Take(self),
             UNCHANGED <<m_kind>>, Return(self)
      PROVE  Ownership'
  <2>1. m_count = holds[self] /\ \A t \in Threads \ {self} : holds[t] = 0
    BY <1>0, <1>3 DEF Available
  <2>2. /\ holds'[self] = m_count + 1
        /\ \A t \in Threads \ {self} : holds'[t] = 0
        /\ m_count' = m_count + 1
    BY <1>0, <1>3, <2>1, Zenon DEF Take
  <2>3. m_kind = PTHREAD_MUTEX_FAST_NP => m_count = 0
    BY <1>0, <1>3, Zenon DEF Available
  <2>. QED
    BY <1>0, <1>3, <2>2, <2>3 DEF Take
<1>4. ASSUME NEW self \in Threads, pthread_mutex_lock(self) PROVE Ownership'
  <2>1. CASE ReturnEINVAL(self)
    BY <1>0, <2>1, Zenon DEF ReturnEINVAL
  <2>2. CASE m_kind # BadKind /\ Available(self) /\ ~ReturnEINVAL(self)
    BY <1>3, <1>4, <2>2, Zenon DEF pthread_mutex_lock
  <2>3. CASE ~Available(self) /\ ~ReturnEINVAL(self)
    BY <1>0, <1>4, <2>3, Zenon DEF pthread_mutex_lock
  <2>. QED
    BY <1>4, <2>1, <2>2, <2>3, Zenon DEF pthread_mutex_lock
<1>5. ASSUME NEW self \in Threads, pthread_mutex_trylock(self) PROVE Ownership'
  <2>1. CASE ReturnEINVAL(self)
    BY <1>0, <2>1, Zenon DEF ReturnEINVAL
  <2>2. CASE m_kind # BadKind /\ Available(self) /\ ~ReturnEINVAL(self)
    BY <1>3, <1>5, <2>2, Zenon DEF pthread_mutex_trylock
  <2>3. CASE ~Available(self) /\ ~ReturnEINVAL(self)
    BY <1>0, <1>5, <2>3, Zenon DEF pthread_mutex_trylock
  <2>. QED
    BY <1>5, <2>1, <2>2, <2>3, Zenon DEF pthread_mutex_trylock
<1>6. ASSUME NEW self \in Threads, pthread_mutex_unlock(self) PROVE Ownership'
  <2>1. CASE ReturnEINVAL(self)
    BY <1>0, <2>1, Zenon DEF ReturnEINVAL
  <2>2. CASE m_kind # BadKind
    <3>1. /\ holds[self] > 0
          /\ m_count = holds[self]
          /\ \A t \in Threads \ {self} : holds[t] = 0
      BY <1>0, <1>6, <2>2 DEF pthread_mutex_unlock, wake_if_any
    <3>2. /\ holds'[self] = holds[self] - 1
          /\ \A t \in Threads \ {self} : holds'[t] = 0
          /\ UNCHANGED <<m_kind, m_owner>>
      BY <1>0, <1>6, <2>2, <3>1, Zenon DEF pthread_mutex_unlock, wake_if_any, ReturnEINVAL
    <3>3. m_count' = holds[self] - 1
      BY <1>0, <1>6, <2>2, <3>1 DEF pthread_mutex_unlock, wake_if_any,
         ReturnEINVAL, StillLocked
    <3>4. \A t \in Threads : pc'[t] \in {"mutex_unlock", "unlock_body"}
                               => t # self /\ pc[t] = pc'[t]
      BY <1>0, <1>6, Zenon DEF pthread_mutex_unlock, wake_if_any, ReturnEINVAL
    <3>. QED
      BY <1>0, <2>2, <3>1, <3>2, <3>3, <3>4
  <2>. QED
    BY <1>6, <2>1, <2>2, Zenon DEF pthread_mutex_unlock, wake_if_any, StillLocked
<1>7. ASSUME NEW self \in Threads,
             \/ pthread_mutex_lock_retry(self)
             \/ pthread_mutex_unlock_restart(self)
             \/ pthread_mutex_destroy(self)
      PROVE  Ownership'
  BY <1>0, <1>7, Zenon DEF pthread_mutex_lock_retry, pthread_mutex_unlock_restart,
         pthread_mutex_destroy
<1>8. CASE UNCHANGED vars
  BY <1>0, <1>8, Zenon DEF vars
<1>. QED
  BY <1>1, <1>2, <1>4, <1>5, <1>6, <1>7, <1>8, Zenon DEF Next, MutexStep

\* The inductive invariant behind mutual exclusion.
LEMMA OwnershipInvariant == Spec => []OwnershipInv
<1>1. OwnershipInv /\ [Next]_vars => OwnershipInv'
  BY TypeNext, SpinNext, OwnershipNext, Zenon DEF OwnershipInv
<1>. QED
  BY <1>1, OwnershipInit, PTL DEF Spec

\* Every reachable state of the mutex is well typed, whatever signals the
\* threads handle (the declarations of src/mutex.c and src/restart.h).
THEOREM TypeCorrect == Spec => []TypeOK
<1>1. OwnershipInv => TypeOK
  BY Zenon DEF OwnershipInv
<1>. QED
  BY <1>1, OwnershipInvariant, PTL

\* At most one thread holds the mutex, and m_count says how often, for every
\* number of threads, kind of mutex and depth, whatever signals the threads
\* handle: the stale p_signal of suspend cannot break mutual exclusion.
THEOREM MutualExclusionHolds == Spec => []MutualExclusion
<1>1. OwnershipInv => MutualExclusion
  BY Zenon DEF OwnershipInv, Ownership
<1>. QED
  BY <1>1, OwnershipInvariant, PTL
-----------------------------------------------------------------------------
(***************************************************************************)
(* The queue and the restart signals, when no other signal is handled.     *)
(***************************************************************************)
LEMMA WakeupInit == Init => WakeupInv(Seq(Threads))
<1> SUFFICES ASSUME Init PROVE WakeupInv(Seq(Threads))
  BY Zenon
<1> USE DEF Init, MutexInit, SignalInit, pthread_mutex_init
<1>1. NoStrayRestart /\ NoLostWakeup
  BY Zenon DEF NoStrayRestart, NoLostWakeup, queue_init
<1>2. WaitersAre(<<>>) /\ <<>> \in Seq(Threads)
  BY DEF WaitersAre, Holds, Asleep
<1>3. m_waiting.head = NULL
  BY Zenon DEF queue_init
<1>. QED
  BY <1>1, <1>2, <1>3, Zenon DEF WakeupInv

\* A step that changes neither the queue nor who is suspended or restarted.
LEMMA QuietStep ==
  ASSUME OwnershipInv, NEW self \in Threads, NEW s, WaitersAre(s), NoStrayRestart,
         UNCHANGED <<m_waiting, p_nextwaiting, th, sigpending>>,
         \A t \in Threads \ {self} : pc'[t] = pc[t],
         pc[self] \notin {"suspend", "restart"},
         pc'[self] \notin {"suspend", "restart"}
  PROVE  WaitersAre(s)' /\ NoStrayRestart'
<1>1. \A t \in Threads : /\ pc'[t] = "suspend" <=> pc[t] = "suspend"
                         /\ pc'[t] = "restart" <=> pc[t] = "restart"
  BY Zenon
<1>2. \A t \in Threads : RestartDue(t)' <=> RestartDue(t)
  BY <1>1, Zenon DEF RestartDue
<1>3. Asleep(s) \subseteq Threads
  BY DEF Asleep, WaitersAre, Holds
<1>4. WaitersAre(s)'
  BY <1>1, <1>2, <1>3, Zenon DEF WaitersAre, Holds, Asleep
<1>5. \A u \in Threads : pc[u] = "restart" => th[u] \in Threads
  BY Zenon DEF OwnershipInv, RestartTarget, TypeOK, MutexTypeOK
<1>6. sigpending \subseteq Threads
  BY Zenon DEF OwnershipInv, TypeOK, MutexTypeOK, SignalTypeOK
<1>7. NoStrayRestart'
  BY <1>1, <1>5, <1>6, Zenon DEF NoStrayRestart
<1>. QED
  BY <1>4, <1>7, Zenon

\* pthread_mutex_lock puts self, which no queue holds, at the end of the queue.
LEMMA EnqueueStep ==
  ASSUME OwnershipInv, NEW self \in Threads, NEW s, WaitersAre(s), NoStrayRestart,
         pthread_mutex_lock(self), m_kind # BadKind, ~Available(self)
  PROVE  WaitersAre(Append(s, self))' /\ NoStrayRestart'
<1> DEFINE r == Append(s, self)
<1>0. /\ pc \in [Threads -> MutexLabels \cup {"idle"}]
      /\ p_nextwaiting \in LinksType
      /\ sigpending \subseteq Threads
      /\ \A u \in Threads : pc[u] = "restart" => th[u] \in Threads
  BY Zenon DEF OwnershipInv, TypeOK, MutexTypeOK, SignalTypeOK, RestartTarget
<1>1. /\ pc[self] = "lock_body"
      /\ pc' = [pc EXCEPT ![self] = "suspend"]
      /\ m_waiting' = enqueue(m_waiting, self)
      /\ p_nextwaiting' = enqueue_links(m_waiting, p_nextwaiting, self)
      /\ UNCHANGED <<th, sigpending>>
  BY Zenon DEF pthread_mutex_lock, ReturnEINVAL, Goto, signalVars
<1>2. self \notin Asleep(s)
  BY <1>1, Zenon DEF WaitersAre
<1>3. p_nextwaiting[self] = NULL /\ \A i \in 1..Len(s) : s[i] # self
  BY <1>2, Zenon DEF WaitersAre, Asleep
<1>4. Holds(m_waiting', p_nextwaiting', r)
  BY <1>0, <1>1, <1>3, EnqueueAppends, Zenon DEF WaitersAre
<1>5. s \in Seq(Threads)
  BY Zenon DEF WaitersAre, Holds
<1>6. Asleep(s)' = Asleep(s) /\ Asleep(r)' = Asleep(s) \cup {self}
  BY <1>5 DEF Asleep
<1>7. \A t \in Threads \ Asleep(r)' : p_nextwaiting'[t] = NULL
  <2> SUFFICES ASSUME NEW t \in Threads \ Asleep(r)' PROVE p_nextwaiting'[t] = NULL
    BY Zenon
  <2>1. p_nextwaiting[t] = NULL /\ t # self
    BY <1>6, Zenon DEF WaitersAre
  <2>2. m_waiting.tail # NULL => m_waiting.tail \in Asleep(s)
    BY <1>5 DEF WaitersAre, Holds, Asleep, queue_init
  <2>3. m_waiting.tail # NULL => t # m_waiting.tail
    BY <1>6, <2>2, Zenon
  <2>. QED
    BY <1>0, <1>1, <2>1, <2>3, Zenon DEF enqueue_links, LinksType
<1>8. \A t \in Threads : RestartDue(t)' <=> RestartDue(t)
  BY <1>0, <1>1, Zenon DEF RestartDue
<1>9. ~RestartDue(self)
  BY <1>0, <1>1, Zenon DEF RestartDue, NoStrayRestart
<1>10. \A t \in Asleep(r)' : pc'[t] = "suspend" /\ ~RestartDue(t)'
  <2>1. Asleep(s) \subseteq Threads
    BY <1>5 DEF Asleep
  <2>. QED
    BY <1>0, <1>1, <1>6, <1>8, <1>9, <2>1, Zenon DEF WaitersAre
<1>11. \A t \in Threads \ Asleep(r)' : pc'[t] = "suspend" => RestartDue(t)'
  BY <1>0, <1>1, <1>6, <1>8, Zenon DEF WaitersAre
<1>12. WaitersAre(r)'
  BY <1>4, <1>7, <1>10, <1>11, Zenon DEF WaitersAre
<1>13. NoStrayRestart'
  BY <1>0, <1>1, Zenon DEF NoStrayRestart
<1>. QED
  BY <1>12, <1>13, Zenon

\* pthread_mutex_unlock takes the first sleeper out of the queue and owes it a
\* restart.
LEMMA DequeueStep ==
  ASSUME OwnershipInv, NEW self \in Threads, NEW s, WaitersAre(s), NoStrayRestart,
         pthread_mutex_unlock(self), m_kind # BadKind, ~StillLocked, s # <<>>
  PROVE  /\ WaitersAre(Tail(s))' /\ NoStrayRestart'
         /\ \E t \in Threads : OnItsWay(t)'
<1> DEFINE r == Tail(s)
           first == s[1]
<1>0. /\ pc \in [Threads -> MutexLabels \cup {"idle"}]
      /\ p_nextwaiting \in LinksType
      /\ th \in [Threads -> Threads \cup {NULL}]
      /\ sigpending \subseteq Threads
      /\ \A u \in Threads : pc[u] = "restart" => th[u] \in Threads
  BY Zenon DEF OwnershipInv, TypeOK, MutexTypeOK, SignalTypeOK, RestartTarget
<1>1. m_waiting.head = first /\ first \in Threads /\ s \in Seq(Threads)
  BY HoldsHead DEF WaitersAre, Holds
<1>2. /\ pc[self] = "unlock_body"
      /\ pc' = [pc EXCEPT ![self] = "restart"]
      /\ th' = [th EXCEPT ![self] = first]
      /\ m_waiting' = dequeue(m_waiting, p_nextwaiting)
      /\ p_nextwaiting' = dequeue_links(m_waiting, p_nextwaiting)
      /\ UNCHANGED sigpending
  BY <1>1, Zenon DEF pthread_mutex_unlock, wake_if_any, ReturnEINVAL, Goto, signalVars
<1>3. Holds(m_waiting, p_nextwaiting, s)
  BY Zenon DEF WaitersAre
<1>4. Holds(m_waiting', p_nextwaiting', r)
  BY <1>0, <1>2, <1>3, DequeueTakesFirst, Zenon
<1>5. p_nextwaiting' = [p_nextwaiting EXCEPT ![first] = NULL]
  BY <1>0, <1>2, <1>3, DequeueTakesFirst
<1>6. Asleep(r)' = Asleep(s) \ {first} /\ first \in Asleep(s)
  <2>1. /\ Len(s) \in Nat \ {0}
        /\ Len(r) = Len(s) - 1
    BY <1>1
  <2>2. \A i \in 1..Len(r) : r[i] = s[i + 1] /\ r[i] # first
    BY <1>0, <1>3, DequeueTakesFirst, Zenon
  <2>3. \A i \in 1..Len(r) : r[i] \in Asleep(s) \ {first}
    BY <2>1, <2>2 DEF Asleep
  <2>4. ASSUME NEW i \in 1..Len(s), s[i] # first
        PROVE  s[i] \in {r[j] : j \in 1..Len(r)}
    <3>1. i - 1 \in 1..Len(r) /\ (i - 1) + 1 = i
      BY <2>1, <2>4
    <3>. QED
      BY <2>2, <3>1, Zenon
  <2>. QED
    BY <2>1, <2>3, <2>4 DEF Asleep
<1>7. pc[first] = "suspend" /\ ~RestartDue(first) /\ first # self
  BY <1>2, <1>6, Zenon DEF WaitersAre
<1>8. \A t \in Threads \ {first} : RestartDue(t)' <=> RestartDue(t)
  BY <1>0, <1>2, Zenon DEF RestartDue
<1>9. RestartDue(first)'
  BY <1>0, <1>2, Zenon DEF RestartDue
<1>10. Asleep(s) \subseteq Threads
  BY <1>1 DEF Asleep
<1>11. WaitersAre(r)'
  <2>1. \A t \in Threads \ Asleep(r)' : p_nextwaiting'[t] = NULL
    BY <1>0, <1>5, <1>6, Zenon DEF WaitersAre, LinksType
  <2>2. \A t \in Asleep(r)' : pc'[t] = "suspend" /\ ~RestartDue(t)'
    BY <1>0, <1>2, <1>6, <1>8, <1>10, Zenon DEF WaitersAre
  <2>3. \A t \in Threads \ Asleep(r)' : pc'[t] = "suspend" => RestartDue(t)'
    BY <1>0, <1>2, <1>6, <1>8, <1>9, Zenon DEF WaitersAre
  <2>. QED
    BY <1>4, <2>1, <2>2, <2>3, Zenon DEF WaitersAre
<1>12. NoStrayRestart'
  BY <1>0, <1>1, <1>2, <1>7, Zenon DEF NoStrayRestart, RestartDue
<1>13. OnItsWay(first)'
  BY <1>0, <1>2, <1>7, <1>9 DEF OnItsWay
<1>. QED
  BY <1>1, <1>11, <1>12, <1>13, Zenon

\* restart sends the signal owed to a sleeper; the sleeper that receives it
\* leaves suspend.  Neither changes who sleeps in the queue.
LEMMA SignalStep ==
  ASSUME ~Interrupts, OwnershipInv, NEW self \in Threads, NEW s, WaitersAre(s),
         NoStrayRestart,
         pthread_mutex_unlock_restart(self) \/ pthread_mutex_lock_retry(self)
  PROVE  /\ WaitersAre(s)' /\ NoStrayRestart'
         /\ \A t \in Threads : OnItsWay(t) => OnItsWay(t)'
<1>0. /\ pc \in [Threads -> MutexLabels \cup {"idle"}]
      /\ ret \in [Threads -> {"idle"}]
      /\ th \in [Threads -> Threads \cup {NULL}]
      /\ sigpending \subseteq Threads
      /\ \A u \in Threads : pc[u] = "restart" => th[u] \in Threads
  BY Zenon DEF OwnershipInv, TypeOK, MutexTypeOK, SignalTypeOK, RestartTarget
<1>1. Asleep(s) \subseteq Threads /\ Asleep(s)' = Asleep(s)
  BY DEF Asleep, WaitersAre, Holds
<1>2. CASE pthread_mutex_unlock_restart(self)
  <2>1. /\ pc[self] = "restart"
        /\ pc' = [pc EXCEPT ![self] = "idle"]
        /\ th' = [th EXCEPT ![self] = NULL]
        /\ sigpending' = sigpending \cup {th[self]}
        /\ UNCHANGED <<m_waiting, p_nextwaiting>>
    BY <1>0, <1>2, Zenon DEF pthread_mutex_unlock_restart, restart, Return, Goto
  <2>2. \A t \in Threads : RestartDue(t)' <=> RestartDue(t)
    BY <1>0, <2>1, Zenon DEF RestartDue
  <2>3. WaitersAre(s)'
    BY <1>0, <1>1, <2>1, <2>2, Zenon DEF WaitersAre, Holds
  <2>4. NoStrayRestart'
    BY <1>0, <2>1, Zenon DEF NoStrayRestart
  <2>5. \A t \in Threads : OnItsWay(t) => OnItsWay(t)'
    BY <1>0, <2>1, <2>2, Zenon DEF OnItsWay
  <2>. QED
    BY <2>3, <2>4, <2>5, Zenon
<1>3. CASE pthread_mutex_lock_retry(self)
  <2>1. /\ pc[self] = "suspend"
        /\ self \in sigpending
        /\ pc' = [pc EXCEPT ![self] = "mutex_lock"]
        /\ sigpending' = sigpending \ {self}
        /\ UNCHANGED <<m_waiting, p_nextwaiting, th>>
    BY <1>0, <1>3, Zenon DEF pthread_mutex_lock_retry, suspend, suspend_restarted,
           suspend_interrupted, Goto, mutexVars
  <2>2. \A t \in Threads \ {self} : RestartDue(t)' <=> RestartDue(t)
    BY <1>0, <2>1, Zenon DEF RestartDue
  <2>3. self \notin Asleep(s)
    BY <2>1, Zenon DEF WaitersAre, RestartDue
  <2>4. WaitersAre(s)'
    BY <1>0, <1>1, <2>1, <2>2, <2>3, Zenon DEF WaitersAre, Holds
  <2>5. NoStrayRestart'
    BY <1>0, <2>1, Zenon DEF NoStrayRestart
  <2>6. \A t \in Threads : OnItsWay(t) => OnItsWay(t)'
    BY <1>0, <2>1, <2>2, Zenon DEF OnItsWay
  <2>. QED
    BY <2>4, <2>5, <2>6, Zenon
<1>. QED
  BY <1>2, <1>3, Zenon

\* A step that takes nobody off its way to the mutex, and leaves the mutex and
\* its queue alone, loses no wakeup.
LEMMA StillOnItsWay ==
  ASSUME NoLostWakeup, UNCHANGED <<m_count, m_waiting>>,
         \A t \in Threads : OnItsWay(t) => OnItsWay(t)'
  PROVE  NoLostWakeup'
  BY Zenon DEF NoLostWakeup

\* Without signals other than restart, every step keeps account of the sleepers:
\* each is in the queue, or has one restart due.
LEMMA WakeupNext ==
  ASSUME ~Interrupts, OwnershipInv, WakeupInv(Seq(Threads)), [Next]_vars
  PROVE  WakeupInv(Seq(Threads))'
<1> DEFINE Q(s) == WaitersAre(s) /\ s \in Seq(Threads)
<1>0. /\ pc \in [Threads -> MutexLabels \cup {"idle"}]
      /\ ret \in [Threads -> {"idle"}]
      /\ m_count \in Nat
      /\ holds \in [Threads -> Nat]
  BY Zenon DEF OwnershipInv, TypeOK, MutexTypeOK
<1>1. /\ NoStrayRestart
      /\ NoLostWakeup
      /\ m_kind = BadKind => m_waiting.head = NULL
  BY Zenon DEF WakeupInv
<1>2. PICK s : Q(s)
  BY Zenon DEF WakeupInv
<1>3. SUFFICES
        ASSUME TRUE
        PROVE  /\ NoStrayRestart'
               /\ NoLostWakeup'
               /\ m_kind' = BadKind => m_waiting'.head = NULL
               /\ \E r : r \in Seq(Threads) /\ WaitersAre(r)'
  BY Zenon DEF WakeupInv
<1> DEFINE Goal == /\ NoStrayRestart'
                   /\ NoLostWakeup'
                   /\ m_kind' = BadKind => m_waiting'.head = NULL
                   /\ \E r : r \in Seq(Threads) /\ WaitersAre(r)'
\* The steps that touch neither the queue nor the signals.
<1>4. ASSUME NEW self \in Threads,
             UNCHANGED <<m_kind, m_waiting, p_nextwaiting, th, sigpending>>,
             \A t \in Threads \ {self} : pc'[t] = pc[t],
             pc[self] \notin {"suspend", "restart"},
             pc'[self] \notin {"suspend", "restart"},
             NoLostWakeup'
      PROVE  Goal
  <2>1. WaitersAre(s)' /\ NoStrayRestart'
    BY <1>1, <1>2, <1>4, QuietStep, Zenon
  <2>. QED
    BY <1>1, <1>2, <1>4, <2>1, Zenon
<1>5. ASSUME NEW self \in Threads, ProgramCall(self) PROVE Goal
  <2>1. /\ UNCHANGED <<m_kind, m_count, m_waiting, p_nextwaiting, th, sigpending>>
        /\ \A t \in Threads \ {self} : pc'[t] = pc[t]
        /\ pc[self] = "idle"
        /\ pc'[self] \in Entries
    BY <1>0, <1>5, Labels, Zenon DEF ProgramCall, CallLock, CallTrylock, CallUnlock, CallDestroy,
           Call, Goto, mutexVars, signalVars
  <2>2. \A t \in Threads : OnItsWay(t) => OnItsWay(t)'
    BY <2>1, Labels, Zenon DEF OnItsWay, RestartDue
  <2>. QED
    BY <1>1, <1>4, <2>1, <2>2, StillOnItsWay, Labels, Zenon
<1>6. ASSUME NEW self \in Threads, acquire(self) PROVE Goal
  <2>1. /\ UNCHANGED <<m_kind, m_count, m_waiting, p_nextwaiting, th, sigpending>>
        /\ \A t \in Threads \ {self} : pc'[t] = pc[t]
        /\ pc[self] \in Entries
        /\ pc'[self] = Inside[pc[self]]
    BY <1>0, <1>6, Zenon DEF acquire, Goto, signalVars
  <2>2. \A t \in Threads : OnItsWay(t) => OnItsWay(t)'
    BY <2>1, Labels, Zenon DEF OnItsWay, RestartDue
  <2>. QED
    BY <1>1, <1>4, <2>1, <2>2, StillOnItsWay, Labels, Zenon
\* An improperly initialized mutex has no waiters.
<1>7. ASSUME NEW self \in Threads, pc[self] \in Bodies, ReturnEINVAL(self) PROVE Goal
  <2>1. /\ UNCHANGED <<m_kind, m_count, m_waiting, p_nextwaiting, th, sigpending>>
        /\ m_kind = BadKind
        /\ \A t \in Threads \ {self} : pc'[t] = pc[t]
        /\ pc'[self] = "idle"
    BY <1>0, <1>7, Zenon DEF ReturnEINVAL, Return, Goto, signalVars, mutexVars
  <2>2. NoLostWakeup'
    BY <1>1, <2>1, Zenon DEF NoLostWakeup
  <2>. QED
    BY <1>4, <1>7, <2>1, <2>2, Labels, Zenon
\* A mutex that stays locked loses no wakeup.
<1>8. ASSUME NEW self \in Threads, pc[self] \in Bodies, Return(self), m_count' > 0,
             UNCHANGED <<m_kind, m_waiting, p_nextwaiting, th, sigpending>>
      PROVE  Goal
  <2>1. /\ \A t \in Threads \ {self} : pc'[t] = pc[t]
        /\ pc'[self] = "idle"
    BY <1>0, <1>8, Zenon DEF Return, Goto
  <2>2. NoLostWakeup'
    BY <1>8 DEF NoLostWakeup
  <2>. QED
    BY <1>4, <1>8, <2>1, <2>2, Labels, Zenon
<1>9. ASSUME NEW self \in Threads, pthread_mutex_lock(self) PROVE Goal
  <2>1. CASE ReturnEINVAL(self)
    BY <1>7, <1>9, <2>1, Labels, Zenon DEF pthread_mutex_lock
  <2>2. CASE m_kind # BadKind /\ Available(self)
    BY <1>0, <1>8, <1>9, <2>2, Labels
       DEF pthread_mutex_lock, ReturnEINVAL, Take, signalVars
  <2>3. CASE m_kind # BadKind /\ ~Available(self)
    <3>1. WaitersAre(Append(s, self))' /\ NoStrayRestart'
      BY <1>1, <1>2, <1>9, <2>3, EnqueueStep, Zenon
    <3>2. Append(s, self) \in Seq(Threads)
      BY <1>2
    <3>3. m_count' # 0 /\ UNCHANGED m_kind
      BY <1>9, <2>3, Zenon DEF pthread_mutex_lock, ReturnEINVAL, Available
    <3>. QED
      BY <2>3, <3>1, <3>2, <3>3, Zenon DEF NoLostWakeup
  <2>. QED
    BY <1>9, <2>1, <2>2, <2>3, Zenon DEF pthread_mutex_lock
<1>10. ASSUME NEW self \in Threads, pthread_mutex_trylock(self) PROVE Goal
  <2>1. CASE ReturnEINVAL(self)
    BY <1>7, <1>10, <2>1, Labels, Zenon DEF pthread_mutex_trylock
  <2>2. CASE m_kind # BadKind /\ Available(self)
    BY <1>0, <1>8, <1>10, <2>2, Labels
       DEF pthread_mutex_trylock, ReturnEINVAL, Take, signalVars
  <2>3. CASE m_kind # BadKind /\ ~Available(self)
    BY <1>0, <1>8, <1>10, <2>3, Labels
       DEF pthread_mutex_trylock, ReturnEINVAL, Available, signalVars
  <2>. QED
    BY <1>10, <2>1, <2>2, <2>3, Zenon DEF pthread_mutex_trylock
<1>11. ASSUME NEW self \in Threads, pthread_mutex_unlock(self) PROVE Goal
  <2>1. CASE ReturnEINVAL(self)
    BY <1>7, <1>11, <2>1, Labels, Zenon DEF pthread_mutex_unlock, wake_if_any
  <2>2. CASE StillLocked /\ ~ReturnEINVAL(self)
    BY <1>0, <1>8, <1>11, <2>2, Labels
       DEF pthread_mutex_unlock, wake_if_any, StillLocked, signalVars
  <2>3. CASE m_kind # BadKind /\ ~StillLocked /\ s # <<>>
    <3>1. /\ WaitersAre(Tail(s))' /\ NoStrayRestart'
          /\ \E t \in Threads : OnItsWay(t)'
      BY <1>1, <1>2, <1>11, <2>3, DequeueStep, Zenon
    <3>2. Tail(s) \in Seq(Threads)
      BY <1>2, <2>3
    <3>3. UNCHANGED m_kind
      BY <1>11, <2>3, Zenon DEF pthread_mutex_unlock, wake_if_any, ReturnEINVAL
    <3>. QED
      BY <2>3, <3>1, <3>2, <3>3, Zenon DEF NoLostWakeup
  <2>4. CASE m_kind # BadKind /\ ~StillLocked /\ s = <<>>
    <3>1. m_waiting.head = NULL
      BY <1>2, <2>4, HoldsHead, Zenon DEF WaitersAre
    <3>2. /\ UNCHANGED <<m_kind, m_waiting, p_nextwaiting, sigpending>>
          /\ th' = [th EXCEPT ![self] = NULL]
          /\ pc[self] = "unlock_body"
          /\ pc' = [pc EXCEPT ![self] = "idle"]
      BY <1>0, <1>11, <2>4, <3>1, Zenon DEF pthread_mutex_unlock, wake_if_any,
         ReturnEINVAL, StillLocked,
             dequeue, dequeue_links, Return, Goto, signalVars
    <3>3. \A t \in Threads : pc'[t] = "restart" => pc[t] = "restart" /\ th'[t] = th[t]
      BY <1>0, <3>2, Zenon DEF OwnershipInv, TypeOK, MutexTypeOK
    <3>4. \A t \in Threads : pc[t] = "restart" => pc'[t] = "restart" /\ th'[t] = th[t]
      BY <1>0, <3>2, Zenon DEF OwnershipInv, TypeOK, MutexTypeOK
    <3>5. \A t \in Threads : RestartDue(t)' <=> RestartDue(t)
      BY <3>2, <3>3, <3>4, Zenon DEF RestartDue
    <3>6. \A t \in Threads : pc'[t] = "suspend" <=> pc[t] = "suspend"
      BY <1>0, <3>2, Zenon
    <3>7. Asleep(s)' = Asleep(s) /\ Asleep(s) \subseteq Threads
      BY <1>2 DEF Asleep
    <3>8. WaitersAre(s)'
      BY <1>2, <3>2, <3>5, <3>6, <3>7, Zenon DEF WaitersAre, Holds
    <3>9. sigpending \subseteq Threads
      BY Zenon DEF OwnershipInv, TypeOK, MutexTypeOK, SignalTypeOK
    <3>10. \A u \in Threads : pc[u] = "restart" => th[u] \in Threads
      BY Zenon DEF OwnershipInv, TypeOK, MutexTypeOK, RestartTarget
    <3>11. NoStrayRestart'
      BY <1>1, <3>2, <3>3, <3>4, <3>6, <3>9, <3>10 DEF NoStrayRestart
    <3>12. NoLostWakeup'
      BY <3>1, <3>2, Zenon DEF NoLostWakeup
    <3>. QED
      BY <1>1, <1>2, <3>2, <3>8, <3>11, <3>12, Zenon
  <2>. QED
    BY <1>11, <2>1, <2>2, <2>3, <2>4, Zenon DEF pthread_mutex_unlock, wake_if_any
<1>12. ASSUME NEW self \in Threads,
              pthread_mutex_unlock_restart(self) \/ pthread_mutex_lock_retry(self)
       PROVE  Goal
  <2>1. /\ WaitersAre(s)' /\ NoStrayRestart'
        /\ \A t \in Threads : OnItsWay(t) => OnItsWay(t)'
    BY <1>1, <1>2, <1>12, SignalStep, Zenon
  <2>2. UNCHANGED <<m_kind, m_count, m_waiting>>
    BY <1>12, Zenon DEF pthread_mutex_unlock_restart, pthread_mutex_lock_retry, mutexVars
  <2>. QED
    BY <1>1, <1>2, <2>1, <2>2, StillOnItsWay, Zenon
<1>13. ASSUME NEW self \in Threads, pthread_mutex_destroy(self) PROVE Goal
  <2>1. /\ UNCHANGED <<m_kind, m_count, m_waiting, p_nextwaiting, th, sigpending>>
        /\ \A t \in Threads \ {self} : pc'[t] = pc[t]
        /\ pc[self] = "destroy_body"
        /\ pc'[self] = "idle"
    BY <1>0, <1>13, Zenon DEF pthread_mutex_destroy, Return, Goto, signalVars
  <2>2. \A t \in Threads : OnItsWay(t) => OnItsWay(t)'
    BY <2>1, Labels, Zenon DEF OnItsWay, RestartDue
  <2>. QED
    BY <1>1, <1>4, <2>1, <2>2, StillOnItsWay, Zenon
<1>14. CASE UNCHANGED vars
  <2>0. UNCHANGED <<m_kind, m_count, m_waiting, p_nextwaiting, th, pc, sigpending>>
    BY <1>14, Zenon DEF vars, mutexVars, signalVars
  <2>1. NoStrayRestart'
    BY <1>1, <1>2, <2>0, Zenon DEF NoStrayRestart
  <2>2. WaitersAre(s)'
    BY <1>1, <1>2, <2>0, Zenon DEF WaitersAre, Asleep, Holds, RestartDue
  <2>3. NoLostWakeup'
    BY <1>1, <1>2, <2>0, Zenon DEF NoLostWakeup, OnItsWay, RestartDue
  <2>. QED
    BY <1>1, <1>2, <2>0, <2>1, <2>2, <2>3, Zenon
<1>. QED
  BY <1>5, <1>6, <1>9, <1>10, <1>11, <1>12, <1>13, <1>14, Zenon DEF Next, MutexStep

\* The inductive invariant behind the absence of lost wakeups.
LEMMA WakeupInvariant ==
  ASSUME ~Interrupts
  PROVE  Spec => [](OwnershipInv /\ WakeupInv(Seq(Threads)))
<1>1. OwnershipInv /\ WakeupInv(Seq(Threads)) /\ [Next]_vars
        => WakeupInv(Seq(Threads))'
  BY WakeupNext, Zenon
<1>. QED
  BY <1>1, WakeupInit, OwnershipInvariant, PTL DEF Spec

\* When no signal but restart is handled, a free mutex whose queue is not empty
\* always has a thread on its way to it: pthread_mutex_unlock's single wakeup is
\* enough, however many threads wait or lock in between.
THEOREM NoLostWakeupHolds ==
  ASSUME ~Interrupts
  PROVE  Spec => []NoLostWakeup
<1>1. WakeupInv(Seq(Threads)) => NoLostWakeup
  BY Zenon DEF WakeupInv
<1>. QED
  BY <1>1, WakeupInvariant, PTL

\* When no signal but restart is handled, no restart signal is sent twice or
\* outlives the suspend it was meant for.
THEOREM NoStrayRestartHolds ==
  ASSUME ~Interrupts
  PROVE  Spec => []NoStrayRestart
<1>1. WakeupInv(Seq(Threads)) => NoStrayRestart
  BY Zenon DEF WakeupInv
<1>. QED
  BY <1>1, WakeupInvariant, PTL

\* When no signal but restart is handled, the ASSERT of enqueue (src/queue.h)
\* holds whenever pthread_mutex_lock reaches it.
THEOREM EnqueueAssertHolds ==
  ASSUME ~Interrupts
  PROVE  Spec => []EnqueueAssert
<1>1. WakeupInv(Seq(Threads)) => EnqueueAssert
  <2> SUFFICES ASSUME NEW s, WaitersAre(s) PROVE EnqueueAssert
    BY Zenon DEF WakeupInv
  <2>. QED
    BY Zenon DEF WaitersAre, EnqueueAssert
<1>. QED
  BY <1>1, WakeupInvariant, PTL
-----------------------------------------------------------------------------
(***************************************************************************)
(* The spin lock.                                                          *)
(***************************************************************************)
LEMMA SpinlockNext ==
  ASSUME OwnershipInv, SpinlockReleased, [Next]_vars
  PROVE  SpinlockReleased'
<1>0. /\ pc \in [Threads -> MutexLabels \cup {"idle"}]
      /\ ret \in [Threads -> {"idle"}]
      /\ m_spinlock \in {0, 1}
      /\ SpinExclusion
  BY Zenon DEF OwnershipInv, TypeOK, MutexTypeOK
<1>k. m_kind' = m_kind
  BY Zenon DEF Next, ProgramCall, CallLock, CallTrylock, CallUnlock, CallDestroy, Call,
         MutexStep, acquire, pthread_mutex_lock, pthread_mutex_lock_retry,
         pthread_mutex_trylock, pthread_mutex_unlock, pthread_mutex_unlock_restart,
         pthread_mutex_destroy, ReturnEINVAL, mutexVars, vars
<1> SUFFICES ASSUME m_kind # BadKind PROVE SpinlockReleased'
  BY <1>k, Zenon DEF SpinlockReleased
<1> USE DEF SpinlockReleased, SpinExclusion, InBodies, Goto, Return
<1>1. ASSUME NEW self \in Threads, ProgramCall(self) PROVE SpinlockReleased'
  BY <1>0, <1>1, Labels, Zenon DEF ProgramCall, CallLock, CallTrylock, CallUnlock, CallDestroy,
         Call, mutexVars
<1>2. ASSUME NEW self \in Threads, acquire(self) PROVE SpinlockReleased'
  BY <1>0, <1>2, Labels, Zenon DEF acquire
<1>3. ASSUME NEW self \in Threads,
             \/ pthread_mutex_lock(self)
             \/ pthread_mutex_trylock(self)
             \/ pthread_mutex_unlock(self)
             \/ pthread_mutex_destroy(self)
      PROVE  SpinlockReleased'
  <2>1. pthread_mutex_lock(self) => m_spinlock' = 0
    BY <1>0, Zenon DEF pthread_mutex_lock, ReturnEINVAL, release
  <2>2. pthread_mutex_trylock(self) => m_spinlock' = 0
    BY <1>0, Zenon DEF pthread_mutex_trylock, ReturnEINVAL, release
  <2>3. pthread_mutex_unlock(self) => m_spinlock' = 0
    BY <1>0, Zenon DEF pthread_mutex_unlock, ReturnEINVAL, release
  <2>4. pthread_mutex_destroy(self) => m_spinlock' = 0
    BY Zenon DEF pthread_mutex_destroy, release
  <2>. QED
    BY <1>3, <2>1, <2>2, <2>3, <2>4
<1>4. ASSUME NEW self \in Threads,
             pthread_mutex_unlock_restart(self) \/ pthread_mutex_lock_retry(self)
      PROVE  SpinlockReleased'
  BY <1>0, <1>4, Labels, Zenon DEF pthread_mutex_unlock_restart, pthread_mutex_lock_retry,
         mutexVars
<1>5. CASE UNCHANGED vars
  BY <1>5, Zenon DEF vars, mutexVars
<1>. QED
  BY <1>1, <1>2, <1>3, <1>4, <1>5, Zenon DEF Next, MutexStep

\* Every function of src/mutex.c releases the m_spinlock of a properly initialized
\* mutex on every path, whatever signals the threads handle.
THEOREM SpinlockReleasedHolds == Spec => []SpinlockReleased
<1>1. Init => SpinlockReleased
  BY DEF Init, MutexInit, pthread_mutex_init, SpinlockReleased
<1>2. OwnershipInv /\ SpinlockReleased /\ [Next]_vars => SpinlockReleased'
  BY SpinlockNext, Zenon
<1>. QED
  BY <1>1, <1>2, OwnershipInvariant, PTL DEF Spec

-----------------------------------------------------------------------------
(***************************************************************************)
(* The mutex of src/mutex.c implements AbstractMutex, for any finite       *)
(* number of threads, any kind and any nesting, when no signal but restart *)
(* is handled.  (Its fairness is left to TLC.)                             *)
(***************************************************************************)

\* A thread that is about to lock or waits to lock a fast mutex does not hold it:
\* it would wait for itself.
LockersHoldNothing ==
  m_kind = PTHREAD_MUTEX_FAST_NP =>
    \A t \in Threads : pc[t] \in {"mutex_lock", "lock_body", "suspend"} => holds[t] = 0

\* No step makes a thread lock or wait for a fast mutex it holds: CallLock is
\* barred to the holder, and only the return from lock or trylock makes one.
LEMMA LockersNext ==
  ASSUME OwnershipInv, LockersHoldNothing, [Next]_vars
  PROVE  LockersHoldNothing'
<1>0. /\ pc \in [Threads -> MutexLabels \cup {"idle"}]
      /\ ret \in [Threads -> {"idle"}]
      /\ holds \in [Threads -> Nat]
  BY Zenon DEF OwnershipInv, TypeOK, MutexTypeOK
<1> USE DEF LockersHoldNothing, Goto, Return
<1>1. ASSUME NEW self \in Threads, ProgramCall(self) PROVE LockersHoldNothing'
  BY <1>0, <1>1, Zenon DEF ProgramCall, CallLock, CallTrylock, CallUnlock, CallDestroy, Call,
     MayLock, mutexVars, PTHREAD_MUTEX_FAST_NP, PTHREAD_MUTEX_RECURSIVE_NP
<1>2. ASSUME NEW self \in Threads, acquire(self) PROVE LockersHoldNothing'
  BY <1>0, <1>2, Labels, Zenon DEF acquire
<1>3. ASSUME NEW self \in Threads, pthread_mutex_lock(self) PROVE LockersHoldNothing'
  BY <1>0, <1>3, Zenon DEF pthread_mutex_lock, ReturnEINVAL, Take, mutexVars
<1>4. ASSUME NEW self \in Threads, pthread_mutex_trylock(self) PROVE LockersHoldNothing'
  BY <1>0, <1>4, Zenon DEF pthread_mutex_trylock, ReturnEINVAL, Take, mutexVars
<1>5. ASSUME NEW self \in Threads, pthread_mutex_unlock(self) PROVE LockersHoldNothing'
  BY <1>0, <1>5, Zenon DEF pthread_mutex_unlock, wake_if_any, ReturnEINVAL, mutexVars
<1>6. ASSUME NEW self \in Threads,
             \/ pthread_mutex_lock_retry(self)
             \/ pthread_mutex_unlock_restart(self)
             \/ pthread_mutex_destroy(self)
      PROVE  LockersHoldNothing'
  BY <1>0, <1>6, Zenon DEF pthread_mutex_lock_retry, pthread_mutex_unlock_restart,
     pthread_mutex_destroy, mutexVars
<1>7. CASE UNCHANGED vars
  BY <1>7, Zenon DEF vars, mutexVars
<1>. QED
  BY <1>1, <1>2, <1>3, <1>4, <1>5, <1>6, <1>7, Zenon DEF Next, MutexStep
-----------------------------------------------------------------------------
(***************************************************************************)
(* The refinement mapping.                                                 *)
(***************************************************************************)

\* The abstract line is the sequence that the queue holds.
LEMMA LineIs ==
  ASSUME IsFiniteSet(Threads), NEW q, NEW next, NEW s, Holds(q, next, s)
  PROVE  Line(q, next) = s
<1>1. s \in Orders
  BY HoldsBounded, Zenon DEF Orders
<1>2. Holds(q, next, Line(q, next))
  BY <1>1, Zenon DEF Line
<1>. QED
  BY <1>2, HoldsUnique, Zenon

\* The abstract owner is the only thread that holds the mutex.
LEMMA HolderIs ==
  ASSUME NEW held \in [Threads -> Nat],
         \A t, u \in Threads : held[t] > 0 /\ held[u] > 0 => t = u
  PROVE  /\ \A t \in Threads : held[t] > 0 => Holder(held) = t
         /\ (\A t \in Threads : held[t] = 0) => Holder(held) = NULL
  BY DEF Holder

\* Who contends can be told from the program counters and the line.
LEMMA ContendingIs ==
  ASSUME NEW s, WaitersAre(s)
  PROVE  Contending = {t \in Threads :
           /\ m_kind # BadKind
           /\ \/ pc[t] \in {"mutex_lock", "lock_body"}
              \/ pc[t] = "suspend" /\ t \notin Asleep(s)}
  BY Zenon DEF Contending, OnItsWay, WaitersAre

\* Every step of a thread is a step of AbstractMutex, or changes nothing there.
LEMMA RefinementStep ==
  ASSUME ~Interrupts, IsFiniteSet(Threads),
         OwnershipInv, WakeupInv(Seq(Threads)), LockersHoldNothing,
         OwnershipInv', WakeupInv(Seq(Threads))', [Next]_vars
  PROVE  [Abstract!Next]_(Abstract!vars)
<1>0. /\ pc \in [Threads -> MutexLabels \cup {"idle"}]
      /\ ret \in [Threads -> {"idle"}]
      /\ m_count \in Nat
      /\ holds \in [Threads -> Nat]
      /\ holds' \in [Threads -> Nat]
      /\ m_kind \in {PTHREAD_MUTEX_FAST_NP, PTHREAD_MUTEX_RECURSIVE_NP, BadKind}
      /\ Ownership
      /\ NoStrayRestart
  <2>1. TypeOK /\ Ownership /\ TypeOK'
    BY Zenon DEF OwnershipInv
  <2>2. NoStrayRestart
    BY Zenon DEF WakeupInv
  <2>3. m_kind \in {PTHREAD_MUTEX_FAST_NP, PTHREAD_MUTEX_RECURSIVE_NP, BadKind}
    BY <2>1, KindsAssumption, Zenon DEF TypeOK, MutexTypeOK
  <2>. QED
    BY <2>1, <2>2, <2>3, Zenon DEF TypeOK, MutexTypeOK
<1>1. PICK s : WaitersAre(s)
  BY Zenon DEF WakeupInv
<1>2. PICK r : WaitersAre(r)'
  BY Zenon DEF WakeupInv
<1> DEFINE line == Line(m_waiting, p_nextwaiting)
           owner == Holder(holds)
<1>3. line = s /\ s \in Seq(Threads)
  BY <1>1, LineIs DEF WaitersAre, Holds
<1>4. line' = r
  BY <1>2, LineIs, Zenon DEF WaitersAre
<1>5. Contending = {t \in Threads :
         /\ m_kind # BadKind
         /\ \/ pc[t] \in {"mutex_lock", "lock_body"}
            \/ pc[t] = "suspend" /\ t \notin Asleep(s)}
  BY <1>1, ContendingIs, Zenon
<1>6. Contending' = {t \in Threads :
         /\ m_kind' # BadKind
         /\ \/ pc'[t] \in {"mutex_lock", "lock_body"}
            \/ pc'[t] = "suspend" /\ t \notin Asleep(r)}
  BY <1>2, Zenon DEF Contending, OnItsWay, WaitersAre, Asleep
<1>7. /\ Abstract!Waiting = Asleep(s)
      /\ \A t \in Asleep(s) : pc[t] = "suspend"
  BY <1>1, <1>3, Zenon DEF Abstract!Waiting, Asleep, WaitersAre
<1>8. /\ \A t \in Threads : holds[t] > 0 => owner = t
      /\ (\A t \in Threads : holds[t] = 0) => owner = NULL
  BY <1>0, HolderIs, Zenon DEF Ownership, MutualExclusion
<1>9. /\ \A t \in Threads : holds'[t] > 0 => owner' = t
      /\ (\A t \in Threads : holds'[t] = 0) => owner' = NULL
  BY <1>0, HolderIs, Zenon DEF OwnershipInv, Ownership, MutualExclusion
<1> HIDE DEF line, owner
<1>10. ASSUME UNCHANGED <<m_waiting, p_nextwaiting>> PROVE r = s /\ line' = line
  BY <1>3, <1>4, <1>10, Zenon DEF line
<1>11. ASSUME UNCHANGED <<holds, m_count, m_waiting, p_nextwaiting>>,
              Contending' = Contending
       PROVE  UNCHANGED Abstract!vars
  BY <1>11, Zenon DEF Abstract!vars
<1>12. ASSUME NEW self \in Threads, ProgramCall(self)
       PROVE  [Abstract!Next]_(Abstract!vars)
  <2>1. /\ UNCHANGED <<holds, m_count, m_kind, m_waiting, p_nextwaiting>>
        /\ pc[self] = "idle"
        /\ \E entry \in Entries : pc' = [pc EXCEPT ![self] = entry]
    BY <1>12, Labels, Zenon DEF ProgramCall, CallLock, CallTrylock, CallUnlock, CallDestroy,
       Call, Goto, mutexVars
  <2>2. CASE pc'[self] = "mutex_lock" /\ m_kind # BadKind
    <3>1. self \notin Contending \cup Asleep(s)
      BY <1>5, <1>7, <2>1, Zenon
    <3>2. Contending' = Contending \cup {self}
      BY <1>0, <1>5, <1>6, <1>10, <2>1, <2>2, Zenon
    <3>3. Abstract!Contend(self)
      BY <1>7, <2>1, <3>1, <3>2, Zenon DEF Abstract!Contend
    <3>. QED
      BY <3>3, Zenon DEF Abstract!Next
  <2>3. CASE pc'[self] # "mutex_lock" \/ m_kind = BadKind
    <3>1. Contending' = Contending
      BY <1>0, <1>5, <1>6, <1>10, <2>1, <2>3, Labels, Zenon
    <3>. QED
      BY <1>11, <2>1, <3>1, Zenon
  <2>. QED
    BY <2>2, <2>3, Zenon
<1>13. ASSUME NEW self \in Threads,
              \/ acquire(self)
              \/ pthread_mutex_lock_retry(self)
              \/ pthread_mutex_unlock_restart(self)
              \/ pthread_mutex_destroy(self)
       PROVE  UNCHANGED Abstract!vars
  <2>1. UNCHANGED <<holds, m_count, m_kind, m_waiting, p_nextwaiting>>
    BY <1>13, Zenon DEF acquire, pthread_mutex_lock_retry, pthread_mutex_unlock_restart,
       pthread_mutex_destroy, mutexVars
  <2>2. Contending' = Contending
    <3>1. CASE acquire(self)
      BY <1>0, <1>5, <1>6, <1>10, <2>1, <3>1, Labels, Zenon DEF acquire, Goto
    <3>2. CASE pthread_mutex_lock_retry(self)
      <4>1. pc[self] = "suspend" /\ pc' = [pc EXCEPT ![self] = "mutex_lock"]
            /\ self \in sigpending
        BY <3>2, Zenon DEF pthread_mutex_lock_retry, suspend, suspend_restarted,
           suspend_interrupted, Goto
      <4>2. self \notin Asleep(s)
        BY <1>1, <4>1, Zenon DEF WaitersAre, RestartDue
      <4>. QED
        BY <1>0, <1>5, <1>6, <1>10, <2>1, <4>1, <4>2, Zenon
    <3>3. CASE pthread_mutex_unlock_restart(self) \/ pthread_mutex_destroy(self)
      <4>1. /\ pc[self] \in {"restart", "destroy_body"}
            /\ pc' = [pc EXCEPT ![self] = "idle"]
        BY <1>0, <3>3, Zenon DEF pthread_mutex_unlock_restart, pthread_mutex_destroy,
           Return, Goto
      <4>. QED
        BY <1>0, <1>5, <1>6, <1>10, <2>1, <4>1, Zenon
    <3>. QED
      BY <1>13, <3>1, <3>2, <3>3, Zenon
  <2>. QED
    BY <1>11, <2>1, <2>2, Zenon
\* A function that finds an improperly initialized mutex.
<1>14. ASSUME NEW self \in Threads, ReturnEINVAL(self) PROVE UNCHANGED Abstract!vars
  <2>1. /\ UNCHANGED <<holds, m_count, m_kind, m_waiting, p_nextwaiting>>
        /\ m_kind = BadKind
    BY <1>14, Zenon DEF ReturnEINVAL, mutexVars
  <2>. QED
    BY <1>5, <1>6, <1>11, <2>1, Zenon
\* A function that takes the mutex.
<1>15. ASSUME NEW self \in Threads, pc[self] \in {"lock_body", "trylock_body"},
              m_kind # BadKind, Available(self), Take(self), Return(self),
              UNCHANGED <<m_kind, m_waiting, p_nextwaiting>>
       PROVE  Abstract!Acquire(self)
  <2>1. owner \in {NULL, self}
    <3>1. CASE m_count = 0
      <4>1. \A t \in Threads : holds[t] = 0
        BY <1>0, <3>1 DEF Ownership, MutualExclusion
      <4>. QED
        BY <1>8, <4>1, Zenon
    <3>2. CASE m_count # 0
      <4>1. PICK t \in Threads : holds[t] > 0
        BY <1>0, <3>2 DEF Ownership, MutualExclusion
      <4>2. t = self
        BY <1>0, <1>15, <3>2, <4>1, Zenon DEF Ownership, Available
      <4>. QED
        BY <1>8, <4>1, <4>2, Zenon
    <3>. QED
      BY <3>1, <3>2, Zenon
  <2>2. m_count' = m_count + 1 /\ holds'[self] > 0
    BY <1>0, <1>15 DEF Take
  <2>3. owner' = self
    BY <1>9, <2>2, Zenon
  <2>4. self \notin Asleep(s)
    BY <1>7, <1>15, Zenon
  <2>5. Contending' = Contending \ {self}
    <3>1. pc' = [pc EXCEPT ![self] = "idle"]
      BY <1>0, <1>15, Zenon DEF Return, Goto
    <3>. QED
      BY <1>0, <1>5, <1>6, <1>10, <1>15, <3>1, Zenon
  <2>. QED
    BY <1>7, <1>10, <1>15, <2>1, <2>2, <2>3, <2>4, <2>5, Zenon DEF Abstract!Acquire, owner, line
<1>16. ASSUME NEW self \in Threads, pthread_mutex_trylock(self)
       PROVE  [Abstract!Next]_(Abstract!vars)
  <2>1. pc[self] = "trylock_body"
    BY <1>16, Zenon DEF pthread_mutex_trylock
  <2>2. CASE ReturnEINVAL(self)
    BY <1>14, <2>2, Zenon
  <2>3. CASE /\ m_kind # BadKind /\ Available(self) /\ Take(self) /\ Return(self)
             /\ UNCHANGED <<m_kind, m_waiting, p_nextwaiting>>
    BY <1>15, <2>1, <2>3, Zenon DEF Abstract!Next
  <2>4. CASE /\ Return(self)
             /\ UNCHANGED <<m_count, holds, m_kind, m_waiting, p_nextwaiting>>
    <3>1. pc' = [pc EXCEPT ![self] = "idle"]
      BY <1>0, <2>4, Zenon DEF Return, Goto
    <3>2. Contending' = Contending
      BY <1>0, <1>5, <1>6, <1>10, <2>1, <2>4, <3>1, Zenon
    <3>. QED
      BY <1>11, <2>4, <3>2, Zenon
  <2>. QED
    BY <1>16, <2>2, <2>3, <2>4, Zenon DEF pthread_mutex_trylock
<1>17. ASSUME NEW self \in Threads, pthread_mutex_lock(self)
       PROVE  [Abstract!Next]_(Abstract!vars)
  <2>1. pc[self] = "lock_body"
    BY <1>17, Zenon DEF pthread_mutex_lock
  <2>2. CASE ReturnEINVAL(self)
    BY <1>14, <2>2, Zenon
  <2>3. CASE /\ m_kind # BadKind /\ Available(self) /\ Take(self) /\ Return(self)
             /\ UNCHANGED <<m_kind, m_waiting, p_nextwaiting>>
    BY <1>15, <2>1, <2>3, Zenon DEF Abstract!Next
  <2>4. CASE /\ m_kind # BadKind /\ ~Available(self) /\ Goto(self, "suspend")
             /\ UNCHANGED <<m_count, m_kind, holds>>
    <3>1. WaitersAre(Append(s, self))'
      BY <1>0, <1>1, <1>17, <2>4, EnqueueStep, Zenon
    <3>2. line' = Append(s, self)
      BY <3>1, LineIs, Zenon DEF WaitersAre, line
    <3>3. r = Append(s, self)
      BY <1>4, <3>2, Zenon
    <3>4. Asleep(r) = Asleep(s) \cup {self}
      BY <1>3, <3>3 DEF Asleep
    <3>5. self \in Contending
      BY <1>5, <2>1, <2>4, Zenon
    <3>6. Contending' = Contending \ {self}
      BY <1>0, <1>5, <1>6, <2>4, <3>4, Zenon DEF Goto
    <3>7. owner \notin {NULL, self}
      <4>1. PICK t \in Threads : holds[t] > 0
        BY <1>0, <2>4 DEF Available, Ownership, MutualExclusion
      <4>2. t # self
        <5>1. CASE m_kind = PTHREAD_MUTEX_FAST_NP
          BY <2>1, <4>1, <5>1 DEF LockersHoldNothing
        <5>2. CASE m_kind = PTHREAD_MUTEX_RECURSIVE_NP
          BY <1>0, <2>4, <4>1, <5>2, Zenon DEF Available, Ownership
        <5>. QED
          BY <1>0, <2>4, <5>1, <5>2, Zenon
      <4>. QED
        BY <1>8, <4>1, <4>2, NullAssumption, Zenon
    <3>8. owner' = owner
      BY <2>4, Zenon DEF owner
    <3>9. Abstract!Wait(self)
      BY <1>3, <2>4, <3>2, <3>5, <3>6, <3>7, <3>8, Zenon DEF Abstract!Wait, owner, line
    <3>. QED
      BY <3>9, Zenon DEF Abstract!Next
  <2>. QED
    BY <1>17, <2>2, <2>3, <2>4, Zenon DEF pthread_mutex_lock
<1>18. ASSUME NEW self \in Threads, pthread_mutex_unlock(self)
       PROVE  [Abstract!Next]_(Abstract!vars)
  <2>1. pc[self] = "unlock_body"
    BY <1>18, Zenon DEF pthread_mutex_unlock
  <2>2. CASE ReturnEINVAL(self)
    BY <1>14, <2>2, Zenon
  <2>3. CASE m_kind # BadKind
    <3>1. /\ holds[self] > 0
          /\ owner = self
          /\ m_count = holds[self]
          /\ \A t \in Threads \ {self} : holds[t] = 0
      BY <1>0, <1>8, <2>1, <2>3 DEF Ownership, MutualExclusion
    <3>2. CASE /\ StillLocked
               /\ m_count' = m_count - 1
               /\ holds' = [holds EXCEPT ![self] = @ - 1]
               /\ Return(self)
               /\ UNCHANGED <<m_kind, m_waiting, p_nextwaiting>>
      <4>1. pc' = [pc EXCEPT ![self] = "idle"]
        BY <1>0, <3>2, Zenon DEF Return, Goto
      <4>2. Contending' = Contending
        BY <1>0, <1>5, <1>6, <1>10, <2>1, <3>2, <4>1, Zenon
      <4>3. m_count > 1 /\ holds'[self] > 0
        BY <1>0, <3>1, <3>2 DEF StillLocked
      <4>4. owner' = self
        BY <1>9, <4>3, Zenon
      <4>5. Abstract!Release(self)
        BY <1>10, <3>1, <3>2, <4>2, <4>3, <4>4, Zenon DEF Abstract!Release, owner, line
      <4>. QED
        BY <4>5, Zenon DEF Abstract!Next
    <3>3. CASE /\ ~StillLocked
               /\ m_count' = 0
               /\ holds' = [holds EXCEPT ![self] = @ - 1]
               /\ m_waiting' = dequeue(m_waiting, p_nextwaiting)
               /\ p_nextwaiting' = dequeue_links(m_waiting, p_nextwaiting)
               /\ wake_if_any(self)
               /\ UNCHANGED m_kind
      <4>1. m_count = 1
        BY <1>0, <2>3, <3>1, <3>3 DEF StillLocked, Ownership
      <4>2. owner' = NULL
        BY <1>0, <1>9, <3>1, <3>3, <4>1
      <4>3. CASE s = <<>>
        <5>1. m_waiting.head = NULL
          BY <1>1, <4>3, HoldsHead, Zenon DEF WaitersAre
        <5>2. /\ UNCHANGED <<m_waiting, p_nextwaiting>>
              /\ pc' = [pc EXCEPT ![self] = "idle"]
          BY <1>0, <3>3, <5>1, Zenon
             DEF dequeue, dequeue_links, wake_if_any, Return, Goto
        <5>3. Contending' = Contending
          BY <1>0, <1>5, <1>6, <1>10, <2>1, <3>3, <5>2, Zenon
        <5>. QED
          BY <1>3, <1>10, <3>1, <3>3, <4>1, <4>2, <4>3, <5>2, <5>3
             DEF Abstract!Release, Abstract!Next, owner, line
      <4>4. CASE s # <<>>
        <5>1. WaitersAre(Tail(s))'
          BY <1>0, <1>1, <1>18, <2>3, <3>3, <4>4, DequeueStep, Zenon
        <5>2. line' = Tail(s)
          BY <5>1, LineIs, Zenon DEF WaitersAre, line
        <5>3. /\ m_waiting.head = s[1] /\ s[1] \in Threads /\ Head(s) = s[1]
              /\ Len(s) \in Nat \ {0} /\ Len(Tail(s)) = Len(s) - 1
              /\ \A i \in 1..Len(Tail(s)) : Tail(s)[i] = s[i + 1]
              /\ \A i, j \in 1..Len(s) : s[i] = s[j] => i = j
          BY <1>1, <1>3, <4>4, HoldsHead DEF WaitersAre, Holds
        <5>4. Asleep(Tail(s)) = Asleep(s) \ {s[1]} /\ s[1] \in Asleep(s)
          <6>1. \A i \in 1..Len(s) : i # 1 => i - 1 \in 1..Len(Tail(s)) /\ (i - 1) + 1 = i
            BY <5>3
          <6>2. \A i \in 1..Len(Tail(s)) : i + 1 \in 1..Len(s) /\ i + 1 # 1
            BY <5>3
          <6>. QED
            BY <5>3, <6>1, <6>2 DEF Asleep
        <5>5. pc' = [pc EXCEPT ![self] = "restart"]
          BY <3>3, <5>3, NullAssumption, Zenon DEF wake_if_any, Goto
        <5>6. Contending' = Contending \cup {s[1]}
          BY <1>0, <1>4, <1>5, <1>6, <1>7, <2>1, <2>3, <3>3, <5>2, <5>3, <5>4, <5>5
        <5>. QED
          BY <1>3, <3>1, <3>3, <4>1, <4>2, <4>4, <5>2, <5>3, <5>6
             DEF Abstract!Release, Abstract!Next, owner, line
      <4>. QED
        BY <4>3, <4>4, Zenon
    <3>. QED
      BY <1>18, <2>2, <3>2, <3>3, Zenon DEF pthread_mutex_unlock
  <2>. QED
    BY <1>18, <2>2, <2>3, Zenon DEF pthread_mutex_unlock, StillLocked, BadKind,
       PTHREAD_MUTEX_RECURSIVE_NP
<1>19. CASE UNCHANGED vars
  BY <1>11, <1>19, Zenon DEF vars, mutexVars, signalVars, Contending, OnItsWay, RestartDue
<1>. QED
  BY <1>12, <1>13, <1>16, <1>17, <1>18, <1>19, Zenon DEF Next, MutexStep
-----------------------------------------------------------------------------
\* With no handled signal but restart, the calls of a mutex are the steps of
\* AbstractMutex: it goes to one thread at a time, and each unlock that frees it
\* makes the first thread of the line contend (the loop of pthread_mutex_lock
\* and the dequeue of pthread_mutex_unlock).
THEOREM ImplementsAbstract ==
  ASSUME ~Interrupts, IsFiniteSet(Threads)
  PROVE  Spec => Abstract!Spec
<1>1. Init => LockersHoldNothing
  BY Zenon DEF Init, LockersHoldNothing
<1>2. OwnershipInv /\ LockersHoldNothing /\ [Next]_vars => LockersHoldNothing'
  BY LockersNext, Zenon
<1>3. Init => Abstract!Init
  <2> SUFFICES ASSUME Init PROVE Abstract!Init
    BY Zenon
  <2>1. /\ m_waiting = queue_init
        /\ m_count = 0
        /\ holds = [t \in Threads |-> 0]
        /\ pc = [t \in Threads |-> "idle"]
    BY Zenon DEF Init, MutexInit, pthread_mutex_init
  <2>2. Holds(m_waiting, p_nextwaiting, <<>>)
    BY <2>1 DEF Holds
  <2>3. Line(m_waiting, p_nextwaiting) = <<>>
    BY <2>2, LineIs, Zenon
  <2>4. Holder(holds) = NULL
    BY <2>1 DEF Holder
  <2>5. Contending = {}
    BY <2>1, Zenon DEF Contending, OnItsWay
  <2>. QED
    BY <2>1, <2>3, <2>4, <2>5, Zenon DEF Abstract!Init
<1>4. OwnershipInv /\ WakeupInv(Seq(Threads)) /\ LockersHoldNothing
        /\ OwnershipInv' /\ WakeupInv(Seq(Threads))' /\ [Next]_vars
        => [Abstract!Next]_(Abstract!vars)
  BY RefinementStep, Zenon
<1>. QED
  BY <1>1, <1>2, <1>3, <1>4, WakeupInvariant, PTL DEF Spec, Abstract!Spec

=============================================================================
