--------------------------- MODULE CondVarProofs ---------------------------
(***************************************************************************)
(* The condition variable of src/condvar.c and its mutex, for any number   *)
(* of threads.  Who holds the mutex does not depend on the queues, and is  *)
(* proved whatever the threads do; that no restart goes astray needs the   *)
(* queues intact, and is proved where no wait is timed and no thread is    *)
(* cancelled or handles other signals.                                     *)
(***************************************************************************)
EXTENDS CondVar, QueueProofs

USE NullAssumption, KindsAssumption DEF Pointer

LEMMA Entering ==
  /\ Entries = {"mutex_lock", "mutex_trylock", "mutex_unlock", "mutex_destroy"}
  /\ Inside["mutex_lock"] = "lock_body" /\ Inside["mutex_unlock"] = "unlock_body"
  BY Zenon DEF Entries, Inside
-----------------------------------------------------------------------------
(***************************************************************************)
(* Who holds the mutex.                                                    *)
(***************************************************************************)

\* Where t is, where its mutex call returns to, and what it holds.
HoldsAt(t) ==
  /\ pc[t] \notin {"mutex_trylock", "trylock_body", "mutex_destroy", "destroy_body"}
  /\ pc[t] \in {"mutex_lock", "lock_body", "suspend"} => ret[t] \in {"idle", "cw_check", "exit"}
  /\ pc[t] \in {"mutex_unlock", "unlock_body", "restart"} =>
       ret[t] \in {"idle", "cw_suspend", "tw_setup", "exited"}
  /\ pc[t] \in {"mutex_unlock", "unlock_body", "cond_wait", "cond_timedwait", "cw_check", "exit"} =>
       holds[t] > 0
  /\ m_kind = BadKind =>
       ret[t] = "idle" /\ pc[t] \notin {"cw_suspend", "cw_sleep", "tw_setup", "tw_sleep", "tw_awake"}

Owned ==
  /\ m_count \in Nat /\ holds \in [Threads -> Nat]
  /\ MutualExclusion
  /\ m_kind = PTHREAD_MUTEX_RECURSIVE_NP => \A t \in Threads : holds[t] > 0 => m_owner = t
  /\ m_kind = PTHREAD_MUTEX_FAST_NP => m_count <= 1
  /\ m_kind = BadKind => m_count = 0

OwnInv ==
  /\ DOMAIN pc = Threads /\ DOMAIN ret = Threads /\ m_kind \in Kinds
  /\ Owned
  /\ \A t \in Threads : HoldsAt(t)

LEMMA OwnInvInit == Init => OwnInv
  BY DEF Init, MutexInit, pthread_mutex_init, OwnInv, Owned, MutualExclusion, HoldsAt

LEMMA TakeKeeps ==
  ASSUME OwnInv, NEW self \in Threads, m_kind # BadKind, Available(self), Take(self),
         UNCHANGED m_kind
  PROVE  Owned' /\ holds'[self] > 0 /\ \A t \in Threads \ {self} : holds'[t] = holds[t]
<1> USE DEF MutualExclusion, BadKind, PTHREAD_MUTEX_RECURSIVE_NP, PTHREAD_MUTEX_FAST_NP
<1>1. m_count = holds[self] /\ \A t \in Threads \ {self} : holds[t] = 0
  BY DEF OwnInv, Owned, Available
<1>2. /\ holds'[self] = m_count + 1 /\ m_count' = m_count + 1 /\ m_count \in Nat
      /\ \A t \in Threads \ {self} : holds'[t] = 0
      /\ holds' \in [Threads -> Nat]
  BY <1>1 DEF OwnInv, Owned, Take
<1>3. m_kind = PTHREAD_MUTEX_FAST_NP => m_count = 0
  BY Zenon DEF Available
<1> QED
  BY <1>1, <1>2, <1>3 DEF OwnInv, Owned, Take

LEMMA GiveKeeps ==
  ASSUME OwnInv, NEW self \in Threads, pc[self] = "unlock_body", m_kind # BadKind,
         holds' = [holds EXCEPT ![self] = @ - 1], UNCHANGED <<m_kind, m_owner>>,
         m_count' = IF StillLocked THEN m_count - 1 ELSE 0
  PROVE  Owned' /\ \A t \in Threads \ {self} : holds'[t] = holds[t]
<1> USE DEF MutualExclusion, BadKind, PTHREAD_MUTEX_RECURSIVE_NP, PTHREAD_MUTEX_FAST_NP
<1>1. /\ holds[self] > 0 /\ m_count = holds[self] /\ holds[self] \in Nat
      /\ \A t \in Threads \ {self} : holds[t] = 0
  BY DEF OwnInv, Owned, HoldsAt
<1>2. m_count' = holds[self] - 1
  BY <1>1 DEF OwnInv, Owned, StillLocked
<1>3. /\ holds'[self] = holds[self] - 1 /\ \A t \in Threads \ {self} : holds'[t] = 0
      /\ holds' \in [Threads -> Nat]
  BY <1>1 DEF OwnInv, Owned
<1> QED
  BY <1>1, <1>2, <1>3 DEF OwnInv, Owned

\* It is enough to look at the thread that takes the step.
LEMMA OwnFrame ==
  ASSUME OwnInv, NEW self \in Threads, Owned', HoldsAt(self)',
         DOMAIN pc' = Threads, DOMAIN ret' = Threads, UNCHANGED m_kind,
         \A t \in Threads \ {self} :
           pc'[t] = pc[t] /\ ret'[t] = ret[t] /\ holds'[t] = holds[t]
  PROVE  OwnInv'
<1>1. \A t \in Threads \ {self} : HoldsAt(t)'
  BY Zenon DEF OwnInv, HoldsAt
<1> QED
  BY <1>1, Zenon DEF OwnInv

\* The functions of the mutex.
LEMMA OwnMutex ==
  ASSUME OwnInv, NEW self \in Threads, MutexStep(self)
  PROVE  OwnInv'
<1> USE DEF Goto, Return, mutexVars, BadKind, PTHREAD_MUTEX_RECURSIVE_NP, PTHREAD_MUTEX_FAST_NP
<1>0. /\ DOMAIN pc = Threads /\ DOMAIN ret = Threads /\ Owned /\ HoldsAt(self)
      /\ pc[self] \notin {"trylock_body", "destroy_body"}
      /\ m_kind = BadKind => m_count = 0 /\ \A t \in Threads : holds[t] = 0
  BY DEF OwnInv, HoldsAt, Owned, MutualExclusion
<1>1. ASSUME UNCHANGED <<m_count, m_owner, m_kind, holds>> PROVE Owned'
  BY <1>0, <1>1, Zenon DEF Owned, MutualExclusion
<1>2. CASE acquire(self)
  BY <1>0, <1>1, <1>2, Entering, OwnFrame, Zenon DEF acquire, HoldsAt
<1>3. CASE ReturnEINVAL(self) /\ pc[self] \in {"lock_body", "unlock_body"}
  BY <1>0, <1>1, <1>3, OwnFrame, Zenon DEF ReturnEINVAL, HoldsAt
<1>4. CASE pthread_mutex_lock(self) /\ ~ReturnEINVAL(self)
  <2>1. CASE Available(self) /\ Take(self) /\ Return(self)
    <3>1. m_kind # BadKind /\ UNCHANGED <<m_kind, ret>> /\ pc[self] = "lock_body"
      BY <1>4, <2>1, Zenon DEF pthread_mutex_lock
    <3>2. Owned' /\ holds'[self] > 0 /\ \A t \in Threads \ {self} : holds'[t] = holds[t]
      BY <2>1, <3>1, TakeKeeps, Zenon
    <3>3. HoldsAt(self)'
      BY <1>0, <2>1, <3>1, <3>2, Zenon DEF HoldsAt
    <3> QED
      BY <1>0, <2>1, <3>1, <3>2, <3>3, OwnFrame, Zenon
  <2>2. CASE Goto(self, "suspend") /\ UNCHANGED <<m_count, m_owner, m_kind, holds, ret>>
    BY <1>0, <1>1, <1>4, <2>2, OwnFrame, Zenon DEF HoldsAt, pthread_mutex_lock
  <2> QED
    BY <1>4, <2>1, <2>2, Zenon DEF pthread_mutex_lock
<1>5. CASE pthread_mutex_unlock(self) /\ ~ReturnEINVAL(self)
  <2>1. /\ pc[self] = "unlock_body" /\ m_kind # BadKind
        /\ holds' = [holds EXCEPT ![self] = @ - 1] /\ UNCHANGED <<m_kind, m_owner, ret>>
        /\ m_count' = IF StillLocked THEN m_count - 1 ELSE 0
        /\ pc' = [pc EXCEPT ![self] = ret[self]] \/ pc' = [pc EXCEPT ![self] = "restart"]
    BY <1>5, Zenon DEF pthread_mutex_unlock, StillLocked, wake_if_any
  <2>2. Owned' /\ \A t \in Threads \ {self} : holds'[t] = holds[t]
    BY <2>1, GiveKeeps, Zenon
  <2>3. HoldsAt(self)'
    BY <1>0, <2>1, Zenon DEF HoldsAt
  <2> QED
    BY <1>0, <2>1, <2>2, <2>3, OwnFrame, Zenon
<1>6. CASE pthread_mutex_lock_retry(self) \/ pthread_mutex_unlock_restart(self)
  BY <1>0, <1>1, <1>6, OwnFrame, Zenon DEF pthread_mutex_lock_retry, pthread_mutex_unlock_restart, HoldsAt
<1> QED
  BY <1>0, <1>2, <1>3, <1>4, <1>5, <1>6, Zenon
     DEF MutexStep, pthread_mutex_lock, pthread_mutex_unlock, pthread_mutex_trylock, pthread_mutex_destroy

\* The functions of the condition, and the calls of the program, leave the mutex
\* to those of the mutex.
LEMMA OwnCond ==
  ASSUME OwnInv, NEW self \in Threads, CondStep(self) \/ ProgramCall(self)
  PROVE  OwnInv'
<1> USE DEF Goto, Enter, mutexVars, otherMutexVars
<1>0. /\ DOMAIN pc = Threads /\ DOMAIN ret = Threads /\ Owned /\ HoldsAt(self)
      /\ m_kind = BadKind => \A t \in Threads : holds[t] = 0
  BY DEF OwnInv, HoldsAt, Owned, MutualExclusion
<1>1. UNCHANGED <<m_count, m_owner, m_kind, holds>>
  BY Zenon DEF CondStep, ProgramCall, CallLock, CallUnlock, CallWait, CallTimedwait, CallSignal,
     CallBroadcast, CallCancel, Call, pthread_cond_wait, pthread_cond_wait_suspend,
     pthread_cond_wait_resume, pthread_cond_wait_return, pthread_cond_timedwait,
     pthread_cond_timedwait_setup, pthread_cond_timedwait_wake, pthread_cond_timedwait_return,
     pthread_cond_signal, restart_waiter, pthread_cond_broadcast, pthread_cond_broadcast_next,
     pthread_exit, sigcancel_ignored
<1>2. Owned'
  BY <1>0, <1>1, Zenon DEF Owned, MutualExclusion
<1>3. ASSUME \E entry, label :
               /\ pc' = [pc EXCEPT ![self] = entry]
               /\ ret' = ret \/ ret' = [ret EXCEPT ![self] = label],
             HoldsAt(self)'
      PROVE  OwnInv'
  BY <1>0, <1>1, <1>2, <1>3, OwnFrame, Zenon
<1>4. CASE \E entry : Call(self, entry) /\ entry \in {"mutex_lock", "cond_signal", "cond_broadcast"}
  BY <1>0, <1>1, <1>3, <1>4, Zenon DEF Call, HoldsAt
<1>5. CASE holds[self] > 0 /\ \E entry : Call(self, entry)
              /\ entry \in {"mutex_unlock", "cond_wait", "cond_timedwait"}
  BY <1>0, <1>1, <1>3, <1>5, Zenon DEF Call, HoldsAt
<1>6. CASE CallCancel(self)
  BY <1>0, <1>1, <1>2, <1>6, OwnFrame, Zenon DEF CallCancel, HoldsAt
<1>7. CASE pthread_cond_wait(self) \/ pthread_cond_timedwait(self)
  BY <1>0, <1>1, <1>3, <1>7 DEF pthread_cond_wait, pthread_cond_timedwait, HoldsAt
<1>8. CASE pthread_cond_wait_suspend(self) \/ pthread_cond_wait_resume(self)
  BY <1>0, <1>1, <1>3, <1>8, Zenon DEF pthread_cond_wait_suspend, pthread_cond_wait_resume, HoldsAt
<1>9. CASE pthread_cond_wait_return(self)
  BY <1>0, <1>1, <1>3, <1>9 DEF pthread_cond_wait_return, remove_self, HoldsAt
<1>10. CASE pthread_cond_timedwait_setup(self) \/ pthread_cond_timedwait_wake(self)
  BY <1>0, <1>1, <1>3, <1>10, Zenon DEF pthread_cond_timedwait_setup, pthread_cond_timedwait_wake, HoldsAt
<1>11. CASE pthread_cond_timedwait_return(self)
  BY <1>0, <1>1, <1>3, <1>11, Zenon DEF pthread_cond_timedwait_return, remove_self, HoldsAt
<1>12. CASE pthread_cond_signal(self) \/ restart_waiter(self) \/ pthread_cond_broadcast(self)
              \/ pthread_cond_broadcast_next(self)
  BY <1>0, <1>1, <1>3, <1>12, Zenon DEF pthread_cond_signal, restart_waiter, pthread_cond_broadcast,
     pthread_cond_broadcast_next, HoldsAt
<1>13. CASE pthread_exit(self)
  <2>1. /\ pc[self] = "exit" /\ pc' = [pc EXCEPT ![self] = "mutex_unlock"]
        /\ ret' = [ret EXCEPT ![self] = "exited"]
    BY <1>13, Zenon DEF pthread_exit
  <2>2. holds[self] > 0 /\ m_kind # BadKind
    BY <1>0, <2>1 DEF HoldsAt
  <2> QED
    BY <1>0, <1>1, <1>3, <2>1, <2>2, Zenon DEF HoldsAt
<1>14. CASE sigcancel_ignored(self)
  BY <1>0, <1>1, <1>2, <1>14, OwnFrame, Zenon DEF sigcancel_ignored, HoldsAt
<1> QED
  BY <1>4, <1>5, <1>6, <1>7, <1>8, <1>9, <1>10, <1>11, <1>12, <1>13, <1>14, Zenon
     DEF CondStep, ProgramCall, CallLock, CallUnlock, CallWait, CallTimedwait, CallSignal, CallBroadcast

LEMMA OwnInvariant == Spec => []OwnInv
<1>1. OwnInv /\ [Next]_vars => OwnInv'
  <2>1. OwnInv /\ UNCHANGED vars => OwnInv'
    BY Zenon DEF vars, mutexVars, OwnInv, Owned, MutualExclusion, HoldsAt
  <2> QED
    BY <2>1, OwnMutex, OwnCond, Zenon DEF Next, LibraryStep
<1> QED
  BY <1>1, OwnInvInit, PTL DEF Spec

\* At most one thread holds the mutex of a condition variable, and m_count says
\* how often, whatever the program does: timed waits, cancellations and other
\* signals, which can break the queues, do not give the mutex to two threads.
THEOREM MutualExclusionHolds == Spec => []MutualExclusion
<1>1. OwnInv => MutualExclusion
  BY Zenon DEF OwnInv, Owned
<1> QED
  BY <1>1, OwnInvariant, PTL

\* A thread cancelled in a wait has the mutex when its cleanup handlers run, and
\* one that tests for it at the end of pthread_cond_wait.
THEOREM CleanupHoldsMutexHolds == Spec => []CleanupHoldsMutex
<1>1. OwnInv => CleanupHoldsMutex
  BY Zenon DEF OwnInv, Owned, MutualExclusion, HoldsAt, CleanupHoldsMutex
<1> QED
  BY <1>1, OwnInvariant, PTL
-----------------------------------------------------------------------------
(***************************************************************************)
(* The queues and the restarts.  The queues are a family: that of the      *)
(* mutex, that of the condition (named NULL) and the private list of each  *)
(* thread that broadcasts.                                                 *)
(***************************************************************************)
theMutex == CHOOSE p : p \notin Pointer
Places == Pointer \cup {theMutex}

Queues == [p \in Places |-> IF p = theMutex THEN m_waiting
                            ELSE IF p = NULL THEN c_waiting ELSE tosignal[p]]

LEMMA TheMutex == theMutex \notin Pointer
  BY NoSetContainsEverything, Zenon DEF theMutex

Sleeping(t) == Waiting(t) \/ pc[t] = "suspend"

\* u has taken t out of a queue and not yet restarted it.
Owes(u, t) == (pc[u] = "restart" /\ th[u] = t) \/ toRestart[u] = t

Broadcasting(u) == pc[u] \in {"broadcast_loop", "broadcast_restart"}

\* Where a thread is, when no wait is timed and nobody is cancelled.
At(t) ==
  /\ pc[t] \notin {"mutex_trylock", "trylock_body", "mutex_destroy", "destroy_body",
                   "cond_timedwait", "tw_setup", "tw_sleep", "tw_awake", "hung", "exit", "exited"}
  /\ ret[t] \in {"idle", "cw_suspend", "cw_check"}
  /\ pc[t] \in {"mutex_lock", "lock_body", "suspend"} => ret[t] # "cw_suspend"
  /\ pc[t] \in {"mutex_unlock", "unlock_body", "restart"} => ret[t] # "cw_check"
  /\ pc[t] = "restart" => th[t] # NULL
  /\ toRestart[t] # NULL <=> pc[t] \in {"signal_restart", "broadcast_restart"}

WakeTyped ==
  /\ DOMAIN pc = Threads /\ DOMAIN ret = Threads
  /\ c_waiting \in QueueType /\ tosignal \in [Threads -> QueueType]
  /\ m_waiting \in QueueType /\ p_nextwaiting \in LinksType
  /\ th \in [Threads -> Pointer] /\ toRestart \in [Threads -> Pointer]
  /\ sigpending \subseteq Threads /\ sigcancel = {}
  /\ \A t \in Threads : ~p_canceled[t]
  /\ \A t \in Threads : At(t)

\* A thread has one restart coming at most.
OneRestart ==
  \A u, t \in Threads :
    Owes(u, t) => t \notin sigpending /\ \A v \in Threads : Owes(v, t) => v = u

\* A thread that sleeps is in a queue, in the one that belongs to its sleep, or
\* has a restart coming, and no other thread has one.
QueuesHold(S) ==
  /\ DOMAIN S = Places
  /\ Family(Places, Queues, p_nextwaiting, S)
  /\ \A t \in Members(S[theMutex]) : pc[t] = "suspend"
  /\ \A p \in Pointer : \A t \in Members(S[p]) : Waiting(t)
  /\ \A t \in Threads : RestartDue(t) <=> Sleeping(t) /\ ~Queued(Places, S, t)
  /\ \A u \in Threads : S[u] # <<>> => Broadcasting(u)

WakeInv == WakeTyped /\ OneRestart /\ \E S : QueuesHold(S)

LEMMA QueuesEnqueue ==
  ASSUME NEW S, WakeTyped, QueuesHold(S), NEW p \in Places, NEW t \in Threads, ~Queued(Places, S, t),
         Changes(Places, Queues, Queues', p, enqueue(Queues[p], t)),
         p_nextwaiting' = enqueue_links(Queues[p], p_nextwaiting, t),
         NEW T, Changes(Places, S, T, p, Append(S[p], t))
  PROVE  /\ Family(Places, Queues', p_nextwaiting', T)
         /\ Members(T[p]) = Members(S[p]) \cup {t}
<1>1. p_nextwaiting \in LinksType
  BY Zenon DEF WakeTyped
<1>2. Family(Places, Queues, p_nextwaiting, S)
  BY Zenon DEF QueuesHold
<1>3. Family(Places, Queues', enqueue_links(Queues[p], p_nextwaiting, t), T)
  BY <1>1, <1>2, FamilyEnqueue, Zenon
<1>4. Members(T[p]) = Members(S[p]) \cup {t}
  <2>1. S[p] \in Seq(Threads) /\ T[p] = Append(S[p], t)
    BY <1>2, MembersType, Zenon DEF Family, Changes
  <2> QED
    BY <2>1, MembersAppend, Zenon
<1> QED
  BY <1>3, <1>4, Zenon

LEMMA QueuesDequeue ==
  ASSUME NEW S, WakeTyped, QueuesHold(S), NEW p \in Places, S[p] # <<>>,
         Changes(Places, Queues, Queues', p, dequeue(Queues[p], p_nextwaiting)),
         p_nextwaiting' = dequeue_links(Queues[p], p_nextwaiting),
         NEW T, Changes(Places, S, T, p, Tail(S[p]))
  PROVE  /\ Family(Places, Queues', p_nextwaiting', T)
         /\ Queues[p].head = S[p][1] /\ S[p][1] \in Members(S[p])
         /\ Members(T[p]) = Members(S[p]) \ {S[p][1]}
<1>1. p_nextwaiting \in LinksType
  BY Zenon DEF WakeTyped
<1>2. Family(Places, Queues, p_nextwaiting, S)
  BY Zenon DEF QueuesHold
<1>3. Family(Places, Queues', dequeue_links(Queues[p], p_nextwaiting), T)
  BY <1>1, <1>2, FamilyDequeue, Zenon
<1>4. Holds(Queues[p], p_nextwaiting, S[p]) /\ T[p] = Tail(S[p])
  BY <1>2, Zenon DEF Family, Changes
<1>5. Queues[p].head = S[p][1]
  BY <1>4, HoldsHead, Zenon
<1>6. S[p][1] \in Members(S[p]) /\ Members(T[p]) = Members(S[p]) \ {S[p][1]}
  BY <1>4, MembersTail, Zenon
<1> QED
  BY <1>3, <1>5, <1>6, Zenon

LEMMA DueIs == \A t : RestartDue(t) <=> t \in sigpending \/ \E u \in Threads : Owes(u, t)
  BY Zenon DEF RestartDue, Owes

LEMMA DueIsNext == \A t : RestartDue(t)' <=> t \in sigpending' \/ \E u \in Threads : Owes(u, t)'
  BY Zenon DEF RestartDue, Owes

\* A step that moves no thread in or out of a queue, or of its sleep.
LEMMA QuietKeeps ==
  ASSUME OneRestart, NEW S, QueuesHold(S),
         UNCHANGED <<m_waiting, c_waiting, tosignal, p_nextwaiting, sigpending>>,
         \A u, t \in Threads : Owes(u, t)' <=> Owes(u, t),
         \A t \in Threads : Waiting(t)' <=> Waiting(t),
         \A t \in Threads : pc'[t] = "suspend" <=> pc[t] = "suspend",
         \A u \in Threads : S[u] # <<>> => Broadcasting(u)'
  PROVE  OneRestart' /\ QueuesHold(S)'
<1>1. OneRestart'
  BY Zenon DEF OneRestart
<1>2. Queues' = Queues
  BY Zenon DEF Queues
<1>3. \A p \in Places : Members(S[p]) \subseteq Threads
  BY MembersType, Zenon DEF QueuesHold, Family
<1>4. \A t \in Threads : RestartDue(t)' <=> RestartDue(t)
  BY DueIs, DueIsNext, Zenon
<1>5. Family(Places, Queues', p_nextwaiting', S)
  BY <1>2, Zenon DEF QueuesHold
<1>6. \A t \in Threads : RestartDue(t)' <=> Sleeping(t)' /\ ~Queued(Places, S, t)
  BY <1>4, Zenon DEF QueuesHold, Sleeping
<1>7. /\ \A t \in Members(S[theMutex]) : pc'[t] = "suspend"
      /\ \A p \in Pointer : \A t \in Members(S[p]) : Waiting(t)'
  BY <1>3, Zenon DEF QueuesHold, Places
<1> QED
  BY <1>1, <1>5, <1>6, <1>7, Zenon DEF QueuesHold

\* self falls asleep, at the end of the queue p.
LEMMA EnqueueKeeps ==
  ASSUME WakeTyped, OneRestart, NEW S, QueuesHold(S), NEW self \in Threads, NEW p \in {theMutex, NULL},
         ~Sleeping(self), IF p = theMutex THEN pc'[self] = "suspend" ELSE Waiting(self)',
         m_waiting' = IF p = theMutex THEN enqueue(m_waiting, self) ELSE m_waiting,
         c_waiting' = IF p = NULL THEN enqueue(c_waiting, self) ELSE c_waiting,
         p_nextwaiting' = enqueue_links(Queues[p], p_nextwaiting, self),
         UNCHANGED <<tosignal, sigpending>>,
         \A u, t \in Threads : Owes(u, t)' <=> Owes(u, t),
         \A t \in Threads \ {self} : (Waiting(t)' <=> Waiting(t)) /\ pc'[t] = pc[t],
         \A u \in Threads : S[u] # <<>> => Broadcasting(u)'
  PROVE  OneRestart' /\ \E T : QueuesHold(T)'
<1> DEFINE T == [S EXCEPT ![p] = Append(@, self)]
<1>1. OneRestart'
  BY Zenon DEF OneRestart
<1>2. p \in Places /\ theMutex # NULL /\ theMutex \notin Threads
  BY TheMutex, Zenon DEF Places
<1>3. \A r \in Places : Queues'[r] = IF r = p THEN enqueue(Queues[p], self) ELSE Queues[r]
  BY <1>2, Zenon DEF Queues, Places
<1>4. \A r \in Places : Members(S[r]) \subseteq Threads
  BY MembersType, Zenon DEF QueuesHold, Family
<1>5. ~Queued(Places, S, self)
  BY <1>2, Zenon DEF QueuesHold, Queued, Places, Sleeping
<1>6. DOMAIN T = Places /\ \A r \in Places : T[r] = IF r = p THEN Append(S[p], self) ELSE S[r]
  BY <1>2, Zenon DEF QueuesHold
<1> HIDE DEF T
<1>7. /\ Family(Places, Queues', p_nextwaiting', T)
      /\ Members(T[p]) = Members(S[p]) \cup {self}
  <2>1. Changes(Places, Queues, Queues', p, enqueue(Queues[p], self)) /\ Changes(Places, S, T, p, Append(S[p], self))
    BY <1>3, <1>6, Zenon DEF Changes
  <2> QED
    BY <1>2, <1>5, <2>1, QueuesEnqueue
<1>8. \A t \in Threads : RestartDue(t)' <=> RestartDue(t)
  BY DueIs, DueIsNext, Zenon
<1>9. \A t \in Threads : Queued(Places, T, t) <=> Queued(Places, S, t) \/ t = self
  BY <1>2, <1>6, <1>7, Zenon DEF Queued
<1>10. \A t \in Threads : RestartDue(t)' <=> Sleeping(t)' /\ ~Queued(Places, T, t)
  BY <1>8, <1>9, Zenon DEF QueuesHold, Sleeping
<1>11. \A t \in Members(T[theMutex]) : pc'[t] = "suspend"
  BY <1>2, <1>4, <1>5, <1>6, <1>7 DEF QueuesHold, Queued, Places
<1>12. \A r \in Pointer : \A t \in Members(T[r]) : Waiting(t)'
  BY <1>2, <1>4, <1>5, <1>6, <1>7 DEF QueuesHold, Queued, Places
<1>13. \A u \in Threads : T[u] # <<>> => Broadcasting(u)'
  BY <1>2, <1>6, Zenon DEF Places
<1> QED
  BY <1>1, <1>6, <1>7, <1>10, <1>11, <1>12, <1>13, Zenon DEF QueuesHold

\* self takes the first thread of the queue p, and owes it a restart.
LEMMA DequeueKeeps ==
  ASSUME WakeTyped, OneRestart, NEW S, QueuesHold(S), NEW self \in Threads, NEW p \in Places,
         S[p] # <<>>,
         \A r \in Places : Queues'[r] = IF r = p THEN dequeue(Queues[p], p_nextwaiting) ELSE Queues[r],
         p_nextwaiting' = dequeue_links(Queues[p], p_nextwaiting), UNCHANGED sigpending,
         \A u, t \in Threads : Owes(u, t)' <=> Owes(u, t) \/ (u = self /\ t = Queues[p].head),
         \A t \in Threads : Waiting(t)' <=> Waiting(t),
         \A t \in Threads : pc'[t] = "suspend" <=> pc[t] = "suspend",
         \A u \in Threads : S[u] # <<>> => Broadcasting(u)'
  PROVE  OneRestart' /\ \E T : QueuesHold(T)'
<1> DEFINE T == [S EXCEPT ![p] = Tail(@)]
           first == Queues[p].head
<1>2. theMutex # NULL /\ theMutex \notin Threads
  BY TheMutex, Zenon
<1>4. \A r \in Places : Members(S[r]) \subseteq Threads
  BY MembersType, Zenon DEF QueuesHold, Family
<1>6. DOMAIN T = Places /\ \A r \in Places : T[r] = IF r = p THEN Tail(S[p]) ELSE S[r]
  BY Zenon DEF QueuesHold
<1> HIDE DEF T
<1>7. /\ Family(Places, Queues', p_nextwaiting', T)
      /\ first = S[p][1] /\ first \in Members(S[p])
      /\ Members(T[p]) = Members(S[p]) \ {first}
  <2>1. /\ Changes(Places, Queues, Queues', p, dequeue(Queues[p], p_nextwaiting))
        /\ Changes(Places, S, T, p, Tail(S[p]))
    BY <1>6, Zenon DEF Changes
  <2> QED
    BY <2>1, QueuesDequeue
<1>5. first \in Threads /\ Queued(Places, S, first) /\ Sleeping(first) /\ ~RestartDue(first)
  BY <1>4, <1>7, Zenon DEF QueuesHold, Queued, Places, Sleeping
<1> HIDE DEF first
<1>1. OneRestart'
  BY <1>5, DueIs DEF OneRestart, first
<1>8. \A t \in Threads : RestartDue(t)' <=> RestartDue(t) \/ t = first
  BY DueIs, DueIsNext, Zenon DEF first
<1>9. \A t \in Threads : Queued(Places, T, t) <=> Queued(Places, S, t) /\ t # first
  BY <1>6, <1>7 DEF Queued, QueuesHold, Family
<1>10. \A t \in Threads : RestartDue(t)' <=> Sleeping(t)' /\ ~Queued(Places, T, t)
  BY <1>5, <1>8, <1>9, Zenon DEF QueuesHold, Sleeping
<1>11. \A t \in Members(T[theMutex]) : pc'[t] = "suspend"
  BY <1>2, <1>4, <1>6, <1>7, Zenon DEF QueuesHold, Places
<1>12. \A r \in Pointer : \A t \in Members(T[r]) : Waiting(t)'
  BY <1>2, <1>4, <1>6, <1>7, Zenon DEF QueuesHold, Places
<1>13. \A u \in Threads : T[u] # <<>> => Broadcasting(u)'
  BY <1>6, Zenon DEF Places
<1> QED
  BY <1>1, <1>6, <1>7, <1>10, <1>11, <1>12, <1>13, Zenon DEF QueuesHold

\* self restarts the thread it owes a restart.
LEMMA RestartKeeps ==
  ASSUME WakeTyped, OneRestart, NEW S, QueuesHold(S), NEW self \in Threads, NEW target \in Threads,
         Owes(self, target), sigpending' = sigpending \cup {target},
         UNCHANGED <<m_waiting, c_waiting, tosignal, p_nextwaiting>>,
         \A u, t \in Threads : Owes(u, t)' <=> Owes(u, t) /\ u # self,
         \A t \in Threads : Waiting(t)' <=> Waiting(t),
         \A t \in Threads : pc'[t] = "suspend" <=> pc[t] = "suspend",
         \A u \in Threads : S[u] # <<>> => Broadcasting(u)',
         \A t \in Threads : Owes(self, t) => t = target
  PROVE  OneRestart' /\ QueuesHold(S)'
<1>1. OneRestart'
  BY Zenon DEF OneRestart
<1>2. Queues' = Queues
  BY Zenon DEF Queues
<1>3. \A p \in Places : Members(S[p]) \subseteq Threads
  BY MembersType, Zenon DEF QueuesHold, Family
<1>4. \A t \in Threads : RestartDue(t)' <=> RestartDue(t)
  BY DueIs, DueIsNext DEF OneRestart
<1>5. Family(Places, Queues', p_nextwaiting', S)
  BY <1>2, Zenon DEF QueuesHold
<1>6. \A t \in Threads : RestartDue(t)' <=> Sleeping(t)' /\ ~Queued(Places, S, t)
  BY <1>4, Zenon DEF QueuesHold, Sleeping
<1>7. /\ \A t \in Members(S[theMutex]) : pc'[t] = "suspend"
      /\ \A p \in Pointer : \A t \in Members(S[p]) : Waiting(t)'
  BY <1>3, Zenon DEF QueuesHold, Places
<1> QED
  BY <1>1, <1>5, <1>6, <1>7, Zenon DEF QueuesHold

\* The restart wakes self.
LEMMA WakeKeeps ==
  ASSUME WakeTyped, OneRestart, NEW S, QueuesHold(S), NEW self \in Threads,
         self \in sigpending, sigpending' = sigpending \ {self}, ~Sleeping(self)',
         UNCHANGED <<m_waiting, c_waiting, tosignal, p_nextwaiting>>,
         \A u, t \in Threads : Owes(u, t)' <=> Owes(u, t),
         \A t \in Threads \ {self} : (Waiting(t)' <=> Waiting(t)) /\ pc'[t] = pc[t],
         \A u \in Threads : S[u] # <<>> => Broadcasting(u)'
  PROVE  OneRestart' /\ QueuesHold(S)'
<1>1. OneRestart'
  BY Zenon DEF OneRestart
<1>2. Queues' = Queues
  BY Zenon DEF Queues
<1>3. \A p \in Places : Members(S[p]) \subseteq Threads
  BY MembersType, Zenon DEF QueuesHold, Family
<1>8. RestartDue(self) /\ ~Queued(Places, S, self)
  BY DueIs, Zenon DEF QueuesHold
<1>9. ~RestartDue(self)'
  BY DueIs, DueIsNext, Zenon DEF OneRestart
<1>4. \A t \in Threads \ {self} : RestartDue(t)' <=> RestartDue(t)
  BY DueIs, DueIsNext, Zenon
<1>5. Family(Places, Queues', p_nextwaiting', S)
  BY <1>2, Zenon DEF QueuesHold
<1>6. \A t \in Threads : RestartDue(t)' <=> Sleeping(t)' /\ ~Queued(Places, S, t)
  BY <1>4, <1>8, <1>9, Zenon DEF QueuesHold, Sleeping
<1>7. /\ \A t \in Members(S[theMutex]) : pc'[t] = "suspend"
      /\ \A p \in Pointer : \A t \in Members(S[p]) : Waiting(t)'
  BY <1>3, <1>8, Zenon DEF QueuesHold, Places, Queued
<1> QED
  BY <1>1, <1>5, <1>6, <1>7, Zenon DEF QueuesHold

\* pthread_cond_broadcast makes the queue of the condition its private list.
LEMMA BroadcastKeeps ==
  ASSUME WakeTyped, OneRestart, NEW S, QueuesHold(S), NEW self \in Threads, S[self] = <<>>,
         tosignal' = [tosignal EXCEPT ![self] = c_waiting], c_waiting' = queue_init,
         UNCHANGED <<m_waiting, p_nextwaiting, sigpending>>,
         \A u, t \in Threads : Owes(u, t)' <=> Owes(u, t),
         \A t \in Threads : Waiting(t)' <=> Waiting(t),
         \A t \in Threads : pc'[t] = "suspend" <=> pc[t] = "suspend",
         Broadcasting(self)', \A u \in Threads \ {self} : Broadcasting(u)' <=> Broadcasting(u)
  PROVE  OneRestart' /\ \E T : QueuesHold(T)'
<1> DEFINE T == [S EXCEPT ![self] = S[NULL], ![NULL] = <<>>]
<1>1. OneRestart'
  BY Zenon DEF OneRestart
<1>2. theMutex # NULL /\ theMutex \notin Threads /\ NULL \in Places /\ self \in Places /\ self # NULL
  BY TheMutex, Zenon DEF Places
<1>3. \A r \in Places : Queues'[r] = IF r = NULL THEN queue_init
                                     ELSE IF r = self THEN Queues[NULL] ELSE Queues[r]
  BY <1>2, Zenon DEF Queues, Places, WakeTyped
<1>4. \A r \in Places : Members(S[r]) \subseteq Threads
  BY MembersType, Zenon DEF QueuesHold, Family
<1>5. DOMAIN T = Places /\ \A r \in Places : T[r] = IF r = NULL THEN <<>>
                                                    ELSE IF r = self THEN S[NULL] ELSE S[r]
  BY <1>2, Zenon DEF QueuesHold
<1> HIDE DEF T
<1>6. Members(<<>>) = {}
  BY DEF Members
<1>7. \A r \in Places : Members(T[r]) = IF r = NULL THEN {}
                                        ELSE IF r = self THEN Members(S[NULL]) ELSE Members(S[r])
  BY <1>5, <1>6, Zenon
<1>8. Holds(queue_init, p_nextwaiting', <<>>)
  BY DEF Holds
<1>9. \A t \in Threads : Queued(Places, T, t) <=> Queued(Places, S, t)
  BY <1>2, <1>6, <1>7, Zenon DEF Queued
<1>10. Family(Places, Queues', p_nextwaiting', T)
  <2>1. \A r \in Places : Holds(Queues'[r], p_nextwaiting', T[r])
    BY <1>2, <1>3, <1>5, <1>8, Zenon DEF QueuesHold, Family
  <2>2. \A r, v \in Places : r # v => Members(T[r]) \cap Members(T[v]) = {}
    BY <1>2, <1>7 DEF QueuesHold, Family
  <2> QED
    BY <1>9, <2>1, <2>2, Zenon DEF QueuesHold, Family
<1>11. \A t \in Threads : RestartDue(t)' <=> RestartDue(t)
  BY DueIs, DueIsNext, Zenon
<1>12. \A t \in Threads : RestartDue(t)' <=> Sleeping(t)' /\ ~Queued(Places, T, t)
  BY <1>9, <1>11, Zenon DEF QueuesHold, Sleeping
<1>13. \A t \in Members(T[theMutex]) : pc'[t] = "suspend"
  BY <1>2, <1>4, <1>7, Zenon DEF QueuesHold, Places
<1>14. \A r \in Pointer : \A t \in Members(T[r]) : Waiting(t)'
  BY <1>2, <1>4, <1>7, Zenon DEF QueuesHold, Places
<1>15. \A u \in Threads : T[u] # <<>> => Broadcasting(u)'
  BY <1>2, <1>5, Zenon DEF Places, QueuesHold
<1> QED
  BY <1>1, <1>5, <1>10, <1>12, <1>13, <1>14, <1>15, Zenon DEF QueuesHold
-----------------------------------------------------------------------------
\* A step changes these of the thread that takes it only.
OthersSame(self) ==
  \A t \in Threads \ {self} :
    pc'[t] = pc[t] /\ ret'[t] = ret[t] /\ th'[t] = th[t] /\ toRestart'[t] = toRestart[t]

LEMMA OthersKeep ==
  ASSUME NEW self \in Threads, OthersSame(self), NEW t \in Threads \ {self}
  PROVE  /\ (Waiting(t)' <=> Waiting(t)) /\ (Broadcasting(t)' <=> Broadcasting(t))
         /\ At(t) => At(t)'
         /\ \A x : Owes(t, x)' <=> Owes(t, x)
  BY Zenon DEF OthersSame, Waiting, Broadcasting, At, Owes

Queuing == <<m_waiting, c_waiting, tosignal, p_nextwaiting>>

LEMMA SelfQuiet ==
  ASSUME OneRestart, NEW S, QueuesHold(S), NEW self \in Threads, OthersSame(self),
         UNCHANGED <<Queuing, sigpending>>,
         \A t \in Threads : ~Owes(self, t)' /\ ~Owes(self, t),
         Waiting(self)' <=> Waiting(self), pc[self] # "suspend", pc'[self] # "suspend",
         Broadcasting(self)' \/ S[self] = <<>>
  PROVE  OneRestart' /\ \E T : QueuesHold(T)'
<1>1. \A u, t \in Threads : Owes(u, t)' <=> Owes(u, t)
  BY OthersKeep, Zenon
<1>2. \A t \in Threads : Waiting(t)' <=> Waiting(t)
  BY OthersKeep, Zenon
<1>3. \A t \in Threads : pc'[t] = "suspend" <=> pc[t] = "suspend"
  BY Zenon DEF OthersSame
<1>4. \A u \in Threads : S[u] # <<>> => Broadcasting(u)'
  BY OthersKeep, Zenon DEF QueuesHold
<1> QED
  BY <1>1, <1>2, <1>3, <1>4, QuietKeeps, Zenon DEF Queuing

LEMMA WakeMutex ==
  ASSUME ~Interrupts, WakeTyped, OneRestart, NEW S, QueuesHold(S), NEW self \in Threads,
         MutexStep(self), UNCHANGED <<cancelVars, condVars>>
  PROVE  OneRestart' /\ \E T : QueuesHold(T)'
<1> USE DEF Goto, Return, mutexVars, signalVars, condVars
<1>0. /\ DOMAIN pc = Threads /\ DOMAIN ret = Threads /\ At(self)
      /\ th \in [Threads -> Pointer]
      /\ UNCHANGED <<c_waiting, tosignal, toRestart>>
      /\ ~Broadcasting(self) => S[self] = <<>>
  BY Zenon DEF WakeTyped, QueuesHold
<1>1. pc[self] \notin {"trylock_body", "destroy_body", "mutex_trylock", "mutex_destroy"}
  BY <1>0, Zenon DEF At
<1>2. OthersSame(self)
  BY <1>0, Zenon DEF OthersSame, MutexStep, acquire, pthread_mutex_lock, ReturnEINVAL, pthread_mutex_lock_retry,
     pthread_mutex_trylock, pthread_mutex_unlock, wake_if_any, pthread_mutex_unlock_restart, pthread_mutex_destroy
<1>3. \A u \in Threads \ {self} : S[u] # <<>> => Broadcasting(u)'
  BY <1>2, OthersKeep, Zenon DEF QueuesHold
<1>4. theMutex # NULL /\ theMutex \notin Threads /\ theMutex \in Places /\ Queues[theMutex] = m_waiting
  BY TheMutex, Zenon DEF Places, Queues
<1>5. ASSUME UNCHANGED <<m_waiting, p_nextwaiting, sigpending, ret>>,
             pc[self] \in {"mutex_lock", "lock_body", "mutex_unlock", "unlock_body"},
             \/ pc[self] = "mutex_lock" /\ pc'[self] = "lock_body"
             \/ pc[self] = "mutex_unlock" /\ pc'[self] = "unlock_body"
             \/ pc[self] \in {"lock_body", "unlock_body"} /\ pc'[self] = ret[self]
      PROVE  OneRestart' /\ \E T : QueuesHold(T)'
  <2>1. \A t \in Threads : ~Owes(self, t)' /\ ~Owes(self, t)
    BY <1>0, <1>5, Zenon DEF Owes, At
  <2>2. Waiting(self)' <=> Waiting(self)
    BY <1>0, <1>5, Zenon DEF Waiting, At
  <2>3. pc'[self] # "suspend" /\ ~Broadcasting(self)
    BY <1>0, <1>5, Zenon DEF At, Broadcasting
  <2> QED
    BY <1>0, <1>2, <1>5, <2>1, <2>2, <2>3, SelfQuiet, Zenon DEF Queuing
<1>6. CASE acquire(self)
  BY <1>0, <1>1, <1>5, <1>6, Entering, Zenon DEF acquire
<1>7. CASE pthread_mutex_lock(self)
  <2>1. CASE Return(self) /\ UNCHANGED <<m_waiting, p_nextwaiting, sigpending, ret>>
    BY <1>0, <1>5, <1>7, <2>1, Zenon DEF pthread_mutex_lock
  <2>2. CASE /\ m_waiting' = enqueue(m_waiting, self)
             /\ p_nextwaiting' = enqueue_links(m_waiting, p_nextwaiting, self)
             /\ Goto(self, "suspend") /\ UNCHANGED <<th, ret, sigpending>>
    <3>1. pc[self] = "lock_body" /\ pc'[self] = "suspend" /\ ~Broadcasting(self)
      BY <1>0, <1>7, <2>2, Zenon DEF pthread_mutex_lock, Broadcasting
    <3>2. \A u, t \in Threads : Owes(u, t)' <=> Owes(u, t)
      BY <1>0, <1>2, <3>1, OthersKeep, Zenon DEF Owes, At
    <3>3. ~Sleeping(self)
      BY <3>1, Zenon DEF Sleeping, Waiting
    <3>4. \A t \in Threads \ {self} : (Waiting(t)' <=> Waiting(t)) /\ pc'[t] = pc[t]
      BY <1>2, OthersKeep, Zenon DEF OthersSame
    <3>5. \A u \in Threads : S[u] # <<>> => Broadcasting(u)'
      BY <1>0, <1>3, <3>1, Zenon
    <3> QED
      BY <1>0, <1>4, <2>2, <3>1, <3>2, <3>3, <3>4, <3>5, EnqueueKeeps, Zenon
  <2> QED
    BY <1>7, <2>1, <2>2, Zenon DEF pthread_mutex_lock, ReturnEINVAL
<1>8. CASE pthread_mutex_lock_retry(self)
  <2>1. /\ pc[self] = "suspend" /\ pc'[self] = "mutex_lock" /\ UNCHANGED <<th, ret, Queuing>>
        /\ self \in sigpending /\ sigpending' = sigpending \ {self} /\ ~Broadcasting(self)
    BY <1>0, <1>8, Zenon DEF pthread_mutex_lock_retry, suspend, suspend_restarted, suspend_interrupted,
       Broadcasting, Queuing
  <2>2. \A u, t \in Threads : Owes(u, t)' <=> Owes(u, t)
    BY <1>0, <1>2, <2>1, OthersKeep DEF Owes, At
  <2>3. ~Sleeping(self)'
    BY <1>0, <2>1, Zenon DEF Sleeping, Waiting, At
  <2>4. \A t \in Threads \ {self} : (Waiting(t)' <=> Waiting(t)) /\ pc'[t] = pc[t]
    BY <1>2, OthersKeep, Zenon DEF OthersSame
  <2>5. \A u \in Threads : S[u] # <<>> => Broadcasting(u)'
    BY <1>0, <1>3, <2>1, Zenon
  <2> QED
    BY <2>1, <2>2, <2>3, <2>4, <2>5, WakeKeeps, Zenon DEF Queuing
<1>9. CASE pthread_mutex_unlock(self)
  <2>1. CASE Return(self) /\ UNCHANGED <<m_waiting, p_nextwaiting, sigpending, ret>>
    BY <1>0, <1>5, <1>9, <2>1, Zenon DEF pthread_mutex_unlock
  <2>2. CASE /\ th' = [th EXCEPT ![self] = m_waiting.head]
             /\ m_waiting' = dequeue(m_waiting, p_nextwaiting)
             /\ p_nextwaiting' = dequeue_links(m_waiting, p_nextwaiting)
             /\ wake_if_any(self) /\ UNCHANGED <<ret, sigpending>>
    <3>1. pc[self] = "unlock_body" /\ ~Broadcasting(self)
      BY <1>9, Zenon DEF pthread_mutex_unlock, Broadcasting
    <3>2. m_waiting.head = NULL <=> S[theMutex] = <<>>
      BY <1>4, HoldsHead, Zenon DEF QueuesHold, Family
    <3>3. CASE m_waiting.head = NULL
      BY <1>0, <1>5, <2>2, <3>1, <3>3, Zenon DEF dequeue, dequeue_links, wake_if_any
    <3>4. CASE m_waiting.head # NULL
      <4>1. pc'[self] = "restart" /\ th'[self] = m_waiting.head
        BY <1>0, <2>2, <3>4, Zenon DEF wake_if_any
      <4>2. \A r \in Places : Queues'[r] = IF r = theMutex THEN dequeue(Queues[theMutex], p_nextwaiting)
                                           ELSE Queues[r]
        BY <1>0, <1>4, <2>2, Zenon DEF Queues
      <4>3. \A t \in Threads : ~Owes(self, t) /\ (Owes(self, t)' <=> t = m_waiting.head)
        BY <1>0, <3>1, <4>1, Zenon DEF Owes, At
      <4>4. \A u, t \in Threads : Owes(u, t)' <=> Owes(u, t) \/ (u = self /\ t = Queues[theMutex].head)
        BY <1>2, <1>4, <4>3, OthersKeep, Zenon
      <4>5. Waiting(self)' <=> Waiting(self)
        BY <1>0, <2>2, <3>1, <4>1, Zenon DEF Waiting, At
      <4>6. /\ \A t \in Threads : Waiting(t)' <=> Waiting(t)
            /\ \A t \in Threads : pc'[t] = "suspend" <=> pc[t] = "suspend"
        BY <1>2, <3>1, <4>1, <4>5, OthersKeep, Zenon DEF OthersSame
      <4>7. \A u \in Threads : S[u] # <<>> => Broadcasting(u)'
        BY <1>0, <1>3, <3>1, Zenon
      <4> QED
        BY <1>4, <2>2, <3>2, <3>4, <4>2, <4>4, <4>6, <4>7, DequeueKeeps, Zenon
    <3> QED
      BY <3>3, <3>4, Zenon
  <2> QED
    BY <1>9, <2>1, <2>2, Zenon DEF pthread_mutex_unlock, ReturnEINVAL
<1>10. CASE pthread_mutex_unlock_restart(self)
  <2>1. /\ pc[self] = "restart" /\ pc'[self] = ret[self] /\ th'[self] = NULL /\ UNCHANGED <<ret, Queuing>>
        /\ sigpending' = sigpending \cup {th[self]} /\ ~Broadcasting(self)
    BY <1>0, <1>10, Zenon DEF pthread_mutex_unlock_restart, restart, Broadcasting, Queuing
  <2>2. th[self] \in Threads /\ \A t \in Threads : (Owes(self, t) <=> t = th[self]) /\ ~Owes(self, t)'
    BY <1>0, <2>1, Zenon DEF Owes, At
  <2>3. \A u, t \in Threads : Owes(u, t)' <=> Owes(u, t) /\ u # self
    BY <1>2, <2>2, OthersKeep, Zenon
  <2>4. Waiting(self)' <=> Waiting(self)
    BY <1>0, <2>1, Zenon DEF Waiting, At
  <2>5. pc'[self] # "suspend"
    BY <1>0, <2>1, Zenon DEF At
  <2>6. /\ \A t \in Threads : Waiting(t)' <=> Waiting(t)
        /\ \A t \in Threads : pc'[t] = "suspend" <=> pc[t] = "suspend"
    BY <1>2, <2>1, <2>4, <2>5, OthersKeep, Zenon DEF OthersSame
  <2>7. \A u \in Threads : S[u] # <<>> => Broadcasting(u)'
    BY <1>0, <1>3, <2>1, Zenon
  <2> QED
    BY <2>1, <2>2, <2>3, <2>6, <2>7, RestartKeeps, Zenon DEF Queuing
<1> QED
  BY <1>1, <1>6, <1>7, <1>8, <1>9, <1>10, Zenon DEF MutexStep, pthread_mutex_trylock, pthread_mutex_destroy

LEMMA WakeCond ==
  ASSUME ~Interrupts, ~TimedWaits, Cancels = {}, WakeTyped, OneRestart, NEW S, QueuesHold(S),
         NEW self \in Threads, CondStep(self) \/ ProgramCall(self)
  PROVE  OneRestart' /\ \E T : QueuesHold(T)'
<1> USE DEF Goto, Enter, mutexVars, otherMutexVars, signalVars, condVars
<1>0. /\ DOMAIN pc = Threads /\ DOMAIN ret = Threads /\ tosignal \in [Threads -> QueueType]
      /\ At(self) /\ ~CancelDue(self) /\ self \notin sigcancel
      /\ toRestart \in [Threads -> Pointer]
      /\ ~Broadcasting(self) => S[self] = <<>>
  BY Zenon DEF WakeTyped, QueuesHold, CancelDue
<1>1. /\ ~CallTimedwait(self) /\ ~CallCancel(self) /\ ~sigcancel_ignored(self) /\ ~pthread_exit(self)
      /\ ~pthread_cond_timedwait(self) /\ ~pthread_cond_timedwait_setup(self)
      /\ ~pthread_cond_timedwait_wake(self) /\ ~pthread_cond_timedwait_return(self)
  BY <1>0, Zenon DEF CallTimedwait, CallCancel, sigcancel_ignored, cancel_handled, pthread_exit,
     pthread_cond_timedwait, pthread_cond_timedwait_setup, pthread_cond_timedwait_wake,
     pthread_cond_timedwait_return, At
<1>2. OthersSame(self)
  <2> USE <1>0 DEF OthersSame
  <2>1. CASE ProgramCall(self)
    BY <1>1, <2>1, Zenon DEF ProgramCall, CallLock, CallUnlock, CallWait, CallSignal, CallBroadcast, Call
  <2>2. CASE pthread_cond_wait(self) \/ pthread_cond_wait_suspend(self) \/ pthread_cond_wait_resume(self)
    BY <2>2, Zenon DEF pthread_cond_wait, enqueue_self, pthread_cond_wait_suspend, pthread_cond_wait_resume
  <2>3. CASE pthread_cond_wait_return(self) \/ pthread_cond_signal(self) \/ restart_waiter(self)
    BY <2>3, Zenon DEF pthread_cond_wait_return, pthread_cond_signal, restart_waiter
  <2>4. CASE pthread_cond_broadcast(self) \/ pthread_cond_broadcast_next(self)
    BY <2>4, Zenon DEF pthread_cond_broadcast, pthread_cond_broadcast_next
  <2> QED
    BY <1>1, <2>1, <2>2, <2>3, <2>4, Zenon DEF CondStep
<1>3. \A u \in Threads \ {self} : S[u] # <<>> => Broadcasting(u)'
  BY <1>2, OthersKeep, Zenon DEF QueuesHold
<1>4. /\ theMutex # NULL /\ theMutex \notin Threads /\ NULL \in Places /\ self \in Places
      /\ Queues[NULL] = c_waiting /\ Queues[self] = tosignal[self]
  BY TheMutex, Zenon DEF Places, Queues
<1>5. \A t \in Threads \ {self} : (Waiting(t)' <=> Waiting(t)) /\ pc'[t] = pc[t]
  BY <1>2, OthersKeep, Zenon DEF OthersSame
<1>6. ASSUME NEW p \in {NULL, self}, S[p] # <<>>,
             \A r \in Places : Queues'[r] = IF r = p THEN dequeue(Queues[p], p_nextwaiting)
                                            ELSE Queues[r],
             p_nextwaiting' = dequeue_links(Queues[p], p_nextwaiting), UNCHANGED sigpending,
             pc[self] \in {"cond_signal", "broadcast_loop"}, toRestart'[self] = Queues[p].head,
             pc'[self] = IF pc[self] = "cond_signal" THEN "signal_restart" ELSE "broadcast_restart"
      PROVE  OneRestart' /\ \E T : QueuesHold(T)'
  <2>1. \A t \in Threads : ~Owes(self, t) /\ (Owes(self, t)' <=> t = Queues[p].head)
    BY <1>0, <1>6, Zenon DEF Owes, At
  <2>2. \A u, t \in Threads : Owes(u, t)' <=> Owes(u, t) \/ (u = self /\ t = Queues[p].head)
    BY <1>2, <2>1, OthersKeep, Zenon
  <2>3. ~Waiting(self)' /\ ~Waiting(self) /\ pc[self] # "suspend" /\ pc'[self] # "suspend"
    BY <1>6, Zenon DEF Waiting
  <2>4. /\ \A t \in Threads : Waiting(t)' <=> Waiting(t)
        /\ \A t \in Threads : pc'[t] = "suspend" <=> pc[t] = "suspend"
    BY <1>5, <2>3, Zenon
  <2>5. \A u \in Threads : S[u] # <<>> => Broadcasting(u)'
    BY <1>0, <1>3, <1>6, Zenon DEF Broadcasting
  <2>6. p \in Places
    BY <1>4, <1>6, Zenon
  <2> QED
    BY <1>6, <2>2, <2>4, <2>5, <2>6, DequeueKeeps, Zenon
<1>7. ASSUME UNCHANGED <<Queuing, sigpending, th>>, toRestart'[self] = NULL, toRestart[self] = NULL,
             pc[self] \notin {"restart", "suspend"}, pc'[self] \notin {"restart", "suspend"},
             ~Broadcasting(self) \/ S[self] = <<>>, Waiting(self)' <=> Waiting(self)
      PROVE  OneRestart' /\ \E T : QueuesHold(T)'
  <2>1. \A t \in Threads : ~Owes(self, t) /\ ~Owes(self, t)'
    BY <1>7, Zenon DEF Owes
  <2> QED
    BY <1>0, <1>2, <1>7, <2>1, SelfQuiet, Zenon
<1>8. CASE \E entry \in {"mutex_lock", "mutex_unlock", "cond_wait", "cond_signal", "cond_broadcast"} :
              Call(self, entry)
  BY <1>0, <1>7, <1>8, Zenon DEF Call, Queuing, At, Waiting, Broadcasting
<1>9. CASE pthread_cond_wait(self)
  <2>1. /\ pc[self] = "cond_wait" /\ pc'[self] = "mutex_unlock" /\ ret'[self] = "cw_suspend"
        /\ ~Broadcasting(self) /\ c_waiting' = enqueue(c_waiting, self)
        /\ p_nextwaiting' = enqueue_links(c_waiting, p_nextwaiting, self)
        /\ UNCHANGED <<m_waiting, th, toRestart, tosignal, sigpending>>
    BY <1>0, <1>9, Zenon DEF pthread_cond_wait, enqueue_self, Broadcasting
  <2>2. \A t \in Threads : Owes(self, t)' <=> Owes(self, t)
    BY <2>1, Zenon DEF Owes
  <2>3. \A u, t \in Threads : Owes(u, t)' <=> Owes(u, t)
    BY <1>2, <2>2, OthersKeep, Zenon
  <2>4. ~Sleeping(self) /\ Waiting(self)'
    BY <2>1, Zenon DEF Sleeping, Waiting
  <2>5. \A u \in Threads : S[u] # <<>> => Broadcasting(u)'
    BY <1>0, <1>3, <2>1, Zenon
  <2> QED
    BY <1>4, <1>5, <2>1, <2>3, <2>4, <2>5, EnqueueKeeps, Zenon
<1>10. CASE pthread_cond_wait_suspend(self)
  BY <1>0, <1>7, <1>10, Zenon DEF pthread_cond_wait_suspend, Queuing, At, Waiting, Broadcasting
<1>11. CASE pthread_cond_wait_resume(self)
  <2>1. /\ pc[self] = "cw_sleep" /\ pc'[self] = "mutex_lock" /\ ret'[self] = "cw_check"
        /\ self \in sigpending /\ sigpending' = sigpending \ {self} /\ ~Broadcasting(self)
        /\ UNCHANGED <<m_waiting, c_waiting, tosignal, p_nextwaiting, th, toRestart>>
    BY <1>0, <1>11, Zenon DEF pthread_cond_wait_resume, suspend_with_cancellation, swc_restarted,
       swc_interrupted, swc_canceled, suspend_restarted, cancel_handled, Broadcasting
  <2>2. \A t \in Threads : Owes(self, t)' <=> Owes(self, t)
    BY <2>1, Zenon DEF Owes
  <2>3. \A u, t \in Threads : Owes(u, t)' <=> Owes(u, t)
    BY <1>2, <2>2, OthersKeep, Zenon
  <2>4. ~Sleeping(self)'
    BY <2>1, Zenon DEF Sleeping, Waiting
  <2>5. \A u \in Threads : S[u] # <<>> => Broadcasting(u)'
    BY <1>0, <1>3, <2>1, Zenon
  <2> QED
    BY <1>5, <2>1, <2>3, <2>4, <2>5, WakeKeeps, Zenon
<1>12. CASE pthread_cond_wait_return(self)
  BY <1>0, <1>7, <1>12, Zenon DEF pthread_cond_wait_return, Queuing, At, Waiting, Broadcasting
<1>13. CASE pthread_cond_signal(self)
  <2>1. /\ pc[self] = "cond_signal" /\ toRestart'[self] = c_waiting.head /\ toRestart[self] = NULL
        /\ c_waiting' = dequeue(c_waiting, p_nextwaiting)
        /\ p_nextwaiting' = dequeue_links(c_waiting, p_nextwaiting)
        /\ pc'[self] = IF c_waiting.head = NULL THEN "idle" ELSE "signal_restart"
        /\ UNCHANGED <<m_waiting, tosignal, sigpending, th>>
    BY <1>0, <1>13, Zenon DEF pthread_cond_signal, At
  <2>2. c_waiting.head = NULL <=> S[NULL] = <<>>
    BY <1>4, HoldsHead, Zenon DEF QueuesHold, Family
  <2>3. CASE c_waiting.head = NULL
    <3>1. UNCHANGED <<Queuing, sigpending, th>>
      BY <2>1, <2>3, Zenon DEF dequeue, dequeue_links, Queuing
    <3>2. ~Waiting(self)' /\ ~Waiting(self) /\ ~Broadcasting(self)
      BY <2>1, <2>3, Zenon DEF Waiting, Broadcasting
    <3> QED
      BY <1>7, <2>1, <2>3, <3>1, <3>2, Zenon
  <2>4. CASE c_waiting.head # NULL
    <3>1. \A r \in Places : Queues'[r] = IF r = NULL THEN dequeue(Queues[NULL], p_nextwaiting)
                                         ELSE Queues[r]
      BY <1>4, <2>1, Zenon DEF Queues
    <3> QED
      BY <1>4, <1>6, <2>1, <2>2, <2>4, <3>1, Zenon
  <2> QED
    BY <2>3, <2>4, Zenon
<1>14. CASE restart_waiter(self)
  <2>1. /\ pc[self] \in {"signal_restart", "broadcast_restart"} /\ toRestart'[self] = NULL
        /\ sigpending' = sigpending \cup {toRestart[self]} /\ UNCHANGED <<Queuing, th>>
        /\ pc'[self] = IF pc[self] = "signal_restart" THEN "idle" ELSE "broadcast_loop"
    BY <1>0, <1>14, Zenon DEF restart_waiter, restart, Queuing
  <2>2. /\ toRestart[self] \in Threads
        /\ \A t \in Threads : (Owes(self, t) <=> t = toRestart[self]) /\ ~Owes(self, t)'
    BY <1>0, <2>1, Zenon DEF Owes, At
  <2>3. \A u, t \in Threads : Owes(u, t)' <=> Owes(u, t) /\ u # self
    BY <1>2, <2>2, OthersKeep, Zenon
  <2>4. ~Waiting(self)' /\ ~Waiting(self) /\ pc[self] # "suspend" /\ pc'[self] # "suspend"
    BY <2>1, Zenon DEF Waiting
  <2>5. /\ \A t \in Threads : Waiting(t)' <=> Waiting(t)
        /\ \A t \in Threads : pc'[t] = "suspend" <=> pc[t] = "suspend"
    BY <1>5, <2>4, Zenon
  <2>6. \A u \in Threads : S[u] # <<>> => Broadcasting(u)'
    BY <1>0, <1>3, <2>1, Zenon DEF Broadcasting
  <2> QED
    BY <2>1, <2>2, <2>3, <2>5, <2>6, RestartKeeps, Zenon DEF Queuing
<1>15. CASE pthread_cond_broadcast(self)
  <2>1. /\ pc[self] = "cond_broadcast" /\ pc'[self] = "broadcast_loop"
        /\ tosignal' = [tosignal EXCEPT ![self] = c_waiting] /\ c_waiting' = queue_init
        /\ UNCHANGED <<m_waiting, p_nextwaiting, sigpending, th, toRestart>>
    BY <1>0, <1>15, Zenon DEF pthread_cond_broadcast
  <2>2. \A t \in Threads : Owes(self, t)' <=> Owes(self, t)
    BY <2>1, Zenon DEF Owes
  <2>3. \A u, t \in Threads : Owes(u, t)' <=> Owes(u, t)
    BY <1>2, <2>2, OthersKeep, Zenon
  <2>4. ~Waiting(self)' /\ ~Waiting(self) /\ S[self] = <<>> /\ Broadcasting(self)'
    BY <1>0, <2>1, Zenon DEF Waiting, Broadcasting
  <2>5. /\ \A t \in Threads : Waiting(t)' <=> Waiting(t)
        /\ \A t \in Threads : pc'[t] = "suspend" <=> pc[t] = "suspend"
    BY <1>5, <2>1, <2>4, Zenon
  <2>6. \A u \in Threads \ {self} : Broadcasting(u)' <=> Broadcasting(u)
    BY <1>2, OthersKeep, Zenon
  <2> QED
    BY <2>1, <2>3, <2>4, <2>5, <2>6, BroadcastKeeps, Zenon
<1>16. CASE pthread_cond_broadcast_next(self)
  <2>1. /\ pc[self] = "broadcast_loop" /\ toRestart'[self] = tosignal[self].head /\ toRestart[self] = NULL
        /\ tosignal' = [tosignal EXCEPT ![self] = dequeue(tosignal[self], p_nextwaiting)]
        /\ p_nextwaiting' = dequeue_links(tosignal[self], p_nextwaiting)
        /\ pc'[self] = IF tosignal[self].head = NULL THEN "idle" ELSE "broadcast_restart"
        /\ UNCHANGED <<m_waiting, c_waiting, sigpending, th>>
    BY <1>0, <1>16, Zenon DEF pthread_cond_broadcast_next, At
  <2>2. tosignal[self].head = NULL <=> S[self] = <<>>
    BY <1>4, HoldsHead, Zenon DEF QueuesHold, Family
  <2>3. \A r \in Places : Queues'[r] = IF r = self THEN dequeue(Queues[self], p_nextwaiting)
                                       ELSE Queues[r]
    BY <1>0, <1>4, <2>1, Zenon DEF Queues, Places
  <2>4. CASE tosignal[self].head = NULL
    <3>1. tosignal' = tosignal /\ p_nextwaiting' = p_nextwaiting
      BY <1>0, <2>1, <2>4, Zenon DEF dequeue, dequeue_links
    <3>2. ~Waiting(self)' /\ ~Waiting(self)
      BY <2>1, <2>4, Zenon DEF Waiting
    <3> QED
      BY <1>7, <2>1, <2>2, <2>4, <3>1, <3>2, Zenon DEF Queuing
  <2>5. CASE tosignal[self].head # NULL
    BY <1>4, <1>6, <2>1, <2>2, <2>3, <2>5, Zenon
  <2> QED
    BY <2>4, <2>5, Zenon
<1> QED
  BY <1>1, <1>8, <1>9, <1>10, <1>11, <1>12, <1>13, <1>14, <1>15, <1>16, Zenon
     DEF CondStep, ProgramCall, CallLock, CallUnlock, CallWait, CallSignal, CallBroadcast

LEMMA WakeTypedNext ==
  ASSUME ~Interrupts, ~TimedWaits, Cancels = {}, WakeTyped, Next
  PROVE  WakeTyped'
<1> PICK self \in Threads : ProgramCall(self) \/ LibraryStep(self)
  BY Zenon DEF Next
<1> USE DEF Goto, Return, Enter, mutexVars, otherMutexVars, signalVars, condVars, cancelVars
<1>0. /\ DOMAIN pc = Threads /\ DOMAIN ret = Threads /\ At(self)
      /\ c_waiting \in QueueType /\ tosignal \in [Threads -> QueueType]
      /\ m_waiting \in QueueType /\ p_nextwaiting \in LinksType
      /\ th \in [Threads -> Pointer] /\ toRestart \in [Threads -> Pointer]
      /\ sigpending \subseteq Threads /\ sigcancel = {}
      /\ \A t \in Threads : ~p_canceled[t]
      /\ c_waiting.head \in Pointer /\ m_waiting.head \in Pointer /\ tosignal[self].head \in Pointer
      /\ ~CancelDue(self) /\ self \notin sigcancel
      /\ pc[self] \notin {"trylock_body", "destroy_body", "mutex_trylock", "mutex_destroy"}
      /\ queue_init \in QueueType
  BY Zenon DEF WakeTyped, CancelDue, QueueType, At, queue_init
<1>1. ASSUME DOMAIN pc' = Threads, DOMAIN ret' = Threads,
             c_waiting' \in QueueType, tosignal' \in [Threads -> QueueType],
             m_waiting' \in QueueType, p_nextwaiting' \in LinksType,
             th' \in [Threads -> Pointer], toRestart' \in [Threads -> Pointer],
             sigpending' \subseteq Threads, UNCHANGED cancelVars, OthersSame(self), At(self)'
      PROVE  WakeTyped'
  <2>1. \A t \in Threads : At(t)'
    BY <1>1, OthersKeep, Zenon DEF WakeTyped
  <2> QED
    BY <1>1, <2>1, Zenon DEF WakeTyped
<1>2. CASE MutexStep(self) /\ UNCHANGED <<cancelVars, condVars>>
  <2>1. CASE acquire(self)
    BY <1>0, <1>1, <1>2, <2>1, Entering, Zenon DEF acquire, OthersSame, At
  <2>2. CASE ReturnEINVAL(self) /\ pc[self] \in {"lock_body", "unlock_body"}
    BY <1>0, <1>1, <1>2, <2>2, Zenon DEF ReturnEINVAL, OthersSame, At
  <2>3. CASE pthread_mutex_lock(self) /\ ~ReturnEINVAL(self)
    <3>1. /\ pc[self] = "lock_body" /\ pc' = [pc EXCEPT ![self] = pc'[self]]
          /\ pc'[self] \in {ret[self], "suspend"} /\ UNCHANGED <<th, ret, sigpending>>
          /\ UNCHANGED <<m_waiting, p_nextwaiting>> \/
             <<m_waiting', p_nextwaiting'>> =
                <<enqueue(m_waiting, self), enqueue_links(m_waiting, p_nextwaiting, self)>>
      BY <1>0, <2>3, Zenon DEF pthread_mutex_lock
    <3>2. m_waiting' \in QueueType /\ p_nextwaiting' \in LinksType
      BY <1>0, <3>1, QueueTypes
    <3>3. OthersSame(self) /\ At(self)'
      BY <1>0, <1>2, <3>1, Zenon DEF OthersSame, At
    <3> QED
      BY <1>0, <1>1, <1>2, <3>1, <3>2, <3>3, Zenon
  <2>4. CASE pthread_mutex_lock_retry(self)
    BY <1>0, <1>1, <1>2, <2>4, Zenon DEF pthread_mutex_lock_retry, suspend, suspend_restarted,
       suspend_interrupted, OthersSame, At
  <2>5. CASE pthread_mutex_unlock(self) /\ ~ReturnEINVAL(self)
    BY <1>0, <1>1, <1>2, <2>5, QueueTypes DEF pthread_mutex_unlock, wake_if_any, OthersSame, At
  <2>6. CASE pthread_mutex_unlock_restart(self)
    BY <1>0, <1>1, <1>2, <2>6, Zenon DEF pthread_mutex_unlock_restart, restart, OthersSame, At
  <2> QED
    BY <1>0, <1>2, <2>1, <2>2, <2>3, <2>4, <2>5, <2>6, Zenon DEF MutexStep, pthread_mutex_lock,
       pthread_mutex_unlock, pthread_mutex_trylock, pthread_mutex_destroy
<1>3. CASE ProgramCall(self)
  BY <1>0, <1>1, <1>3, Zenon DEF ProgramCall, CallLock, CallUnlock, CallWait, CallTimedwait, CallSignal,
     CallBroadcast, CallCancel, Call, OthersSame, At
<1>4. CASE CondStep(self)
  <2>1. CASE pthread_cond_wait(self)
    BY <1>0, <1>1, <2>1, QueueTypes, Zenon DEF pthread_cond_wait, enqueue_self, OthersSame, At
  <2>2. CASE pthread_cond_wait_suspend(self)
    BY <1>0, <1>1, <2>2, Zenon DEF pthread_cond_wait_suspend, OthersSame, At
  <2>3. CASE pthread_cond_wait_resume(self)
    BY <1>0, <1>1, <2>3, Zenon DEF pthread_cond_wait_resume, suspend_with_cancellation, swc_restarted,
       swc_interrupted, swc_canceled, suspend_restarted, cancel_handled, OthersSame, At
  <2>4. CASE pthread_cond_wait_return(self)
    BY <1>0, <1>1, <2>4, Zenon DEF pthread_cond_wait_return, OthersSame, At
  <2>5. CASE pthread_cond_signal(self)
    BY <1>0, <1>1, <2>5, QueueTypes, Zenon DEF pthread_cond_signal, OthersSame, At
  <2>6. CASE restart_waiter(self)
    BY <1>0, <1>1, <2>6, Zenon DEF restart_waiter, restart, OthersSame, At
  <2>7. CASE pthread_cond_broadcast(self)
    BY <1>0, <1>1, <2>7, Zenon DEF pthread_cond_broadcast, OthersSame, At
  <2>8. CASE pthread_cond_broadcast_next(self)
    BY <1>0, <1>1, <2>8, QueueTypes, Zenon DEF pthread_cond_broadcast_next, OthersSame, At
  <2>9. CASE sigcancel_ignored(self) \/ pthread_exit(self) \/ pthread_cond_timedwait(self)
               \/ pthread_cond_timedwait_setup(self) \/ pthread_cond_timedwait_wake(self)
               \/ pthread_cond_timedwait_return(self)
    BY <1>0, <2>9, Zenon DEF sigcancel_ignored, cancel_handled, pthread_exit,
       pthread_cond_timedwait, pthread_cond_timedwait_setup, pthread_cond_timedwait_wake,
       pthread_cond_timedwait_return, At
  <2> QED
    BY <1>4, <2>1, <2>2, <2>3, <2>4, <2>5, <2>6, <2>7, <2>8, <2>9, Zenon DEF CondStep
<1> QED
  BY <1>2, <1>3, <1>4, Zenon DEF LibraryStep

LEMMA WakeInit == Init => WakeInv
<1> SUFFICES ASSUME Init PROVE WakeInv
  BY Zenon
<1> USE DEF Init, MutexInit, SignalInit, pthread_mutex_init, CancelInit, pthread_cond_init
<1>1. WakeTyped
  BY Zenon DEF WakeTyped, At, QueueType, LinksType, queue_init
<1>2. \A u, t \in Threads : ~Owes(u, t)
  BY Zenon DEF Owes
<1>3. OneRestart
  BY <1>2, Zenon DEF OneRestart
<1> DEFINE S == [p \in Places |-> <<>>]
<1>4. \A p \in Places : Queues[p] = queue_init
  BY Zenon DEF Queues, Places
<1>5. Holds(queue_init, p_nextwaiting, <<>>) /\ Members(<<>>) = {}
  BY DEF Holds, Members
<1>6. \A p \in Places : S[p] = <<>> /\ Members(S[p]) = {}
  BY <1>5, Zenon
<1>7. DOMAIN S = Places
  BY Zenon
<1> HIDE DEF S
<1>8. Family(Places, Queues, p_nextwaiting, S)
  BY <1>4, <1>5, <1>6, Zenon DEF Family
<1>9. \A t \in Threads : ~RestartDue(t) /\ ~Sleeping(t)
  BY <1>2, DueIs, Zenon DEF Sleeping, Waiting
<1>10. QueuesHold(S)
  BY <1>6, <1>7, <1>8, <1>9, Zenon DEF QueuesHold, Places
<1> QED
  BY <1>1, <1>3, <1>10, Zenon DEF WakeInv

LEMMA WakeInvariant ==
  ASSUME ~Interrupts, ~TimedWaits, Cancels = {}
  PROVE  Spec => []WakeInv
<1>1. ASSUME WakeInv, Next PROVE WakeInv'
  <2>1. WakeTyped'
    BY <1>1, WakeTypedNext, Zenon DEF WakeInv
  <2>2. PICK S : QueuesHold(S)
    BY <1>1, Zenon DEF WakeInv
  <2>3. OneRestart' /\ \E T : QueuesHold(T)'
    BY <1>1, <2>2, WakeMutex, WakeCond, Zenon DEF WakeInv, Next, LibraryStep
  <2> QED
    BY <2>1, <2>3, Zenon DEF WakeInv
<1>2. ASSUME WakeInv, UNCHANGED vars PROVE WakeInv'
  <2>1. WakeTyped'
    BY <1>2, Zenon DEF WakeInv, WakeTyped, At, vars, mutexVars, condVars, cancelVars, signalVars
  <2>2. PICK S : QueuesHold(S)
    BY <1>2, Zenon DEF WakeInv
  <2>3. UNCHANGED <<m_waiting, c_waiting, tosignal, p_nextwaiting, sigpending, pc, ret, th, toRestart>>
    BY <1>2, Zenon DEF vars, mutexVars, condVars, signalVars
  <2>4. /\ \A u, t \in Threads : Owes(u, t)' <=> Owes(u, t)
        /\ \A t \in Threads : Waiting(t)' <=> Waiting(t)
        /\ \A t \in Threads : pc'[t] = "suspend" <=> pc[t] = "suspend"
        /\ \A u \in Threads : S[u] # <<>> => Broadcasting(u)'
    BY <2>2, <2>3, Zenon DEF Owes, Waiting, Broadcasting, QueuesHold
  <2>5. OneRestart' /\ QueuesHold(S)'
    BY <1>2, <2>2, <2>3, <2>4, QuietKeeps, Zenon DEF WakeInv
  <2> QED
    BY <2>1, <2>5, Zenon DEF WakeInv
<1> QED
  BY <1>1, <1>2, WakeInit, PTL DEF Spec

LEMMA CondQueues ==
  ASSUME IsFiniteSet(Threads), NEW S, QueuesHold(S), NEW t \in Threads
  PROVE  /\ InQueue(t, m_waiting) <=> t \in Members(S[theMutex])
         /\ InCondQueue(t) <=> \E p \in Pointer : t \in Members(S[p])
<1>1. \A p \in Places : Reachable(Queues[p], p_nextwaiting) = Members(S[p])
  BY ReachableIs, Zenon DEF QueuesHold, Family
<1>2. /\ theMutex \in Places /\ Queues[theMutex] = m_waiting
      /\ NULL \in Places /\ Queues[NULL] = c_waiting
      /\ \A u \in Threads : u \in Places /\ Queues[u] = tosignal[u]
  BY TheMutex, Zenon DEF Places, Queues
<1> QED
  BY <1>1, <1>2, Zenon DEF InQueue, InCondQueue

\* A condition variable and its mutex send no stray restart, whatever threads
\* signal, broadcast and wait: the restart that is due to a thread is due to one
\* that sleeps for it, and that has left the queue.  (No wait is timed, nobody is
\* cancelled, and no other signal ends a sleep: each of those can take a thread out
\* of its sleep between the dequeue and the restart.)
THEOREM NoStrayRestartHolds ==
  ASSUME ~Interrupts, ~TimedWaits, Cancels = {}, IsFiniteSet(Threads)
  PROVE  Spec => []NoStrayRestart
<1>1. WakeInv => NoStrayRestart
  <2> SUFFICES ASSUME WakeInv, NEW t \in Threads, RestartDue(t)
               PROVE  \/ Waiting(t) /\ ~InCondQueue(t)
                      \/ pc[t] = "suspend" /\ ~InQueue(t, m_waiting)
    BY Zenon DEF NoStrayRestart
  <2>1. PICK S : QueuesHold(S)
    BY Zenon DEF WakeInv
  <2>2. Sleeping(t) /\ ~Queued(Places, S, t)
    BY <2>1, Zenon DEF QueuesHold
  <2>3. ~InCondQueue(t) /\ ~InQueue(t, m_waiting)
    BY <2>1, <2>2, CondQueues, Zenon DEF Queued, Places
  <2> QED
    BY <2>2, <2>3, Zenon DEF Sleeping
<1> QED
  BY <1>1, WakeInvariant, PTL

\* No wakeup is lost between the unlock of pthread_cond_wait and its suspend: a
\* thread that waits can be found by the next signal or broadcast, or one has
\* found it and its restart is coming.  (With timed waits it fails: the run
\* condvar_broadcast_race.)
THEOREM NoStrandedWaiterHolds ==
  ASSUME ~Interrupts, ~TimedWaits, Cancels = {}, IsFiniteSet(Threads)
  PROVE  Spec => []NoStrandedWaiter
<1>1. WakeInv => NoStrandedWaiter
  <2> SUFFICES ASSUME WakeInv, NEW t \in Threads, Waiting(t)
               PROVE  InCondQueue(t) \/ RestartDue(t)
    BY Zenon DEF NoStrandedWaiter
  <2>1. PICK S : QueuesHold(S)
    BY Zenon DEF WakeInv
  <2>2. pc[t] # "suspend"
    BY Zenon DEF Waiting
  <2>3. t \notin Members(S[theMutex])
    BY <2>1, <2>2, Zenon DEF QueuesHold
  <2>4. Queued(Places, S, t) => InCondQueue(t)
    BY <2>1, <2>3, CondQueues, Zenon DEF Queued, Places
  <2> QED
    BY <2>1, <2>4, Zenon DEF QueuesHold, Sleeping
<1> QED
  BY <1>1, WakeInvariant, PTL

=============================================================================
