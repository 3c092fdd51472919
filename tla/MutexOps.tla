----------------------------- MODULE MutexOps -----------------------------
(***************************************************************************)
(* The functions of src/mutex.c on one mutex, as steps of a thread.        *)
(*                                                                         *)
(* A call is a sequence of steps separated by what other threads can see:  *)
(* winning m_spinlock; the code it protects, up to and including release   *)
(* (nobody else touches the mutex meanwhile); restart, after the release;  *)
(* and, in pthread_mutex_lock, leaving suspend.  A call returns to the     *)
(* label ret[self]: the program, or the function that made the call.       *)
(*                                                                         *)
(* holds is the caller's view: how many of its successful lock calls each  *)
(* thread has not yet undone.                                              *)
(***************************************************************************)
EXTENDS Restart

CONSTANT Kinds        \* the kinds of mutex the program may have initialized

PTHREAD_MUTEX_FAST_NP == "FAST"
PTHREAD_MUTEX_RECURSIVE_NP == "RECURSIVE"
BadKind == "BAD"      \* any other value: an improperly initialized mutex

ASSUME KindsAssumption ==
  Kinds \subseteq {PTHREAD_MUTEX_FAST_NP, PTHREAD_MUTEX_RECURSIVE_NP, BadKind}

VARIABLES m_spinlock, m_count, m_owner, m_kind, m_waiting,
          p_nextwaiting,   \* the links of the waiting queues
          pc,              \* where each thread is
          ret,             \* where it goes when the mutex call returns
          th,              \* pthread_mutex_unlock's local variable
          holds

mutexVars == <<m_spinlock, m_count, m_owner, m_kind, m_waiting, p_nextwaiting,
               th, holds>>

\* The label after acquire(&mutex->m_spinlock) at each label that calls it.
Inside == [mutex_lock |-> "lock_body", mutex_trylock |-> "trylock_body",
           mutex_unlock |-> "unlock_body", mutex_destroy |-> "destroy_body"]
Entries == DOMAIN Inside
Bodies == {Inside[e] : e \in Entries}
MutexLabels == Entries \cup Bodies \cup {"suspend", "restart"}

MutexTypeOK ==
  /\ SignalTypeOK
  /\ m_spinlock \in {0, 1}
  /\ m_count \in Nat
  /\ m_owner \in Pointer
  /\ m_kind \in Kinds
  /\ m_waiting \in QueueType
  /\ p_nextwaiting \in LinksType
  /\ th \in [Threads -> Pointer]
  /\ holds \in [Threads -> Nat]

-----------------------------------------------------------------------------
pthread_mutex_init ==
  /\ m_spinlock = 0
  /\ m_count = 0
  /\ m_owner = NULL
  /\ m_kind \in Kinds
  /\ m_waiting = queue_init

MutexInit ==
  /\ SignalInit
  /\ pthread_mutex_init
  /\ p_nextwaiting = [t \in Threads |-> NULL]
  /\ th = [t \in Threads |-> NULL]
  /\ holds = [t \in Threads |-> 0]

Goto(self, label) == pc' = [pc EXCEPT ![self] = label]
Return(self) == Goto(self, ret[self])
-----------------------------------------------------------------------------
(***************************************************************************)
(* The steps of the mutex functions.                                       *)
(***************************************************************************)

\* acquire: testandset found 0.  (Finding 1, it yields and tries again.)
acquire(self) ==
  /\ pc[self] \in Entries
  /\ m_spinlock = 0
  /\ m_spinlock' = 1
  /\ Goto(self, Inside[pc[self]])
  /\ UNCHANGED <<m_count, m_owner, m_kind, m_waiting, p_nextwaiting, th, holds,
                 ret, signalVars>>

release == m_spinlock' = 0

\* Mutant: a recursive mutex is anybody's.
available_to_all(self) == m_count = 0 \/ m_kind = PTHREAD_MUTEX_RECURSIVE_NP

Available(self) ==
  \/ m_count = 0
  \/ m_kind = PTHREAD_MUTEX_RECURSIVE_NP /\ m_owner = self

Take(self) ==
  /\ m_count' = m_count + 1
  /\ m_owner' = IF m_kind = PTHREAD_MUTEX_RECURSIVE_NP THEN self ELSE m_owner
  /\ holds' = [holds EXCEPT ![self] = @ + 1]

\* default: return EINVAL, without release.
ReturnEINVAL(self) ==
  /\ m_kind = BadKind
  /\ Return(self)
  /\ UNCHANGED <<mutexVars, ret, signalVars>>

pthread_mutex_trylock(self) ==
  /\ pc[self] = "trylock_body"
  /\ \/ ReturnEINVAL(self)
     \/ /\ m_kind # BadKind
        /\ \/ Available(self) /\ Take(self)
           \/ ~Available(self) /\ UNCHANGED <<m_count, m_owner, holds>>
        /\ release
        /\ Return(self)
        /\ UNCHANGED <<m_kind, m_waiting, p_nextwaiting, th, ret, signalVars>>

pthread_mutex_lock(self) ==
  /\ pc[self] = "lock_body"
  /\ \/ ReturnEINVAL(self)
     \/ /\ m_kind # BadKind
        /\ Available(self)
        /\ Take(self)
        /\ release
        /\ Return(self)
        /\ UNCHANGED <<m_kind, m_waiting, p_nextwaiting, th, ret, signalVars>>
     \/ /\ m_kind # BadKind
        /\ ~Available(self)
        /\ m_waiting' = enqueue(m_waiting, self)
        /\ p_nextwaiting' = enqueue_links(m_waiting, p_nextwaiting, self)
        /\ release
        /\ Goto(self, "suspend")
        /\ UNCHANGED <<m_count, m_owner, m_kind, th, holds, ret, signalVars>>

\* Mutant: if instead of while, the restarted thread takes the mutex untested.
lock_without_retry(self) ==
  /\ pc[self] = "suspend"
  /\ suspend(self)
  /\ Take(self)
  /\ Return(self)
  /\ UNCHANGED <<m_spinlock, m_kind, m_waiting, p_nextwaiting, th, ret>>

\* After suspend(self), the while(1) of pthread_mutex_lock tries again.
pthread_mutex_lock_retry(self) ==
  /\ pc[self] = "suspend"
  /\ suspend(self)
  /\ Goto(self, "mutex_lock")
  /\ UNCHANGED <<mutexVars, ret>>

\* Mutant: the last unlock of a recursive mutex is like the others.
StillLocked_always == m_kind = PTHREAD_MUTEX_RECURSIVE_NP

\* The recursive mutex stays locked by its owner.
StillLocked == m_kind = PTHREAD_MUTEX_RECURSIVE_NP /\ m_count > 1

\* if (th != NULL), where th is the thread dequeued.
wake_if_any(self) ==
  IF m_waiting.head = NULL THEN Return(self) ELSE Goto(self, "restart")

pthread_mutex_unlock(self) ==
  /\ pc[self] = "unlock_body"
  /\ \/ ReturnEINVAL(self)
     \/ /\ StillLocked
        /\ m_count' = m_count - 1
        /\ holds' = [holds EXCEPT ![self] = @ - 1]
        /\ release
        /\ Return(self)
        /\ UNCHANGED <<m_owner, m_kind, m_waiting, p_nextwaiting, th, ret,
                       signalVars>>
     \/ /\ m_kind # BadKind
        /\ ~StillLocked
        /\ m_count' = 0
        /\ holds' = [holds EXCEPT ![self] = @ - 1]
        /\ th' = [th EXCEPT ![self] = m_waiting.head]
        /\ m_waiting' = dequeue(m_waiting, p_nextwaiting)
        /\ p_nextwaiting' = dequeue_links(m_waiting, p_nextwaiting)
        /\ release
        /\ wake_if_any(self)
        /\ UNCHANGED <<m_owner, m_kind, ret, signalVars>>

\* restart(th)
pthread_mutex_unlock_restart(self) ==
  /\ pc[self] = "restart"
  /\ restart(th[self])
  /\ th' = [th EXCEPT ![self] = NULL]
  /\ Return(self)
  /\ UNCHANGED <<m_spinlock, m_count, m_owner, m_kind, m_waiting, p_nextwaiting,
                 holds, ret>>

\* Reads m_count to answer EBUSY or 0, and changes nothing.
pthread_mutex_destroy(self) ==
  /\ pc[self] = "destroy_body"
  /\ release
  /\ Return(self)
  /\ UNCHANGED <<m_count, m_owner, m_kind, m_waiting, p_nextwaiting, th, holds,
                 ret, signalVars>>

MutexStep(self) ==
  \/ acquire(self)
  \/ pthread_mutex_lock(self)
  \/ pthread_mutex_lock_retry(self)
  \/ pthread_mutex_trylock(self)
  \/ pthread_mutex_unlock(self)
  \/ pthread_mutex_unlock_restart(self)
  \/ pthread_mutex_destroy(self)
-----------------------------------------------------------------------------
\* At most one thread holds the mutex, and m_count is what the holder has
\* locked and not unlocked: 0 exactly when no thread holds it (the switch
\* statements of lock, trylock and unlock).
MutualExclusion ==
  /\ \A t, u \in Threads : holds[t] > 0 /\ holds[u] > 0 => t = u
  /\ \A t \in Threads : holds[t] > 0 => m_count = holds[t]
  /\ m_count > 0 => \E t \in Threads : holds[t] > 0

=============================================================================
