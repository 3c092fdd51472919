-------------------------- MODULE MCMutexAbstract --------------------------
(***************************************************************************)
(* Finite programs over Mutex: each thread makes at most Calls calls of    *)
(* lock, trylock and destroy: no thread barges in for ever (src/mutex.c    *)
(* lets any thread lock a mutex between an unlock and the wakeup it sent,  *)
(* and promises a waiter nothing against that).                            *)
(***************************************************************************)
EXTENDS Mutex

CONSTANTS t1, t2, t3, Calls

VARIABLE budget

\* Every thread has been restarted before.  (p_signal is only read when another
\* signal ends a suspend, so that its initial value makes no difference here.)
MCInit ==
  /\ Init
  /\ p_signal = [t \in Threads |-> PTHREAD_SIG_RESTART]
  /\ budget = [t \in Threads |-> Calls]

LimitedCall(t) ==
  /\ CallLock(t) \/ CallTrylock(t) \/ CallDestroy(t)
  /\ budget[t] > 0
  /\ budget' = [budget EXCEPT ![t] = @ - 1]

Unlocking(t) == CallUnlock(t) /\ UNCHANGED budget

LibraryStep(t) == MutexStep(t) /\ UNCHANGED budget

MCNext == \E t \in Threads : LimitedCall(t) \/ Unlocking(t) \/ LibraryStep(t)

(***************************************************************************)
(* The kernel runs every process that can run, and delivers pending        *)
(* signals (LibraryStep); a program that holds the mutex unlocks it in     *)
(* the end (Unlocking).  No thread need ever call lock.                    *)
(***************************************************************************)
MCSpec ==
  /\ MCInit /\ [][MCNext]_<<vars, budget>>
  /\ \A t \in Threads : /\ WF_<<vars, budget>>(LibraryStep(t))
                        /\ WF_<<vars, budget>>(Unlocking(t))

\* Every call of pthread_mutex_lock on a properly initialized mutex returns
\* with the mutex, once the other threads stop locking: no wakeup is lost on
\* the way from unlock through the queue, the signal and suspend.
LockReturns ==
  \A t \in Threads :
    pc[t] = "mutex_lock" /\ m_kind # BadKind ~> pc[t] = "idle" /\ holds[t] > 0

\* The mutex of src/mutex.c implements AbstractMutex: one owner, first come
\* first restarted, and each release of the mutex wakes the head of the line.
ImplementsAbstractMutex == Abstract!FairSpec

=============================================================================
