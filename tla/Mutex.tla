------------------------------- MODULE Mutex -------------------------------
(***************************************************************************)
(* The threads of a process use one mutex of src/mutex.c.                  *)
(*                                                                         *)
(* A program unlocks only what it holds and does not lock a fast mutex it  *)
(* holds, which would block it for ever (man/pthread_mutex_init.man).  Of  *)
(* an improperly initialized mutex it holds nothing; it may call unlock.   *)
(***************************************************************************)
EXTENDS MutexOps

CONSTANT MaxDepth    \* bound on the nesting of locks of a recursive mutex

ASSUME MaxDepthAssumption == MaxDepth \in Nat

vars == <<mutexVars, pc, ret, signalVars>>

TypeOK ==
  /\ MutexTypeOK
  /\ pc \in [Threads -> MutexLabels \cup {"idle"}]
  /\ ret \in [Threads -> {"idle"}]

Init ==
  /\ MutexInit
  /\ pc = [t \in Threads |-> "idle"]
  /\ ret = [t \in Threads |-> "idle"]
-----------------------------------------------------------------------------
(***************************************************************************)
(* The calls a program makes.                                              *)
(***************************************************************************)
Call(self, entry) ==
  /\ pc[self] = "idle"
  /\ Goto(self, entry)
  /\ ret' = [ret EXCEPT ![self] = "idle"]
  /\ UNCHANGED <<mutexVars, signalVars>>

MayLock(self) ==
  IF m_kind = PTHREAD_MUTEX_RECURSIVE_NP THEN holds[self] < MaxDepth
  ELSE holds[self] = 0

CallLock(self) == MayLock(self) /\ Call(self, "mutex_lock")
CallTrylock(self) == MayLock(self) /\ Call(self, "mutex_trylock")
CallUnlock(self) ==
  /\ holds[self] > 0 \/ m_kind = BadKind
  /\ Call(self, "mutex_unlock")
CallDestroy(self) == Call(self, "mutex_destroy")

ProgramCall(self) ==
  \/ CallLock(self)
  \/ CallTrylock(self)
  \/ CallUnlock(self)
  \/ CallDestroy(self)

Next == \E self \in Threads : ProgramCall(self) \/ MutexStep(self)

Spec == Init /\ [][Next]_vars
-----------------------------------------------------------------------------
(***************************************************************************)
(* Safety.                                                                 *)
(***************************************************************************)

\* A thread on its way to the mutex: in pthread_mutex_lock and not asleep in
\* the queue.  A thread dequeued by unlock stays at "suspend" until the signal
\* reaches it.
InBodies(t) == pc[t] \in Bodies
RestartDue(t) == \/ t \in sigpending
                 \/ \E u \in Threads : pc[u] = "restart" /\ th[u] = t
OnItsWay(t) ==
  \/ pc[t] \in {"mutex_lock", "lock_body"}
  \/ pc[t] = "suspend" /\ RestartDue(t)

\* No lost wakeup: a free mutex with threads in its queue has a thread on its
\* way, whose own unlock will wake the next (pthread_mutex_unlock wakes only
\* one waiter, and any other thread may lock in between).
NoLostWakeup ==
  m_count = 0 /\ m_waiting.head # NULL => \E t \in Threads : OnItsWay(t)

\* A restart signal is only ever pending on a thread that is suspended waiting
\* for it, and at most one is on the way: one left over would end a later
\* suspend of the thread, in whatever function, before its time.
NoStrayRestart ==
  /\ \A t \in sigpending : pc[t] = "suspend"
  /\ \A u \in Threads : pc[u] = "restart" =>
       /\ pc[th[u]] = "suspend"
       /\ th[u] \notin sigpending
       /\ \A v \in Threads : pc[v] = "restart" /\ th[v] = th[u] => v = u

\* ASSERT(th->p_nextwaiting == NULL) of enqueue (src/queue.h).
EnqueueAssert ==
  \A t \in Threads : pc[t] = "lock_body" /\ ~Available(t)
                       => p_nextwaiting[t] = NULL

\* m_spinlock of a properly initialized mutex is held only inside a function of
\* the mutex: no return leaves it held, so every acquire gets its turn.
SpinlockReleased ==
  m_kind # BadKind /\ m_spinlock = 1 => \E t \in Threads : InBodies(t)
-----------------------------------------------------------------------------
(***************************************************************************)
(* The abstract mutex: the line is what the queue holds, and the threads   *)
(* on their way contend.  Nobody gets an improperly initialized mutex.     *)
(***************************************************************************)
Orders == UNION {[1..n -> Threads] : n \in 0..Cardinality(Threads)}
Line(q, next) == CHOOSE s \in Orders : Holds(q, next, s)

Holder(held) ==
  IF \E t \in Threads : held[t] > 0 THEN CHOOSE t \in Threads : held[t] > 0 ELSE NULL

Contending == {t \in Threads : OnItsWay(t) /\ m_kind # BadKind}

Abstract == INSTANCE AbstractMutex
  WITH owner <- Holder(holds), depth <- m_count,
       line <- Line(m_waiting, p_nextwaiting), contending <- Contending
-----------------------------------------------------------------------------
(***************************************************************************)
(* The inductive invariants behind the theorems of MutexProofs.            *)
(***************************************************************************)

SpinExclusion ==
  /\ \A t, u \in Threads : InBodies(t) /\ InBodies(u) => t = u
  /\ (\E t \in Threads : InBodies(t)) => m_spinlock = 1

Ownership ==
  /\ MutualExclusion
  /\ m_kind = PTHREAD_MUTEX_RECURSIVE_NP
       => \A t \in Threads : holds[t] > 0 => m_owner = t
  /\ m_kind = PTHREAD_MUTEX_FAST_NP => m_count <= 1
  /\ m_kind = BadKind => m_count = 0
  /\ \A t \in Threads : pc[t] \in {"mutex_unlock", "unlock_body"}
                           => holds[t] > 0 \/ m_kind = BadKind

RestartTarget == \A t \in Threads : pc[t] = "restart" => th[t] # NULL

\* Holds whatever signals the threads receive.
OwnershipInv == TypeOK /\ SpinExclusion /\ Ownership /\ RestartTarget

\* The threads asleep in the queue are s, and they have no restart due; every
\* other sleeper has exactly one.
Asleep(s) == {s[i] : i \in 1..Len(s)}

WaitersAre(s) ==
  /\ Holds(m_waiting, p_nextwaiting, s)
  /\ \A t \in Threads \ Asleep(s) : p_nextwaiting[t] = NULL
  /\ \A t \in Asleep(s) : pc[t] = "suspend" /\ ~RestartDue(t)
  /\ \A t \in Threads \ Asleep(s) : pc[t] = "suspend" => RestartDue(t)

\* Holds when the threads receive no signal but restart.
WakeupInv(S) ==
  /\ NoStrayRestart
  /\ NoLostWakeup
  /\ m_kind = BadKind => m_waiting.head = NULL
  /\ \E s \in S : WaitersAre(s)

=============================================================================
