------------------------------ MODULE CondVar ------------------------------
(***************************************************************************)
(* One condition variable of src/condvar.c and its mutex, used by the      *)
(* threads of a process.  The mutex is the one of MutexOps, step by step:  *)
(* a waiting thread is linked into the queue of the condition and then     *)
(* into that of the mutex through the same p_nextwaiting field.            *)
(*                                                                         *)
(* The code between acquire(&cond->c_spinlock) and its release is one      *)
(* step, possible when c_spinlock is free.                                 *)
(***************************************************************************)
EXTENDS MutexOps, CancelOps

CONSTANTS TimedWaits,   \* BOOLEAN: does the program call pthread_cond_timedwait,
          Broadcasts    \* and pthread_cond_broadcast?

ASSUME ProgramAssumption == TimedWaits \in BOOLEAN /\ Broadcasts \in BOOLEAN

VARIABLES c_spinlock, c_waiting,
          tosignal,    \* local variable of pthread_cond_broadcast
          toRestart    \* local variable th of pthread_cond_signal and broadcast

condVars == <<c_spinlock, c_waiting, tosignal, toRestart>>
vars == <<mutexVars, pc, ret, signalVars, cancelVars, condVars>>

CondLabels ==
  {"cond_wait", "cw_suspend", "cw_sleep", "cw_check",
   "cond_timedwait", "tw_setup", "tw_sleep", "tw_awake", "hung",
   "cond_signal", "signal_restart", "cond_broadcast", "broadcast_loop",
   "broadcast_restart", "exit", "exited"}

TypeOK ==
  /\ MutexTypeOK
  /\ CancelTypeOK
  /\ c_spinlock \in {0, 1}
  /\ c_waiting \in QueueType
  /\ tosignal \in [Threads -> QueueType]
  /\ toRestart \in [Threads -> Pointer]
  /\ pc \in [Threads -> MutexLabels \cup CondLabels \cup {"idle"}]
  /\ ret \in [Threads -> CondLabels \cup {"idle"}]

pthread_cond_init ==
  /\ c_spinlock = 0
  /\ c_waiting = queue_init

Init ==
  /\ MutexInit
  /\ CancelInit
  /\ pthread_cond_init
  /\ tosignal = [t \in Threads |-> queue_init]
  /\ toRestart = [t \in Threads |-> NULL]
  /\ pc = [t \in Threads |-> "idle"]
  /\ ret = [t \in Threads |-> "idle"]

\* Go on at entry; a mutex function called there returns to label.
Enter(self, entry, label) ==
  /\ Goto(self, entry)
  /\ ret' = [ret EXCEPT ![self] = label]
-----------------------------------------------------------------------------
(***************************************************************************)
(* pthread_cond_wait and pthread_cond_timedwait.                           *)
(***************************************************************************)
enqueue_self(self) ==
  /\ c_spinlock = 0
  /\ c_waiting' = enqueue(c_waiting, self)
  /\ p_nextwaiting' = enqueue_links(c_waiting, p_nextwaiting, self)
  /\ UNCHANGED <<c_spinlock, tosignal, toRestart>>

\* acquire; remove_from_queue; release.  On a corrupted queue the walk may
\* never end, with the spin lock held.
remove_self(self, entry, label) ==
  /\ c_spinlock = 0
  /\ IF remove_diverges(c_waiting, p_nextwaiting, self)
     THEN /\ c_spinlock' = 1
          /\ Goto(self, "hung")
          /\ UNCHANGED <<c_waiting, p_nextwaiting, ret>>
     ELSE /\ c_waiting' = remove_from_queue(c_waiting, p_nextwaiting, self)
          /\ p_nextwaiting' = remove_from_queue_links(c_waiting, p_nextwaiting, self)
          /\ Enter(self, entry, label)
          /\ UNCHANGED c_spinlock
  /\ UNCHANGED <<tosignal, toRestart>>

otherMutexVars == <<m_spinlock, m_count, m_owner, m_kind, m_waiting, th, holds>>

pthread_cond_wait(self) ==
  /\ pc[self] = "cond_wait"
  /\ enqueue_self(self)
  /\ Enter(self, "mutex_unlock", "cw_suspend")
  /\ UNCHANGED <<otherMutexVars, signalVars, cancelVars>>

\* Into suspend_with_cancellation.
pthread_cond_wait_suspend(self) ==
  /\ pc[self] = "cw_suspend"
  /\ IF CancelDue(self) THEN Enter(self, "mutex_lock", "cw_check")
     ELSE Goto(self, "cw_sleep") /\ UNCHANGED ret
  /\ UNCHANGED <<mutexVars, signalVars, cancelVars, condVars>>

pthread_cond_wait_resume(self) ==
  /\ pc[self] = "cw_sleep"
  /\ suspend_with_cancellation(self)
  /\ Enter(self, "mutex_lock", "cw_check")
  /\ UNCHANGED <<mutexVars, condVars>>

\* With the mutex again: the cancellation point, or the end of the call.
pthread_cond_wait_return(self) ==
  /\ pc[self] = "cw_check"
  /\ IF CancelDue(self)
     THEN /\ remove_self(self, "exit", "exit")
          /\ UNCHANGED otherMutexVars
     ELSE /\ Goto(self, "idle")
          /\ UNCHANGED <<mutexVars, ret, condVars>>
  /\ UNCHANGED <<signalVars, cancelVars>>

pthread_cond_timedwait(self) ==
  /\ pc[self] = "cond_timedwait"
  /\ enqueue_self(self)
  /\ Enter(self, "mutex_unlock", "tw_setup")
  /\ UNCHANGED <<otherMutexVars, signalVars, cancelVars>>

\* sigsetjmp, p_signal = 0 and the first cancellation test.
pthread_cond_timedwait_setup(self) ==
  /\ pc[self] = "tw_setup"
  /\ p_signal' = [p_signal EXCEPT ![self] = NoSignal]
  /\ Goto(self, IF CancelDue(self) THEN "tw_awake" ELSE "tw_sleep")
  /\ UNCHANGED <<mutexVars, ret, sigpending, cancelVars, condVars>>

\* With the restart signal unblocked, nanosleep ends: the restart handler jumps;
\* or the time is over; or another handler interrupts it, pthread_handle_sigcancel
\* or one of the program's.
pthread_cond_timedwait_wake(self) ==
  /\ pc[self] = "tw_sleep"
  /\ \/ suspend_restarted(self) /\ UNCHANGED cancelVars
     \/ UNCHANGED signalVars /\ UNCHANGED cancelVars
     \/ UNCHANGED signalVars /\ cancel_handled(self)
  /\ Goto(self, "tw_awake")
  /\ UNCHANGED <<mutexVars, ret, condVars>>

\* Mutant: a cancelled thread exits without the mutex.
timedwait_exits_unlocked(self) ==
  /\ pc[self] = "tw_awake"
  /\ IF CancelDue(self) \/ p_signal[self] = NoSignal
     THEN remove_self(self, IF CancelDue(self) THEN "exit" ELSE "mutex_lock", "idle")
     ELSE /\ c_spinlock = 0
          /\ Enter(self, "mutex_lock", "idle")
          /\ UNCHANGED <<p_nextwaiting, condVars>>
  /\ UNCHANGED <<otherMutexVars, signalVars, cancelVars>>

pthread_cond_timedwait_return(self) ==
  /\ pc[self] = "tw_awake"
  /\ IF CancelDue(self) \/ p_signal[self] = NoSignal
     THEN remove_self(self, "mutex_lock", IF CancelDue(self) THEN "exit" ELSE "idle")
     ELSE /\ c_spinlock = 0
          /\ Enter(self, "mutex_lock", "idle")
          /\ UNCHANGED <<p_nextwaiting, condVars>>
  /\ UNCHANGED <<otherMutexVars, signalVars, cancelVars>>
-----------------------------------------------------------------------------
(***************************************************************************)
(* pthread_cond_signal and pthread_cond_broadcast.                         *)
(***************************************************************************)
pthread_cond_signal(self) ==
  /\ pc[self] = "cond_signal"
  /\ c_spinlock = 0
  /\ toRestart' = [toRestart EXCEPT ![self] = c_waiting.head]
  /\ c_waiting' = dequeue(c_waiting, p_nextwaiting)
  /\ p_nextwaiting' = dequeue_links(c_waiting, p_nextwaiting)
  /\ Goto(self, IF c_waiting.head = NULL THEN "idle" ELSE "signal_restart")
  /\ UNCHANGED <<otherMutexVars, ret, signalVars, cancelVars, c_spinlock, tosignal>>

\* Mutant: the thread taken from the queue is not restarted.
restart_forgotten(self) ==
  /\ pc[self] \in {"signal_restart", "broadcast_restart"}
  /\ toRestart' = [toRestart EXCEPT ![self] = NULL]
  /\ Goto(self, IF pc[self] = "signal_restart" THEN "idle" ELSE "broadcast_loop")
  /\ UNCHANGED <<mutexVars, ret, cancelVars, c_spinlock, c_waiting, tosignal, signalVars>>

\* restart(th), then on: the end of signal, the next round of broadcast.
restart_waiter(self) ==
  /\ pc[self] \in {"signal_restart", "broadcast_restart"}
  /\ restart(toRestart[self])
  /\ toRestart' = [toRestart EXCEPT ![self] = NULL]
  /\ Goto(self, IF pc[self] = "signal_restart" THEN "idle" ELSE "broadcast_loop")
  /\ UNCHANGED <<mutexVars, ret, cancelVars, c_spinlock, c_waiting, tosignal>>

\* Mutants: the queue is emptied before it is copied; or not emptied.
broadcast_clears_first(self) ==
  /\ pc[self] = "cond_broadcast"
  /\ c_spinlock = 0
  /\ c_waiting' = queue_init
  /\ tosignal' = [tosignal EXCEPT ![self] = c_waiting']
  /\ Goto(self, "broadcast_loop")
  /\ UNCHANGED <<mutexVars, ret, signalVars, cancelVars, c_spinlock, toRestart>>

broadcast_never_clears(self) ==
  /\ pc[self] = "cond_broadcast"
  /\ c_spinlock = 0
  /\ tosignal' = [tosignal EXCEPT ![self] = c_waiting]
  /\ Goto(self, "broadcast_loop")
  /\ UNCHANGED <<mutexVars, ret, signalVars, cancelVars, c_spinlock, c_waiting,
                 toRestart>>

pthread_cond_broadcast(self) ==
  /\ pc[self] = "cond_broadcast"
  /\ c_spinlock = 0
  /\ tosignal' = [tosignal EXCEPT ![self] = c_waiting]
  /\ c_waiting' = queue_init
  /\ Goto(self, "broadcast_loop")
  /\ UNCHANGED <<mutexVars, ret, signalVars, cancelVars, c_spinlock, toRestart>>

\* while ((th = dequeue(&tosignal)) != NULL), no longer under the spin lock.
pthread_cond_broadcast_next(self) ==
  /\ pc[self] = "broadcast_loop"
  /\ toRestart' = [toRestart EXCEPT ![self] = tosignal[self].head]
  /\ tosignal' = [tosignal EXCEPT ![self] = dequeue(@, p_nextwaiting)]
  /\ p_nextwaiting' = dequeue_links(tosignal[self], p_nextwaiting)
  /\ Goto(self, IF tosignal[self].head = NULL THEN "idle" ELSE "broadcast_restart")
  /\ UNCHANGED <<otherMutexVars, ret, signalVars, cancelVars, c_spinlock, c_waiting>>
-----------------------------------------------------------------------------
(***************************************************************************)
(* Cancellation.                                                           *)
(***************************************************************************)

\* pthread_exit(PTHREAD_CANCELED): p_canceled is reset, and the cleanup handler
\* the manual prescribes unlocks the mutex.
pthread_exit(self) ==
  /\ pc[self] = "exit"
  /\ p_canceled' = [p_canceled EXCEPT ![self] = FALSE]
  /\ Enter(self, "mutex_unlock", "exited")
  /\ UNCHANGED <<mutexVars, signalVars, p_cancelstate, sigcancel, condVars>>

\* PTHREAD_SIG_CANCEL handled where the handler does not jump.  In the suspend
\* of pthread_mutex_lock it ends sigsuspend, and with a stale p_signal the loop.
sigcancel_ignored(self) ==
  /\ cancel_handled(self)
  /\ ~(pc[self] = "cw_sleep" /\ CancelDue(self))
  /\ \/ UNCHANGED pc
     \/ /\ pc[self] = "suspend"
        /\ p_signal[self] = PTHREAD_SIG_RESTART
        /\ Goto(self, "mutex_lock")
  /\ UNCHANGED <<mutexVars, ret, signalVars, condVars>>

CondStep(self) ==
  \/ pthread_cond_wait(self)
  \/ pthread_cond_wait_suspend(self)
  \/ pthread_cond_wait_resume(self)
  \/ pthread_cond_wait_return(self)
  \/ pthread_cond_timedwait(self)
  \/ pthread_cond_timedwait_setup(self)
  \/ pthread_cond_timedwait_wake(self)
  \/ pthread_cond_timedwait_return(self)
  \/ pthread_cond_signal(self)
  \/ restart_waiter(self)
  \/ pthread_cond_broadcast(self)
  \/ pthread_cond_broadcast_next(self)
  \/ pthread_exit(self)
  \/ sigcancel_ignored(self)

LibraryStep(self) ==
  \/ MutexStep(self) /\ UNCHANGED <<cancelVars, condVars>>
  \/ CondStep(self)
-----------------------------------------------------------------------------
(***************************************************************************)
(* The calls a program makes.  It locks and unlocks the mutex properly,    *)
(* and waits holding it.                                                   *)
(***************************************************************************)
Call(self, entry) ==
  /\ pc[self] = "idle"
  /\ Enter(self, entry, "idle")
  /\ UNCHANGED <<mutexVars, signalVars, cancelVars, condVars>>

CallLock(self) == holds[self] = 0 /\ Call(self, "mutex_lock")
CallUnlock(self) == holds[self] > 0 /\ Call(self, "mutex_unlock")
CallWait(self) == holds[self] > 0 /\ Call(self, "cond_wait")
CallTimedwait(self) == TimedWaits /\ holds[self] > 0 /\ Call(self, "cond_timedwait")
CallSignal(self) == Call(self, "cond_signal")
CallBroadcast(self) == Broadcasts /\ Call(self, "cond_broadcast")

\* The caller of pthread_cancel is any thread of the process.
CallCancel(thread) ==
  /\ thread \in Cancels
  /\ pc[thread] \notin {"exit", "exited"}
  /\ ~p_canceled[thread]
  /\ pthread_cancel(thread)
  /\ UNCHANGED <<mutexVars, pc, ret, signalVars, condVars>>

ProgramCall(self) ==
  \/ CallLock(self)
  \/ CallUnlock(self)
  \/ CallWait(self)
  \/ CallTimedwait(self)
  \/ CallSignal(self)
  \/ CallBroadcast(self)
  \/ CallCancel(self)

Next == \E self \in Threads : ProgramCall(self) \/ LibraryStep(self)

Spec == Init /\ [][Next]_vars
-----------------------------------------------------------------------------
(***************************************************************************)
(* Safety.                                                                 *)
(***************************************************************************)

\* t has joined the queue of the condition and has not yet been resumed.
Waiting(t) == \/ ret[t] \in {"cw_suspend", "tw_setup"}
                   /\ pc[t] \in {"mutex_unlock", "unlock_body", "restart"}
              \/ pc[t] \in {"cw_suspend", "cw_sleep", "tw_setup", "tw_sleep"}

RestartDue(t) ==
  \/ t \in sigpending
  \/ \E u \in Threads : \/ pc[u] = "restart" /\ th[u] = t
                        \/ toRestart[u] = t

InQueue(t, q) == t \in Reachable(q, p_nextwaiting)
InCondQueue(t) == \/ InQueue(t, c_waiting)
                  \/ \E u \in Threads : InQueue(t, tosignal[u])

\* A restart is due only to a thread that waits for it, outside the queues: a
\* stray one would end some later suspend before its time.
NoStrayRestart ==
  \A t \in Threads : RestartDue(t) =>
    \/ Waiting(t) /\ ~InCondQueue(t)
    \/ pc[t] = "suspend" /\ ~InQueue(t, m_waiting)

\* No wakeup slips between the unlock of pthread_cond_wait and its suspend: a
\* waiting thread is in the queue, or in the list of a broadcast, or has been
\* taken out of it and its restart is due.
NoStrandedWaiter ==
  \A t \in Threads : Waiting(t) => InCondQueue(t) \/ RestartDue(t)

\* "cleanup handlers are assured that mutex is locked when they are called"
\* (man/pthread_cond_init.man), by the thread itself.
CleanupHoldsMutex ==
  \A t \in Threads : pc[t] \in {"cw_check", "exit"} => holds[t] > 0 /\ m_count > 0

=============================================================================
