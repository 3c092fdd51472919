--------------------------- MODULE MCCondVarLive ---------------------------
(***************************************************************************)
(* Finite programs over CondVar: each thread makes at most Calls calls     *)
(* besides unlock, t1 one more (lock, wait and wait again), so that no     *)
(* thread locks the mutex for ever between an unlock and the wakeup it     *)
(* sent.                                                                   *)
(***************************************************************************)
EXTENDS CondVar

CONSTANTS t1, t2, t3, Calls

VARIABLE budget

\* Every thread has been restarted before.  (p_signal is only read when another
\* signal ends a suspend, so that its initial value makes no difference here.)
MCInit ==
  /\ Init
  /\ p_signal = [t \in Threads |-> PTHREAD_SIG_RESTART]
  /\ budget = [t \in Threads |-> IF t = t1 THEN Calls + 1 ELSE Calls]

LimitedCall(t) ==
  /\ CallLock(t) \/ CallWait(t) \/ CallSignal(t) \/ CallBroadcast(t)
  /\ budget[t] > 0
  /\ budget' = [budget EXCEPT ![t] = @ - 1]

Unlocking(t) == CallUnlock(t) /\ UNCHANGED budget

ThreadStep(t) == LibraryStep(t) /\ UNCHANGED budget

MCNext == \E t \in Threads : LimitedCall(t) \/ Unlocking(t) \/ ThreadStep(t)

(***************************************************************************)
(* The kernel runs every process that can run, and delivers pending        *)
(* signals (ThreadStep); a program that holds the mutex gives it up in the *)
(* end (Unlocking).  No thread need ever signal.                           *)
(***************************************************************************)
MCSpec ==
  /\ MCInit /\ [][MCNext]_<<vars, budget>>
  /\ \A t \in Threads : /\ WF_<<vars, budget>>(ThreadStep(t))
                        /\ WF_<<vars, budget>>(Unlocking(t))

\* A thread that pthread_cond_signal or pthread_cond_broadcast has taken from
\* the waiting queue returns from pthread_cond_wait with the mutex.
WokenReturns ==
  \A t \in Threads :
    Waiting(t) /\ ~InQueue(t, c_waiting) ~> pc[t] = "idle" /\ holds[t] > 0

=============================================================================
