---------------------------- MODULE MCSemaphore ----------------------------
(***************************************************************************)
(* Finite programs over Semaphore: a thread makes at most Calls calls, one *)
(* that may be cancelled a single one, the sem_wait it is cancelled in.    *)
(***************************************************************************)
EXTENDS Semaphore, TLC

CONSTANTS t1, t2, t3, Calls

VARIABLE budget

\* Every thread has been restarted before.  (p_signal is only read when another
\* signal ends a suspend, so that its initial value makes no difference here.)
MCInit ==
  /\ Init
  /\ p_signal = [t \in Threads |-> PTHREAD_SIG_RESTART]
  /\ budget = [t \in Threads |-> IF t \in Cancels THEN 1 ELSE Calls]

LimitedCall(t) ==
  /\ Call(t, "wait_read") \/ Call(t, "try_read") \/ Call(t, "post_read")
  /\ budget[t] > 0
  /\ budget' = [budget EXCEPT ![t] = @ - 1]

Cancelling(t) == CallCancel(t) /\ UNCHANGED budget
ThreadStep(t) == LibraryStep(t) /\ UNCHANGED budget

MCNext ==
  Running /\ \E t \in Threads : LimitedCall(t) \/ Cancelling(t) \/ ThreadStep(t)

\* The kernel runs every process that can run, and delivers pending signals; no
\* thread need ever call a function.
MCSpec ==
  /\ MCInit /\ [][MCNext]_<<vars, budget>>
  /\ \A t \in Threads : WF_<<vars, budget>>(Running /\ ThreadStep(t))

=============================================================================
