---------------------------- MODULE CancelOps ----------------------------
(***************************************************************************)
(* Deferred cancellation as the blocking functions see it: pthread_cancel  *)
(* (src/cancel.c), the handler of PTHREAD_SIG_CANCEL (src/pthread.c) and   *)
(* suspend_with_cancellation (src/restart.h).                              *)
(*                                                                         *)
(* PTHREAD_SIG_CANCEL is not blocked: once sent it is handled between any  *)
(* two steps of its target.  p_cancel_jmp is not NULL exactly while the    *)
(* thread is inside suspend_with_cancellation, at the label of its         *)
(* sigsuspend; only there does the handler jump.                           *)
(***************************************************************************)
EXTENDS Restart

PTHREAD_CANCEL_ENABLE == "ENABLE"
PTHREAD_CANCEL_DISABLE == "DISABLE"

CONSTANTS Cancels,       \* the threads the program may cancel
          CancelStates   \* the cancellation states it has put them in

ASSUME CancelAssumption ==
  /\ Cancels \subseteq Threads
  /\ CancelStates \subseteq {PTHREAD_CANCEL_ENABLE, PTHREAD_CANCEL_DISABLE}

VARIABLES p_canceled, p_cancelstate,
          sigcancel    \* threads on which PTHREAD_SIG_CANCEL is pending

cancelVars == <<p_canceled, p_cancelstate, sigcancel>>

CancelTypeOK ==
  /\ p_canceled \in [Threads -> BOOLEAN]
  /\ p_cancelstate \in [Threads -> {PTHREAD_CANCEL_ENABLE, PTHREAD_CANCEL_DISABLE}]
  /\ sigcancel \in SUBSET Threads

CancelInit ==
  /\ p_canceled = [t \in Threads |-> FALSE]
  /\ p_cancelstate \in [Threads -> CancelStates \cup {PTHREAD_CANCEL_ENABLE}]
  /\ \A t \in Threads : p_cancelstate[t] \in
       IF t \in Cancels THEN CancelStates ELSE {PTHREAD_CANCEL_ENABLE}
  /\ sigcancel = {}

\* The test of every cancellation point.
CancelDue(self) ==
  p_canceled[self] /\ p_cancelstate[self] = PTHREAD_CANCEL_ENABLE
-----------------------------------------------------------------------------
\* Mutant: the flag alone.
cancel_without_kill(thread) ==
  /\ p_canceled' = [p_canceled EXCEPT ![thread] = TRUE]
  /\ UNCHANGED <<p_cancelstate, sigcancel>>

pthread_cancel(thread) ==
  /\ p_canceled' = [p_canceled EXCEPT ![thread] = TRUE]
  /\ sigcancel' = sigcancel \cup {thread}
  /\ UNCHANGED p_cancelstate

\* pthread_handle_sigcancel takes the signal.
cancel_handled(self) ==
  /\ self \in sigcancel
  /\ sigcancel' = sigcancel \ {self}
  /\ UNCHANGED <<p_canceled, p_cancelstate>>

\* The handler jumps out of suspend_with_cancellation.  A restart signal is
\* unblocked until the jump's landing blocks it again: one that is pending may
\* be handled in between.
swc_canceled(self) ==
  /\ CancelDue(self)
  /\ cancel_handled(self)
  /\ UNCHANGED signalVars \/ suspend_restarted(self)

\* The handler returns, as any other handler does, to the loop around sigsuspend.
swc_interrupted(self) ==
  /\ p_signal[self] = PTHREAD_SIG_RESTART
  /\ UNCHANGED signalVars
  /\ \/ Interrupts /\ UNCHANGED cancelVars
     \/ ~CancelDue(self) /\ cancel_handled(self)

swc_restarted(self) == suspend_restarted(self) /\ UNCHANGED cancelVars

\* Leaving the sigsuspend of suspend_with_cancellation.
suspend_with_cancellation(self) ==
  \/ swc_restarted(self)
  \/ swc_interrupted(self)
  \/ swc_canceled(self)

=============================================================================
