------------------------------ MODULE Restart ------------------------------
(***************************************************************************)
(* suspend and restart (src/restart.h), and the handler of                 *)
(* PTHREAD_SIG_RESTART (__pthread_sighandler, src/pthread.c).              *)
(*                                                                         *)
(* A thread is a process of its own.  It blocks PTHREAD_SIG_RESTART except *)
(* inside sigsuspend, and a blocked signal is remembered by the kernel as  *)
(* one bit: two restarts sent before the thread suspends are one.          *)
(*                                                                         *)
(* suspend leaves its loop when p_signal = PTHREAD_SIG_RESTART after       *)
(* sigsuspend returns.  p_signal is set by the handler and never reset by  *)
(* suspend, so in a thread that has been restarted before, ANY handled     *)
(* signal ends the loop.                                                   *)
(***************************************************************************)
EXTENDS Queue

CONSTANT Interrupts   \* BOOLEAN: do the program's threads handle signals
                      \* other than PTHREAD_SIG_RESTART while suspended?

ASSUME InterruptsAssumption == Interrupts \in BOOLEAN

PTHREAD_SIG_RESTART == "SIG_RESTART"
NoSignal == "0"

VARIABLES sigpending,   \* threads on which PTHREAD_SIG_RESTART is pending
          p_signal      \* p_signal[t]: the last signal t's handler received

signalVars == <<sigpending, p_signal>>

SignalTypeOK ==
  /\ sigpending \in SUBSET Threads
  /\ p_signal \in [Threads -> {NoSignal, PTHREAD_SIG_RESTART}]

\* A thread that has called pthread_create has been restarted by the manager.
SignalInit ==
  /\ sigpending = {}
  /\ p_signal \in [Threads -> {NoSignal, PTHREAD_SIG_RESTART}]
-----------------------------------------------------------------------------
restart(th) ==
  /\ sigpending' = sigpending \cup {th}
  /\ UNCHANGED p_signal

\* self leaves sigsuspend because the pending restart signal was delivered.
suspend_restarted(self) ==
  /\ self \in sigpending
  /\ sigpending' = sigpending \ {self}
  /\ p_signal' = [p_signal EXCEPT ![self] = PTHREAD_SIG_RESTART]

\* self leaves sigsuspend because another signal was handled, and the loop
\* because of the stale p_signal.  (With p_signal # PTHREAD_SIG_RESTART it
\* goes round the loop: a stuttering step.)
suspend_interrupted(self) ==
  /\ Interrupts
  /\ p_signal[self] = PTHREAD_SIG_RESTART
  /\ UNCHANGED signalVars

suspend(self) == suspend_restarted(self) \/ suspend_interrupted(self)

=============================================================================
