------------------------------- MODULE Signals -------------------------------
(***************************************************************************)
(* Signal masks, sigwait and pthread_kill (src/signals.c), with suspend and *)
(* restart (src/restart.h), the handler they share (__pthread_sighandler)  *)
(* and the handler of PTHREAD_SIG_CANCEL (src/pthread.c).                  *)
(*                                                                         *)
(* Every thread has its own mask and its own pending signals.  The table   *)
(* of handlers belongs to the process: sigwait changes it for all threads. *)
(***************************************************************************)
EXTENDS Integers

CONSTANTS Threads,
          Waited,        \* the signals the program waits for, as numbers
          Handled,       \* the signals it has handlers for
          Shares,        \* BOOLEAN: do threads wait for the same signals at once?
          CancelStates   \* the cancellation states of the threads

PTHREAD_SIG_RESTART == 10
PTHREAD_SIG_CANCEL == 12
UserSignals == Waited \cup Handled
NSIG == UserSignals \cup {PTHREAD_SIG_RESTART, PTHREAD_SIG_CANCEL}

ASSUME SignalsAssumption ==
  /\ UserSignals \subseteq Nat \ {0, PTHREAD_SIG_RESTART, PTHREAD_SIG_CANCEL}
  /\ Shares \in BOOLEAN
  /\ CancelStates \subseteq {"ENABLE", "DISABLE"}

VARIABLES
  sigmask,        \* the signals a thread blocks
  sigpending,     \* the signals pending on a thread
  handler,        \* the process-wide table
  p_signal, p_canceled, p_cancelstate,
  p_cancel_jmp,   \* BOOLEAN: is there somewhere to jump to?
  pc,
  set,            \* argument of sigwait
  todo,           \* the signals its loop has not come to
  saved_signals,  \* local variable of sigwait
  sig             \* the result of the last sigwait

cancelVars == <<p_canceled, p_cancelstate>>
waitVars == <<set, todo, saved_signals, sig>>
vars == <<sigmask, sigpending, handler, p_signal, cancelVars, p_cancel_jmp, pc, waitVars>>

Handlers == {"program", "__pthread_sighandler", "pthread_handle_sigcancel"}

\* The handlers the program and pthread_initialize install.
Installed ==
  [s \in NSIG |-> CASE s = PTHREAD_SIG_RESTART -> "__pthread_sighandler"
                    [] s = PTHREAD_SIG_CANCEL -> "pthread_handle_sigcancel"
                    [] OTHER -> "program"]

Labels == {"run", "suspend", "install", "test", "sigsuspend", "clear", "restore",
           "testcancel", "exited"}

TypeOK ==
  /\ sigmask \in [Threads -> SUBSET NSIG]
  /\ sigpending \in [Threads -> SUBSET NSIG]
  /\ handler \in [NSIG -> Handlers]
  /\ p_signal \in [Threads -> NSIG \cup {0}]
  /\ p_canceled \in [Threads -> BOOLEAN]
  /\ p_cancelstate \in [Threads -> {"ENABLE", "DISABLE"}]
  /\ p_cancel_jmp \in [Threads -> BOOLEAN]
  /\ pc \in [Threads -> Labels]
  /\ set \in [Threads -> SUBSET Waited]
  /\ todo \in [Threads -> SUBSET Waited]
  /\ saved_signals \in [Threads -> [Waited -> Handlers]]
  /\ sig \in [Threads -> NSIG \cup {0}]

\* The threads start with all signals blocked.
Init ==
  /\ sigmask = [t \in Threads |-> UserSignals \cup {PTHREAD_SIG_RESTART}]
  /\ sigpending = [t \in Threads |-> {}]
  /\ handler = Installed
  /\ p_signal \in [Threads -> {0, PTHREAD_SIG_RESTART}]
  /\ p_canceled = [t \in Threads |-> FALSE]
  /\ p_cancelstate \in [Threads -> CancelStates]
  /\ p_cancel_jmp = [t \in Threads |-> FALSE]
  /\ pc = [t \in Threads |-> "run"]
  /\ set = [t \in Threads |-> {}]
  /\ todo = [t \in Threads |-> {}]
  /\ saved_signals = [t \in Threads |-> [s \in Waited |-> "program"]]
  /\ sig = [t \in Threads |-> PTHREAD_SIG_RESTART]

Goto(self, label) == pc' = [pc EXCEPT ![self] = label]
CancelDue(self) == p_canceled[self] /\ p_cancelstate[self] = "ENABLE"
-----------------------------------------------------------------------------
\* The mask after pthread_sigmask: what is added to and taken from newmask, and
\* what sigprocmask does with it.
NewMask(how, newmask, mask) ==
  CASE how = "SIG_SETMASK" ->
         (newmask \cup {PTHREAD_SIG_RESTART}) \ {PTHREAD_SIG_CANCEL}
    [] how = "SIG_BLOCK" -> mask \cup (newmask \ {PTHREAD_SIG_CANCEL})
    [] how = "SIG_UNBLOCK" -> mask \ (newmask \ {PTHREAD_SIG_RESTART})

pthread_sigmask(self, how, newmask) ==
  /\ pc[self] = "run"
  /\ sigmask' = [sigmask EXCEPT ![self] = NewMask(how, newmask, @)]
  /\ UNCHANGED <<sigpending, handler, p_signal, cancelVars, p_cancel_jmp, pc, waitVars>>

\* pthread_kill(thread, s), and restart(thread) for PTHREAD_SIG_RESTART.
pthread_kill(thread, s) ==
  /\ pc[thread] # "exited"
  /\ sigpending' = [sigpending EXCEPT ![thread] = @ \cup {s}]
  /\ UNCHANGED <<sigmask, handler, p_signal, cancelVars, p_cancel_jmp, pc, waitVars>>

\* Both lines in one step; what is between them is in Cancel.
pthread_cancel(thread) ==
  /\ pc[thread] # "exited"
  /\ p_canceled' = [p_canceled EXCEPT ![thread] = TRUE]
  /\ sigpending' = [sigpending EXCEPT ![thread] = @ \cup {PTHREAD_SIG_CANCEL}]
  /\ UNCHANGED <<sigmask, handler, p_signal, p_cancelstate, p_cancel_jmp, pc, waitVars>>

suspend(self) ==
  /\ pc[self] = "run"
  /\ Goto(self, "suspend")
  /\ UNCHANGED <<sigmask, sigpending, handler, p_signal, cancelVars, p_cancel_jmp, waitVars>>
-----------------------------------------------------------------------------
(***************************************************************************)
(* sigwait.                                                                *)
(***************************************************************************)
InSigwait(t) == pc[t] \notin {"run", "suspend", "exited"}

sigwait(self, signals) ==
  /\ pc[self] = "run"
  /\ Shares \/ \A t \in Threads : InSigwait(t) => set[t] \cap signals = {}
  /\ set' = [set EXCEPT ![self] = signals]
  /\ todo' = [todo EXCEPT ![self] = signals]
  /\ Goto(self, "install")
  /\ UNCHANGED <<sigmask, sigpending, handler, p_signal, cancelVars, p_cancel_jmp, saved_signals, sig>>

Next_todo(self) == CHOOSE s \in todo[self] : \A r \in todo[self] : s <= r

\* A round of the first loop, or its end and the sigsetjmp.
sigwait_install(self) ==
  /\ pc[self] = "install"
  /\ IF todo[self] # {}
     THEN LET s == Next_todo(self) IN
          /\ saved_signals' = [saved_signals EXCEPT ![self][s] = handler[s]]
          /\ handler' = [handler EXCEPT ![s] = "__pthread_sighandler"]
          /\ todo' = [todo EXCEPT ![self] = @ \ {s}]
          /\ UNCHANGED <<pc, p_cancel_jmp>>
     ELSE /\ p_cancel_jmp' = [p_cancel_jmp EXCEPT ![self] = TRUE]
          /\ Goto(self, "test")
          /\ UNCHANGED <<handler, todo, saved_signals>>
  /\ UNCHANGED <<sigmask, sigpending, p_signal, cancelVars, set, sig>>

sigwait_test(self) ==
  /\ pc[self] = "test"
  /\ IF CancelDue(self)
     THEN Goto(self, "clear") /\ UNCHANGED p_signal
     ELSE /\ p_signal' = [p_signal EXCEPT ![self] = 0]
          /\ Goto(self, "sigsuspend")
  /\ UNCHANGED <<sigmask, sigpending, handler, cancelVars, p_cancel_jmp, waitVars>>

sigwait_clear(self) ==
  /\ pc[self] = "clear"
  /\ p_cancel_jmp' = [p_cancel_jmp EXCEPT ![self] = FALSE]
  /\ todo' = [todo EXCEPT ![self] = set[self]]
  /\ Goto(self, "restore")
  /\ UNCHANGED <<sigmask, sigpending, handler, p_signal, cancelVars, set, saved_signals, sig>>

\* Mutant: the first signal is not given its handler back.
restore_misses_one(self) ==
  /\ pc[self] = "restore"
  /\ IF todo[self] # {}
     THEN LET s == Next_todo(self) IN
          /\ handler' = IF todo[self] = set[self] THEN handler
                        ELSE [handler EXCEPT ![s] = saved_signals[self][s]]
          /\ todo' = [todo EXCEPT ![self] = @ \ {s}]
          /\ UNCHANGED pc
     ELSE Goto(self, "testcancel") /\ UNCHANGED <<handler, todo>>
  /\ UNCHANGED <<sigmask, sigpending, p_signal, cancelVars, p_cancel_jmp, set, saved_signals, sig>>

\* A round of the second loop, or its end.
sigwait_restore(self) ==
  /\ pc[self] = "restore"
  /\ IF todo[self] # {}
     THEN LET s == Next_todo(self) IN
          /\ handler' = [handler EXCEPT ![s] = saved_signals[self][s]]
          /\ todo' = [todo EXCEPT ![self] = @ \ {s}]
          /\ UNCHANGED pc
     ELSE Goto(self, "testcancel") /\ UNCHANGED <<handler, todo>>
  /\ UNCHANGED <<sigmask, sigpending, p_signal, cancelVars, p_cancel_jmp, set, saved_signals, sig>>

\* Mutant: no test for cancellation.
return_untested(self) ==
  /\ pc[self] = "testcancel"
  /\ sig' = [sig EXCEPT ![self] = p_signal[self]]
  /\ Goto(self, "run")
  /\ UNCHANGED <<sigmask, sigpending, handler, p_signal, cancelVars, p_cancel_jmp, set, todo, saved_signals>>

sigwait_return(self) ==
  /\ pc[self] = "testcancel"
  /\ IF CancelDue(self)
     THEN Goto(self, "exited") /\ UNCHANGED sig
     ELSE /\ sig' = [sig EXCEPT ![self] = p_signal[self]]
          /\ Goto(self, "run")
  /\ UNCHANGED <<sigmask, sigpending, handler, p_signal, cancelVars, p_cancel_jmp, set, todo, saved_signals>>
-----------------------------------------------------------------------------
(***************************************************************************)
(* The kernel delivers a pending signal that the thread does not block, or *)
(* that its sigsuspend lets through.                                       *)
(***************************************************************************)

\* Mutants: sigwait begins with an empty mask instead of one with all signals, or
\* the signals waited for are not taken out of it.
mask_not_filled(self) ==
  CASE pc[self] = "suspend" -> sigmask[self] \ {PTHREAD_SIG_RESTART}
    [] pc[self] = "sigsuspend" -> UserSignals \ set[self]
    [] OTHER -> sigmask[self]
mask_keeps_set(self) ==
  CASE pc[self] = "suspend" -> sigmask[self] \ {PTHREAD_SIG_RESTART}
    [] pc[self] = "sigsuspend" -> NSIG \ {PTHREAD_SIG_CANCEL}
    [] OTHER -> sigmask[self]

\* The mask in force.
mask(self) ==
  CASE pc[self] = "suspend" -> sigmask[self] \ {PTHREAD_SIG_RESTART}
    [] pc[self] = "sigsuspend" -> NSIG \ (set[self] \cup {PTHREAD_SIG_CANCEL})
    [] OTHER -> sigmask[self]

Taken(self, s) ==
  /\ s \in sigpending[self] \ mask(self)
  /\ pc[self] # "exited"
  /\ sigpending' = [sigpending EXCEPT ![self] = @ \ {s}]
  /\ UNCHANGED <<sigmask, handler, cancelVars, waitVars>>

\* Where a handler returns to: sigsuspend returns, and suspend goes round its
\* loop unless the last signal recorded is PTHREAD_SIG_RESTART.
Return(self) ==
  CASE pc[self] = "sigsuspend" -> "clear"
    [] pc[self] = "suspend" /\ p_signal'[self] = PTHREAD_SIG_RESTART -> "run"
    [] OTHER -> pc[self]

__pthread_sighandler(self, s) ==
  /\ handler[s] = "__pthread_sighandler"
  /\ Taken(self, s)
  /\ p_signal' = [p_signal EXCEPT ![self] = s]
  /\ Goto(self, Return(self))
  /\ UNCHANGED p_cancel_jmp

\* A handler of the program.
program_handler(self, s) ==
  /\ handler[s] = "program"
  /\ Taken(self, s)
  /\ UNCHANGED <<p_signal, p_cancel_jmp>>
  /\ Goto(self, Return(self))

\* In deferred mode (for the other see Cancel).
pthread_handle_sigcancel(self) ==
  /\ Taken(self, PTHREAD_SIG_CANCEL)
  /\ UNCHANGED p_signal
  /\ IF CancelDue(self) /\ p_cancel_jmp[self]
     THEN /\ p_cancel_jmp' = [p_cancel_jmp EXCEPT ![self] = FALSE]
          /\ Goto(self, "clear")
     ELSE Goto(self, Return(self)) /\ UNCHANGED p_cancel_jmp
-----------------------------------------------------------------------------
\* The signals that are waited for are blocked in all threads, as the manual
\* page asks.
ProgramCall(self) ==
  \/ \E newmask \in SUBSET (NSIG \ Waited) :
       \/ pthread_sigmask(self, "SIG_SETMASK", newmask \cup Waited)
       \/ pthread_sigmask(self, "SIG_BLOCK", newmask)
       \/ pthread_sigmask(self, "SIG_UNBLOCK", newmask)
  \/ \E signals \in (SUBSET Waited) \ {{}} : sigwait(self, signals)
  \/ suspend(self)

SignalSent(thread) ==
  \/ \E s \in UserSignals \cup {PTHREAD_SIG_RESTART} : pthread_kill(thread, s)
  \/ pthread_cancel(thread)

Step(self) ==
  \/ sigwait_install(self) \/ sigwait_test(self) \/ sigwait_clear(self)
  \/ sigwait_restore(self) \/ sigwait_return(self)
  \/ \E s \in NSIG : __pthread_sighandler(self, s) \/ program_handler(self, s)
  \/ pthread_handle_sigcancel(self)

Next == \E self \in Threads : ProgramCall(self) \/ SignalSent(self) \/ Step(self)

Spec == Init /\ [][Next]_vars
-----------------------------------------------------------------------------
\* Whatever masks the program asks for, its threads block PTHREAD_SIG_RESTART
\* outside suspend and never block PTHREAD_SIG_CANCEL.
MasksKept ==
  \A t \in Threads : /\ PTHREAD_SIG_RESTART \in sigmask[t]
                     /\ PTHREAD_SIG_CANCEL \notin sigmask[t]

\* A restart stays pending until the thread suspends: neither sigwait nor a mask
\* of the program's lets it through anywhere else.
RestartKept ==
  [][\A t \in Threads :
       PTHREAD_SIG_RESTART \in sigpending[t] \ sigpending'[t] => pc[t] = "suspend"]_vars

\* sigwait returns a signal of its set, one that was pending on the thread,
\* unless a cancellation the thread has disabled interrupted it.
SigwaitResult ==
  [][\A t \in Threads :
       pc[t] = "testcancel" /\ pc'[t] = "run" =>
         \/ sig'[t] \in set[t]
         \/ p_canceled[t] /\ p_cancelstate[t] = "DISABLE"]_vars

\* When nobody waits for a signal its handler is the one the program installed,
\* and while somebody does it is sigwait's.
HandlersRestored ==
  \A s \in Waited :
    LET waiting == {t \in Threads : InSigwait(t) /\ s \in set[t]} IN
    /\ waiting = {} => handler[s] = Installed[s]
    /\ (\E t \in waiting : pc[t] \in {"test", "sigsuspend", "clear"})
         => handler[s] = "__pthread_sighandler"

\* A thread in sigwait returns, or exits, once one of its signals or a
\* cancellation is pending.
SigwaitReturns ==
  \A t \in Threads :
    (InSigwait(t) /\ (CancelDue(t) \/ sigpending[t] \cap set[t] # {})) ~> ~InSigwait(t)
=============================================================================
