------------------------------- MODULE Cancel -------------------------------
(***************************************************************************)
(* Cancellation and cleanup handlers (src/cancel.c), the cancelable system *)
(* calls (src/wrapsyscall.c) and the handler of PTHREAD_SIG_CANCEL         *)
(* (src/pthread.c), up to the cleanup handlers that pthread_exit calls.    *)
(*                                                                         *)
(* A thread runs its program, or a function the library calls: a cleanup   *)
(* handler or a destructor.  Between any two of its steps the handler of   *)
(* PTHREAD_SIG_CANCEL may run, and call pthread_exit.                      *)
(***************************************************************************)
EXTENDS Integers, Sequences

CONSTANTS Threads,
          MaxDepth,        \* bound on the nesting of cleanup handlers
          CancelsExiting,  \* BOOLEAN: are threads cancelled in pthread_exit?
          HandlerCalls     \* which of the functions the library calls have
                           \* cancellation points: "pop", "cleanup" (handlers
                           \* called by pop or by pthread_exit), "destroy"

ASSUME CancelAssumption ==
  /\ MaxDepth \in Nat
  /\ CancelsExiting \in BOOLEAN
  /\ HandlerCalls \subseteq {"pop", "cleanup", "destroy"}

PTHREAD_CANCEL_ENABLE == "ENABLE"
PTHREAD_CANCEL_DISABLE == "DISABLE"
PTHREAD_CANCEL_DEFERRED == "DEFERRED"
PTHREAD_CANCEL_ASYNCHRONOUS == "ASYNCHRONOUS"
States == {PTHREAD_CANCEL_ENABLE, PTHREAD_CANCEL_DISABLE}
Types == {PTHREAD_CANCEL_DEFERRED, PTHREAD_CANCEL_ASYNCHRONOUS}

VARIABLES
  p_canceled, p_cancelstate, p_canceltype,
  p_cleanup,   \* the cleanup buffers, the last one pushed first
  killing,     \* a pthread_cancel has set p_canceled and is to send the signal
  sigcancel,   \* threads on which PTHREAD_SIG_CANCEL is pending
  blocked,     \* threads in its handler, which blocks it
  code,        \* what a thread runs
  pc,          \* and where
  oldtype,     \* local variable of a cancelable system call
  c,           \* local variable of __pthread_perform_cleanup: an index
  wanted       \* the type the program last asked for; no code

requestVars == <<p_canceled, killing, sigcancel>>
modeVars == <<p_cancelstate, p_canceltype, wanted>>
cancelVars == <<requestVars, modeVars, p_cleanup, blocked, code, pc, oldtype, c>>

\* runs counts the calls of the handler; no code.
Buffer == [defer : BOOLEAN, canceltype : Types, runs : Nat]

Exiting == {"cleanup", "destroy", "exited"}

CancelTypeOK ==
  /\ p_canceled \in [Threads -> BOOLEAN]
  /\ p_cancelstate \in [Threads -> States]
  /\ p_canceltype \in [Threads -> Types]
  /\ p_cleanup \in [Threads -> Seq(Buffer)]
  /\ killing \in SUBSET Threads
  /\ sigcancel \in SUBSET Threads
  /\ blocked \in SUBSET Threads
  /\ code \in [Threads -> {"program", "pop"} \cup Exiting]
  /\ pc \in [Threads -> {"run", "walk", "test", "enter", "syscall", "leave"}]
  /\ oldtype \in [Threads -> Types]
  /\ c \in [Threads -> Nat \ {0}]
  /\ wanted \in [Threads -> Types]

CancelInit ==
  /\ p_canceled = [t \in Threads |-> FALSE]
  /\ p_cancelstate = [t \in Threads |-> PTHREAD_CANCEL_ENABLE]
  /\ p_canceltype = [t \in Threads |-> PTHREAD_CANCEL_DEFERRED]
  /\ p_cleanup = [t \in Threads |-> <<>>]
  /\ killing = {}
  /\ sigcancel = {}
  /\ blocked = {}
  /\ code = [t \in Threads |-> "program"]
  /\ pc = [t \in Threads |-> "run"]
  /\ oldtype = [t \in Threads |-> PTHREAD_CANCEL_DEFERRED]
  /\ c = [t \in Threads |-> 1]
  /\ wanted = [t \in Threads |-> PTHREAD_CANCEL_DEFERRED]

Goto(self, label) == pc' = [pc EXCEPT ![self] = label]

\* The test of a cancellation point, and the one that ends the functions that
\* change the cancellation state or type.
CancelDue(self) ==
  p_canceled[self] /\ p_cancelstate[self] = PTHREAD_CANCEL_ENABLE
AsyncDue(self) ==
  CancelDue(self) /\ p_canceltype[self] = PTHREAD_CANCEL_ASYNCHRONOUS

\* The program is between a push_defer and its pop_restore.
InRegion(self) == \E i \in DOMAIN p_cleanup[self] : p_cleanup[self][i].defer
-----------------------------------------------------------------------------
(***************************************************************************)
(* pthread_exit, and __pthread_perform_cleanup.                            *)
(***************************************************************************)

\* Mutant: p_canceled is not reset.
exit_keeps_flag(self) ==
  /\ code' = [code EXCEPT ![self] = "cleanup"]
  /\ Goto(self, "walk")
  /\ c' = [c EXCEPT ![self] = 1]
  /\ UNCHANGED <<p_canceled, modeVars, p_cleanup, oldtype>>

\* Wherever it is called from, there is no way back.
pthread_exit(self) ==
  /\ p_canceled' = [p_canceled EXCEPT ![self] = FALSE]
  /\ code' = [code EXCEPT ![self] = "cleanup"]
  /\ Goto(self, "walk")
  /\ c' = [c EXCEPT ![self] = 1]
  /\ UNCHANGED <<modeVars, p_cleanup, oldtype>>

\* One round of the loop: call the handler of buffer c, or go on with the
\* destructors.  The buffers stay where they are.
__pthread_perform_cleanup(self) ==
  /\ code[self] = "cleanup" /\ pc[self] = "walk"
  /\ IF c[self] <= Len(p_cleanup[self])
     THEN /\ p_cleanup' = [p_cleanup EXCEPT ![self][c[self]].runs = @ + 1]
          /\ Goto(self, "run")
          /\ UNCHANGED code
     ELSE /\ code' = [code EXCEPT ![self] = "destroy"]
          /\ UNCHANGED <<p_cleanup, pc>>
  /\ UNCHANGED <<requestVars, modeVars, blocked, oldtype, c>>

handler_returns(self) ==
  /\ code[self] = "cleanup" /\ pc[self] = "run"
  /\ c' = [c EXCEPT ![self] = @ + 1]
  /\ Goto(self, "walk")
  /\ UNCHANGED <<requestVars, modeVars, p_cleanup, blocked, code, oldtype>>
-----------------------------------------------------------------------------
(***************************************************************************)
(* What the running program calls.  It changes the cancellation type only  *)
(* outside the regions with deferred cancellation.                         *)
(***************************************************************************)
InProgram(self) == code[self] = "program" /\ pc[self] = "run"

pthread_setcancelstate(self, state) ==
  /\ InProgram(self)
  /\ p_cancelstate' = [p_cancelstate EXCEPT ![self] = state]
  /\ Goto(self, "test")
  /\ UNCHANGED <<requestVars, p_canceltype, wanted, p_cleanup, blocked, code, oldtype, c>>

pthread_setcanceltype(self, type) ==
  /\ InProgram(self)
  /\ ~InRegion(self)
  /\ p_canceltype' = [p_canceltype EXCEPT ![self] = type]
  /\ wanted' = [wanted EXCEPT ![self] = type]
  /\ Goto(self, "test")
  /\ UNCHANGED <<requestVars, p_cancelstate, p_cleanup, blocked, code, oldtype, c>>

pthread_testcancel(self) ==
  /\ pc[self] = "run"
  /\ code[self] \in {"program"} \cup HandlerCalls
  /\ CancelDue(self)
  /\ pthread_exit(self)
  /\ UNCHANGED <<killing, sigcancel, blocked>>

call_pthread_exit(self) ==
  /\ InProgram(self)
  /\ pthread_exit(self)
  /\ UNCHANGED <<killing, sigcancel, blocked>>

Pushed(self, defer) ==
  <<[defer |-> defer, canceltype |-> p_canceltype[self], runs |-> 0]>>
    \o p_cleanup[self]

_pthread_cleanup_push(self) ==
  /\ InProgram(self)
  /\ Len(p_cleanup[self]) < MaxDepth
  /\ p_cleanup' = [p_cleanup EXCEPT ![self] = Pushed(self, FALSE)]
  /\ UNCHANGED <<requestVars, modeVars, blocked, code, pc, oldtype, c>>

_pthread_cleanup_push_defer(self) ==
  /\ InProgram(self)
  /\ Len(p_cleanup[self]) < MaxDepth
  /\ p_cleanup' = [p_cleanup EXCEPT ![self] = Pushed(self, TRUE)]
  /\ p_canceltype' = [p_canceltype EXCEPT ![self] = PTHREAD_CANCEL_DEFERRED]
  /\ UNCHANGED <<requestVars, p_cancelstate, wanted, blocked, code, pc, oldtype, c>>

\* Unlink the buffer; pop_restore goes on with the type, and the test.
Unlink(self) ==
  LET buffer == Head(p_cleanup[self]) IN
  /\ p_cleanup' = [p_cleanup EXCEPT ![self] = Tail(@)]
  /\ code' = [code EXCEPT ![self] = "program"]
  /\ IF buffer.defer
     THEN /\ p_canceltype' = [p_canceltype EXCEPT ![self] = buffer.canceltype]
          /\ Goto(self, "test")
     ELSE UNCHANGED p_canceltype /\ Goto(self, "run")
  /\ UNCHANGED <<requestVars, p_cancelstate, wanted, blocked, oldtype, c>>

\* _pthread_cleanup_pop and _pthread_cleanup_pop_restore, as the buffer was pushed.
_pthread_cleanup_pop(self) ==
  /\ InProgram(self)
  /\ p_cleanup[self] # <<>>
  /\ Unlink(self)

\* With execute: the handler runs first.
_pthread_cleanup_pop_execute(self) ==
  /\ InProgram(self)
  /\ p_cleanup[self] # <<>>
  /\ p_cleanup' = [p_cleanup EXCEPT ![self][1].runs = @ + 1]
  /\ code' = [code EXCEPT ![self] = "pop"]
  /\ UNCHANGED <<requestVars, modeVars, blocked, pc, oldtype, c>>

pop_unlinks(self) ==
  /\ code[self] = "pop" /\ pc[self] = "run"
  /\ Unlink(self)
-----------------------------------------------------------------------------
(***************************************************************************)
(* A cancelable system call: asynchronous in between.  It may block.       *)
(***************************************************************************)
syscall(self) ==
  /\ pc[self] = "run"
  /\ code[self] \in {"program"} \cup HandlerCalls
  /\ oldtype' = [oldtype EXCEPT ![self] = p_canceltype[self]]
  /\ p_canceltype' = [p_canceltype EXCEPT ![self] = PTHREAD_CANCEL_ASYNCHRONOUS]
  /\ Goto(self, "enter")
  /\ UNCHANGED <<requestVars, p_cancelstate, wanted, p_cleanup, blocked, code, c>>

\* Mutant: the type stays asynchronous.
syscall_keeps_type(self) ==
  /\ pc[self] = "syscall"
  /\ Goto(self, "leave")
  /\ UNCHANGED <<requestVars, modeVars, p_cleanup, blocked, code, c, oldtype>>

syscall_return(self) ==
  /\ pc[self] = "syscall"
  /\ p_canceltype' = [p_canceltype EXCEPT ![self] = oldtype[self]]
  /\ Goto(self, "leave")
  /\ UNCHANGED <<requestVars, p_cancelstate, wanted, p_cleanup, blocked, code, c, oldtype>>

\* Mutant: the type is set without the test.
type_untested(self) ==
  /\ pc[self] \in {"test", "enter", "leave"}
  /\ Goto(self, IF pc[self] = "enter" THEN "syscall" ELSE "run")
  /\ UNCHANGED <<requestVars, modeVars, p_cleanup, blocked, code, oldtype, c>>

\* The last lines of pthread_setcancelstate, of pthread_setcanceltype and of
\* _pthread_cleanup_pop_restore.
test_async(self) ==
  /\ pc[self] \in {"test", "enter", "leave"}
  /\ \/ AsyncDue(self) /\ pthread_exit(self) /\ UNCHANGED <<killing, sigcancel, blocked>>
     \/ /\ ~AsyncDue(self)
        /\ Goto(self, IF pc[self] = "enter" THEN "syscall" ELSE "run")
        /\ UNCHANGED <<requestVars, modeVars, p_cleanup, blocked, code, oldtype, c>>
-----------------------------------------------------------------------------
(***************************************************************************)
(* pthread_cancel, called by any thread, and the handler of its signal.    *)
(***************************************************************************)
pthread_cancel(thread) ==
  /\ code[thread] # "exited"
  /\ code[thread] \in Exiting => CancelsExiting
  /\ p_canceled' = [p_canceled EXCEPT ![thread] = TRUE]
  /\ killing' = killing \cup {thread}
  /\ UNCHANGED <<sigcancel, modeVars, p_cleanup, blocked, code, pc, oldtype, c>>

\* Mutant: no signal.
cancel_without_kill(thread) ==
  /\ thread \in killing
  /\ killing' = killing \ {thread}
  /\ UNCHANGED <<p_canceled, sigcancel, modeVars, p_cleanup, blocked, code, pc, oldtype, c>>

pthread_cancel_kill(thread) ==
  /\ thread \in killing
  /\ killing' = killing \ {thread}
  /\ sigcancel' = sigcancel \cup {thread}
  /\ UNCHANGED <<p_canceled, modeVars, p_cleanup, blocked, code, pc, oldtype, c>>

\* (Where the type is deferred the handler jumps out of the sigsuspend of the
\* blocking functions, see CancelOps; a system call it interrupts returns.)
pthread_handle_sigcancel(self) ==
  /\ self \in sigcancel \ blocked
  /\ code[self] # "exited"
  /\ sigcancel' = sigcancel \ {self}
  /\ UNCHANGED killing
  /\ \/ AsyncDue(self) /\ pthread_exit(self) /\ blocked' = blocked \cup {self}
     \/ /\ ~AsyncDue(self)
        /\ UNCHANGED <<p_canceled, modeVars, p_cleanup, blocked, code, pc, oldtype, c>>
-----------------------------------------------------------------------------
\* What the program may do next, and what the library and the kernel then do.
CancelCall(self) ==
  \/ \E state \in States : pthread_setcancelstate(self, state)
  \/ \E type \in Types : pthread_setcanceltype(self, type)
  \/ pthread_testcancel(self)
  \/ _pthread_cleanup_push(self)
  \/ _pthread_cleanup_push_defer(self)
  \/ _pthread_cleanup_pop(self)
  \/ _pthread_cleanup_pop_execute(self)
  \/ syscall(self)

CancelStep(self) ==
  \/ __pthread_perform_cleanup(self)
  \/ handler_returns(self)
  \/ pop_unlinks(self)
  \/ test_async(self)
  \/ pthread_cancel_kill(self)
  \/ pthread_handle_sigcancel(self)

=============================================================================
