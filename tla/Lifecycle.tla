----------------------------- MODULE Lifecycle -----------------------------
(***************************************************************************)
(* Creation, termination, joining and reclamation of threads: the thread   *)
(* manager of src/manager.c and its clients in src/pthread.c and           *)
(* src/join.c.                                                             *)
(*                                                                         *)
(* A thread descriptor lies at the top of its stack segment, so that a     *)
(* descriptor other than the initial thread's is memory only while its     *)
(* segment is in use; after pthread_free it may be given to another        *)
(* thread, and until then touching it is a fault.  Clients send requests   *)
(* to the manager through a pipe and sleep until it restarts them.         *)
(*                                                                         *)
(* At a fork the model follows the child: the parent goes on as it was.    *)
(*                                                                         *)
(* The code that a p_spinlock protects is one step: nothing sleeps while   *)
(* it holds one.                                                           *)
(***************************************************************************)
EXTENDS CancelOps

CONSTANTS InitialThread, \* &__pthread_initial_thread
          MaxClones,    \* bound on the number of threads ever created
          PipeSize,     \* requests the pipe holds before a write blocks
          DetachStates, \* the detachstates it creates threads with
          ProcessExits, \* BOOLEAN: does the program call exit?
          Detaches,     \* whom do its threads detach: "self", "others"?
          Rejoins,      \* may two of its threads join the same thread?
          Crashes,      \* do its threads die by signals?
          Blocking,     \* which may block a signal another dies by?
          CancelableSuspends, \* do threads that may be cancelled call
                        \* pthread_create and exit?
          Forks,        \* do they fork?
          KillsOthers,  \* call pthread_kill_other_threads_np?
          LateResets    \* do either after the main thread called pthread_exit?

ASSUME LifecycleAssumption ==
  /\ InitialThread \in Threads
  /\ MaxClones \in Nat
  /\ PipeSize \in Nat \ {0}
  /\ DetachStates \subseteq BOOLEAN
  /\ Detaches \subseteq {"self", "others"}
  /\ {ProcessExits, Rejoins, Crashes, CancelableSuspends} \subseteq BOOLEAN
  /\ {Forks, KillsOthers, LateResets} \subseteq BOOLEAN
  /\ Blocking \subseteq Threads
  /\ KillsOthers => ~Interrupts

VARIABLES
  stack_segments,      \* the descriptors whose stack segment is in use
  main_thread,         \* __pthread_main_thread, the parent of the manager
  live,                \* the list of active threads, with main_thread
  desc,                \* the fields of the descriptors
  pc,
  th,                  \* local variables: the thread to join or detach,
  joining,             \* the one pthread_exit is to restart,
  attr,                \* the detachstate for pthread_create
  manager,             \* where the thread manager is
  readable,            \* n == 1 after its select
  requests,            \* the pipe
  terminated_children, main_thread_exiting, exit_requested,
  joinable,            \* threads the program may still join or detach
  clones,              \* threads created so far
  signaled,            \* threads that died by a signal
  orphans              \* threads whose manager pthread_kill_other_threads_np ended

localVars == <<th, joining, attr, joinable>>
segmentVars == <<stack_segments, live, clones>>
familyVars == <<main_thread, orphans>>
managerVars == <<manager, readable, main_thread_exiting, exit_requested>>
deathVars == <<terminated_children, signaled>>
vars == <<desc, pc, localVars, segmentVars, managerVars, deathVars, familyVars,
          requests, signalVars, cancelVars>>

EAGAIN == "EAGAIN"
Descriptor ==
  [p_terminated : BOOLEAN, p_detached : BOOLEAN,
   p_exited : BOOLEAN, p_joining : Pointer, p_retcode : {"0", EAGAIN},
   p_retval : Pointer]

\* Mutant: every thread is created detached.
FreshDescriptor_detached(detachstate) ==
  [p_terminated |-> FALSE, p_detached |-> TRUE,
   p_exited |-> FALSE, p_joining |-> NULL, p_retcode |-> "0", p_retval |-> NULL]

\* A new descriptor, as pthread_handle_create initializes it.
FreshDescriptor(detachstate) ==
  [p_terminated |-> FALSE, p_detached |-> detachstate,
   p_exited |-> FALSE, p_joining |-> NULL, p_retcode |-> "0", p_retval |-> NULL]

Request(kind, thread, arg) == [req_kind |-> kind, req_thread |-> thread, arg |-> arg]
RequestType ==
  [req_kind : {"REQ_CREATE"}, req_thread : Threads, arg : BOOLEAN]
    \cup [req_kind : {"REQ_FREE", "REQ_PROCESS_EXIT", "REQ_MAIN_THREAD_EXIT"},
          req_thread : Threads, arg : Pointer]

\* No process: never cloned, dead and not yet waited for, or dead and gone.
Gone == {"none", "zombie", "reaped"}
Labels ==
  Gone \cup {"idle", "create_suspend", "create_return", "join_suspend", "join_sleep",
             "join_check", "join_free", "detach_free", "exit", "exit_restart",
             "exit_last", "main_suspend", "process_exit", "kill_suspend"}

TypeOK ==
  /\ SignalTypeOK
  /\ CancelTypeOK
  /\ stack_segments \in SUBSET (Threads \ {InitialThread})
  /\ main_thread \in Threads
  /\ live \in SUBSET Threads
  /\ desc \in [Threads -> Descriptor]
  /\ pc \in [Threads -> Labels]
  /\ th \in [Threads -> Pointer]
  /\ joining \in [Threads -> Pointer]
  /\ manager \in {"none", "select", "reap", "request", "gone"}
  /\ readable \in BOOLEAN
  /\ requests \in Seq(RequestType)
  /\ terminated_children \in BOOLEAN
  /\ main_thread_exiting \in BOOLEAN
  /\ exit_requested \in BOOLEAN
  /\ joinable \in SUBSET Threads
  /\ attr \in [Threads -> BOOLEAN]
  /\ clones \in 0..MaxClones
  /\ signaled \in SUBSET Threads
  /\ orphans \in SUBSET Threads

Init ==
  /\ sigpending = {}
  /\ p_signal = [t \in Threads |-> NoSignal]
  /\ CancelInit
  /\ stack_segments = {}
  /\ main_thread = InitialThread
  /\ live = {InitialThread}
  /\ desc = [t \in Threads |-> FreshDescriptor(FALSE)]
  /\ pc = [t \in Threads |-> IF t = InitialThread THEN "idle" ELSE "none"]
  /\ th = [t \in Threads |-> NULL]
  /\ joining = [t \in Threads |-> NULL]
  /\ manager = "none"
  /\ readable = FALSE
  /\ requests = <<>>
  /\ terminated_children = FALSE
  /\ main_thread_exiting = FALSE
  /\ exit_requested = FALSE
  /\ joinable = {InitialThread}
  /\ attr = [t \in Threads |-> FALSE]
  /\ clones = 0
  /\ signaled = {}
  /\ orphans = {}

Mapped(t) == t \in stack_segments \cup {InitialThread}

\* The processes the manager, if any, is the parent of.
Children == Threads \ (orphans \cup {main_thread})
Goto(self, label) == pc' = [pc EXCEPT ![self] = label]

\* suspend also ends, with a stale p_signal, when pthread_handle_sigcancel returns.
suspend_any(self) ==
  \/ suspend(self) /\ UNCHANGED cancelVars
  \/ /\ p_signal[self] = PTHREAD_SIG_RESTART
     /\ ~exit_requested
     /\ cancel_handled(self)
     /\ UNCHANGED signalVars

Send(request) ==
  /\ Len(requests) < PipeSize
  /\ requests' = Append(requests, request)

-----------------------------------------------------------------------------
(***************************************************************************)
(* pthread_create.  The first call starts the manager, or fails with       *)
(* EAGAIN and changes nothing.                                             *)
(***************************************************************************)
pthread_create(self, detachstate) ==
  /\ pc[self] = "idle"
  /\ self \in Cancels => CancelableSuspends
  /\ clones < MaxClones
  /\ manager' = IF manager = "none" THEN "select" ELSE manager
  /\ Send(Request("REQ_CREATE", self, detachstate))
  /\ attr' = [attr EXCEPT ![self] = detachstate]
  /\ Goto(self, "create_suspend")
  /\ UNCHANGED <<desc, th, joining, joinable, segmentVars, readable,
                 main_thread_exiting, exit_requested, deathVars, signalVars,
                 cancelVars>>

\* Mutant: no wait for the answer.
create_does_not_wait(self) ==
  /\ pc[self] = "create_suspend"
  /\ Goto(self, "create_return")
  /\ UNCHANGED <<desc, localVars, segmentVars, managerVars, deathVars, requests,
                 signalVars, cancelVars>>

pthread_create_resume(self) ==
  /\ pc[self] = "create_suspend"
  /\ suspend_any(self)
  /\ Goto(self, "create_return")
  /\ UNCHANGED <<desc, localVars, segmentVars, managerVars, deathVars, requests>>

\* The program may join or detach a thread that it created joinable.
pthread_create_return(self) ==
  /\ pc[self] = "create_return"
  /\ joinable' = IF desc[self].p_retcode = "0" /\ ~attr[self]
                 THEN joinable \cup ({desc[self].p_retval} \ {NULL}) ELSE joinable
  /\ attr' = [attr EXCEPT ![self] = FALSE]
  /\ Goto(self, "idle")
  /\ UNCHANGED <<desc, th, joining, segmentVars, managerVars, deathVars, requests,
                 signalVars, cancelVars>>
-----------------------------------------------------------------------------
(***************************************************************************)
(* pthread_join and pthread_detach.  A program joins or detaches a thread  *)
(* once: target leaves joinable at the call (with Rejoins: when the join   *)
(* succeeds), and comes back if the join is cancelled.  A step that reads  *)
(* or writes a descriptor needs it mapped.                                 *)
(***************************************************************************)
pthread_join(self, target) ==
  /\ pc[self] = "idle"
  /\ target \in joinable \ {self}
  /\ Mapped(target)
  /\ joinable' = IF Rejoins THEN joinable ELSE joinable \ {target}
  /\ IF desc[target].p_detached \/ desc[target].p_joining # NULL
     THEN UNCHANGED <<desc, pc, th>>     \* EINVAL
     ELSE /\ th' = [th EXCEPT ![self] = target]
          /\ IF desc[target].p_terminated
             THEN Goto(self, "join_free") /\ UNCHANGED desc
             ELSE /\ desc' = [desc EXCEPT ![target].p_joining = self]
                  /\ Goto(self, "join_suspend")
  /\ UNCHANGED <<joining, attr, segmentVars, managerVars, deathVars, requests,
                 signalVars, cancelVars>>

\* Mutant: no suspend.
join_does_not_wait(self) ==
  /\ pc[self] = "join_suspend"
  /\ Goto(self, "join_check")
  /\ UNCHANGED <<desc, localVars, segmentVars, managerVars, deathVars, requests,
                 signalVars, cancelVars>>

\* Into suspend_with_cancellation, and out of it.
pthread_join_suspend(self) ==
  /\ pc[self] = "join_suspend"
  /\ Goto(self, IF CancelDue(self) THEN "join_check" ELSE "join_sleep")
  /\ UNCHANGED <<desc, localVars, segmentVars, managerVars, deathVars, requests,
                 signalVars, cancelVars>>

pthread_join_resume(self) ==
  /\ pc[self] = "join_sleep"
  /\ suspend_with_cancellation(self)
  /\ exit_requested => sigcancel' = sigcancel    \* else the handler calls _exit
  /\ Goto(self, "join_check")
  /\ UNCHANGED <<desc, localVars, segmentVars, managerVars, deathVars, requests>>

\* The cancellation point; then the return value is read.
pthread_join_check(self) ==
  /\ pc[self] = "join_check"
  /\ Mapped(th[self])
  /\ IF CancelDue(self)
     THEN /\ desc' = [desc EXCEPT ![th[self]].p_joining = NULL]
          /\ joinable' = joinable \cup {th[self]}
          /\ th' = [th EXCEPT ![self] = NULL]
          /\ Goto(self, "exit")
     ELSE Goto(self, "join_free") /\ UNCHANGED <<desc, joinable, th>>
  /\ UNCHANGED <<joining, attr, segmentVars, managerVars, deathVars, requests,
                 signalVars, cancelVars>>

pthread_detach(self, target) ==
  /\ pc[self] = "idle"
  /\ target \in joinable
  /\ Mapped(target)
  /\ joinable' = joinable \ {target}
  /\ IF desc[target].p_detached \/ desc[target].p_joining # NULL
     THEN UNCHANGED <<desc, pc, th>>     \* EINVAL, or nothing to do
     ELSE /\ desc' = [desc EXCEPT ![target].p_detached = TRUE]
          /\ IF desc[target].p_terminated
             THEN th' = [th EXCEPT ![self] = target] /\ Goto(self, "detach_free")
             ELSE UNCHANGED <<pc, th>>
  /\ UNCHANGED <<joining, attr, segmentVars, managerVars, deathVars, requests,
                 signalVars, cancelVars>>

\* The last step of both: ask the manager, if any, to free the thread.
request_free(self) ==
  /\ pc[self] \in {"join_free", "detach_free"}
  /\ IF manager = "none" THEN UNCHANGED requests
     ELSE Send(Request("REQ_FREE", self, th[self]))
  /\ joinable' = joinable \ {th[self]}
  /\ th' = [th EXCEPT ![self] = NULL]
  /\ Goto(self, "idle")
  /\ UNCHANGED <<desc, joining, attr, segmentVars, managerVars, deathVars,
                 signalVars, cancelVars>>
-----------------------------------------------------------------------------
(***************************************************************************)
(* pthread_exit, and the end of a process.                                 *)
(***************************************************************************)

\* The processes of T die, by signals or not; the kernel sends the manager, if it
\* is their parent, PTHREAD_SIG_RESTART: the handler sets terminated_children.
\* (init waits for orphans.)
Dead(T) == [t \in Threads |-> IF t \notin T THEN pc[t]
                              ELSE IF t \in orphans THEN "reaped" ELSE "zombie"]
Die(T, bySignal) ==
  /\ pc' = Dead(T)
  /\ terminated_children' = (terminated_children \/ T \cap Children # {})
  /\ signaled' = IF bySignal THEN signaled \cup T ELSE signaled

pthread_exit_call(self) ==
  /\ pc[self] = "idle"
  /\ Goto(self, "exit")
  /\ UNCHANGED <<desc, localVars, segmentVars, managerVars, deathVars, requests,
                 signalVars, cancelVars>>

\* Mutant: the joiner is forgotten.
exit_forgets_joiner(self) ==
  /\ pc[self] = "exit"
  /\ p_canceled' = [p_canceled EXCEPT ![self] = FALSE]
  /\ desc' = [desc EXCEPT ![self].p_terminated = TRUE, ![self].p_retval = NULL]
  /\ Goto(self, "exit_last")
  /\ UNCHANGED <<th, joining, attr, joinable, segmentVars, managerVars, deathVars,
                 requests, signalVars, p_cancelstate, sigcancel>>

\* The cleanup functions have run: p_terminated is set, p_joining read.
pthread_exit(self) ==
  /\ pc[self] = "exit"
  /\ p_canceled' = [p_canceled EXCEPT ![self] = FALSE]
  /\ desc' = [desc EXCEPT ![self].p_terminated = TRUE, ![self].p_retval = NULL]
  /\ joining' = [joining EXCEPT ![self] = desc[self].p_joining]
  /\ Goto(self, IF desc[self].p_joining = NULL THEN "exit_last" ELSE "exit_restart")
  /\ UNCHANGED <<th, attr, joinable, segmentVars, managerVars, deathVars, requests,
                 signalVars, p_cancelstate, sigcancel>>

\* restart(joining) reads joining->p_pid.
pthread_exit_restart(self) ==
  /\ pc[self] = "exit_restart"
  /\ Mapped(joining[self])
  /\ restart(joining[self])
  /\ joining' = [joining EXCEPT ![self] = NULL]
  /\ Goto(self, "exit_last")
  /\ UNCHANGED <<desc, th, attr, joinable, segmentVars, managerVars, deathVars,
                 requests, cancelVars>>

\* The main thread waits for the others; any other calls _exit(0).
pthread_exit_last(self) ==
  /\ pc[self] = "exit_last"
  /\ IF self = main_thread /\ manager # "none"
     THEN /\ Send(Request("REQ_MAIN_THREAD_EXIT", self, self))
          /\ Goto(self, "main_suspend")
          /\ UNCHANGED deathVars
     ELSE Die({self}, FALSE) /\ UNCHANGED requests
  /\ UNCHANGED <<desc, localVars, segmentVars, managerVars, signalVars, cancelVars>>

\* exit: pthread_exit_process asks the manager, if any, to end the other threads.
pthread_exit_process(self) ==
  /\ pc[self] = "idle"
  /\ self \in Cancels => CancelableSuspends
  /\ IF manager = "none"
     THEN Die({self}, FALSE) /\ UNCHANGED requests
     ELSE /\ Send(Request("REQ_PROCESS_EXIT", self, self))
          /\ Goto(self, "process_exit")
          /\ UNCHANGED deathVars
  /\ UNCHANGED <<desc, localVars, segmentVars, managerVars, signalVars, cancelVars>>

\* Restarted, the main thread in pthread_exit, or the caller of exit, ends.
exit_resume(self) ==
  /\ pc[self] \in {"main_suspend", "process_exit"}
  /\ suspend_any(self)
  /\ Die({self}, FALSE)
  /\ UNCHANGED <<desc, localVars, segmentVars, managerVars, requests>>

\* pthread_handle_sigcancel, in the middle of anything: _exit if a process-wide
\* exit is under way; otherwise nothing, where the handler does not jump.
sigcancel_handled(self) ==
  /\ pc[self] \notin Gone
  /\ cancel_handled(self)
  /\ \/ exit_requested /\ Die({self}, FALSE)
     \/ /\ ~exit_requested
        /\ ~(pc[self] = "join_sleep" /\ CancelDue(self))
        /\ UNCHANGED <<pc, deathVars>>
  /\ UNCHANGED <<desc, localVars, segmentVars, managerVars, requests, signalVars>>

-----------------------------------------------------------------------------
(***************************************************************************)
(* fork, and pthread_kill_other_threads_np.                                *)
(***************************************************************************)

\* No manager, a closed pipe, and self the only thread in the list.
__pthread_reset_main_thread(self) ==
  /\ manager' = "none"
  /\ readable' = FALSE
  /\ requests' = <<>>
  /\ main_thread' = self
  /\ live' = {self}

\* The main thread waits in pthread_exit, or has waited there.
MainExits == pc[main_thread] = "main_suspend" \/ main_thread_exiting

\* In the child only the calling thread runs, no signal is pending, and the
\* memory is as it was.  The program leaves the parent's threads alone.
fork(self) ==
  /\ pc[self] = "idle"
  /\ MainExits => LateResets
  /\ __pthread_reset_main_thread(self)
  /\ pc' = [t \in Threads |-> IF t = self THEN "idle" ELSE "none"]
  /\ th' = [t \in Threads |-> NULL]
  /\ joining' = [t \in Threads |-> NULL]
  /\ attr' = [t \in Threads |-> FALSE]
  /\ joinable' = {}
  /\ signaled' = {}
  /\ orphans' = {}
  /\ sigpending' = {}
  /\ sigcancel' = {}
  /\ UNCHANGED <<desc, stack_segments, clones, main_thread_exiting, exit_requested,
                 terminated_children, p_signal, p_canceled, p_cancelstate>>

\* pthread_exit_process; without a manager self is alone.  A thread that may be
\* cancelled does not call it: the signal could end the suspend too early.
pthread_kill_other_threads_np(self) ==
  /\ pc[self] = "idle"
  /\ self \notin Cancels
  /\ MainExits => LateResets
  /\ manager # "none"
  /\ Send(Request("REQ_PROCESS_EXIT", self, self))
  /\ Goto(self, "kill_suspend")
  /\ UNCHANGED <<desc, localVars, segmentVars, managerVars, deathVars, signalVars,
                 cancelVars>>

\* The others have been sent CANCEL, and the manager ends by itself: init becomes
\* the parent of its children.  The program leaves them alone.
pthread_kill_other_threads_np_resume(self) ==
  /\ pc[self] = "kill_suspend"
  /\ suspend(self)
  /\ __pthread_reset_main_thread(self)
  /\ pc' = [t \in Threads |-> IF t = self THEN "idle"
                             ELSE IF pc[t] = "zombie" THEN "reaped" ELSE pc[t]]
  /\ orphans' = {t \in Threads \ {self} : pc[t] \notin Gone}
  /\ joinable' = {}
  /\ UNCHANGED <<desc, th, joining, attr, stack_segments, clones, main_thread_exiting,
                 exit_requested, deathVars, cancelVars>>
-----------------------------------------------------------------------------
\* A thread dies by a signal: the program's fault, or a freed descriptor.
Faulting(self) ==
  \/ pc[self] = "idle" /\ Crashes
  \/ pc[self] = "join_check" /\ ~Mapped(th[self])
  \/ pc[self] = "exit_restart" /\ ~Mapped(joining[self])

killed_by_signal(self) ==
  /\ Faulting(self)
  /\ Die({self}, TRUE)
  /\ UNCHANGED <<desc, localVars, segmentVars, managerVars, requests, signalVars,
                 cancelVars>>
-----------------------------------------------------------------------------
(***************************************************************************)
(* The thread manager.                                                     *)
(***************************************************************************)
Running(T) == {t \in T : pc[t] \notin Gone}

\* select returns: a request can be read, or the time is over, or the handler of
\* PTHREAD_SIG_RESTART has run.  Then the tests for the death of the main thread
\* and of children.
manager_select ==
  /\ manager = "select"
  /\ \/ readable' = TRUE /\ requests # <<>>
     \/ readable' = FALSE /\ (requests = <<>> \/ terminated_children)
  /\ IF pc[main_thread] = "zombie"          \* getppid() == 1
     THEN /\ Die(Running(live \ {main_thread}), TRUE)    \* pthread_kill_all_threads
          /\ manager' = "gone"
     ELSE /\ manager' = IF terminated_children THEN "reap"
                        ELSE IF readable' THEN "request" ELSE "select"
          /\ terminated_children' = FALSE
          /\ UNCHANGED <<pc, signaled>>
  /\ UNCHANGED <<desc, localVars, segmentVars, main_thread_exiting, exit_requested,
                 requests, signalVars, cancelVars>>

\* Mutant: the list of active threads is not looked at.
exiting_is_enough(exiting, list) == exiting

\* The main thread, in pthread_exit, is the last: restart it and stop.
AllExited(exiting, list) == exiting /\ list = {main_thread}

\* The segment is free, and what was in the descriptor is lost.
pthread_free(t) ==
  IF t = InitialThread THEN UNCHANGED <<stack_segments, desc>>
  ELSE /\ stack_segments' = stack_segments \ {t}
       /\ desc' = [desc EXCEPT ![t] = FreshDescriptor(FALSE)]

\* Mutants: freed though not detached; not freed though detached.
exited_frees(t) == live' = live \ {t} /\ pthread_free(t)
exited_never_frees(t) ==
  /\ live' = live \ {t}
  /\ desc' = [desc EXCEPT ![t].p_exited = TRUE]
  /\ UNCHANGED stack_segments

\* pthread_exited: the descriptor of a dead thread is marked, and freed if the
\* thread is detached.
pthread_exited(t) ==
  /\ live' = live \ {t}
  /\ IF desc[t].p_detached THEN pthread_free(t)
     ELSE desc' = [desc EXCEPT ![t].p_exited = TRUE] /\ UNCHANGED stack_segments

\* Mutant: one child for each signal.
reap_one(t) ==
  /\ Goto(t, "reaped")
  /\ manager' = IF readable THEN "request" ELSE "select"
  /\ UNCHANGED <<deathVars, signalVars>>

\* Child t has been waited for: go on with the next.
reap_next(t) ==
  /\ Goto(t, "reaped")
  /\ UNCHANGED <<manager, deathVars, signalVars>>

\* It died by a signal: pthread_kill_all_threads sends it to the others and to
\* the main thread, and the manager exits.  Who blocks the signal lives on.
reap_signaled(t) ==
  /\ \E spared \in SUBSET (Running(live) \cap Blocking) :
       /\ pc' = [Dead(Running(live) \ spared) EXCEPT ![t] = "reaped"]
       /\ signaled' = signaled \cup (Running(live) \ spared)
  /\ manager' = "gone"
  /\ UNCHANGED <<terminated_children, signalVars>>

\* It was the last, and the main thread waits.
reap_last(t) ==
  /\ Goto(t, "reaped")
  /\ restart(main_thread)
  /\ manager' = "gone"
  /\ UNCHANGED deathVars

\* One round of pthread_reap_children: waitpid finds a dead child, or none.
pthread_reap_children ==
  /\ manager = "reap"
  /\ \/ \E t \in Children :
          /\ pc[t] = "zombie"
          /\ pthread_exited(t)
          /\ \/ AllExited(main_thread_exiting, live') /\ reap_last(t)
             \/ /\ ~AllExited(main_thread_exiting, live')
                /\ IF t \in signaled THEN reap_signaled(t) ELSE reap_next(t)
     \/ /\ \A t \in Children : pc[t] # "zombie"
        /\ manager' = IF readable THEN "request" ELSE "select"
        /\ UNCHANGED <<desc, pc, live, stack_segments, deathVars, signalVars>>
  /\ UNCHANGED <<localVars, clones, readable, main_thread_exiting, exit_requested,
                 requests, cancelVars>>

\* Mutant: the creator is not told.
create_fails_silently(creator) ==
  /\ desc' = [desc EXCEPT ![creator].p_retcode = EAGAIN]
  /\ UNCHANGED <<segmentVars, pc, signaled, signalVars, cancelVars>>

create_fails(creator) ==
  /\ desc' = [desc EXCEPT ![creator].p_retcode = EAGAIN]
  /\ restart(creator)
  /\ UNCHANGED <<segmentVars, pc, signaled, cancelVars>>

\* A free segment is found and mapped, its descriptor initialized and a process
\* cloned.  The creator is restarted.
create_succeeds(creator, detachstate, new) ==
  /\ clones < MaxClones
  /\ clones' = clones + 1
  /\ stack_segments' = stack_segments \cup {new}
  /\ live' = live \cup {new}
  /\ desc' = [desc EXCEPT ![new] = FreshDescriptor(detachstate),
                          ![creator].p_retcode = "0",
                          ![creator].p_retval = new]
  /\ Goto(new, "idle")
  /\ signaled' = signaled \ {new}
  /\ sigpending' = (sigpending \ {new}) \cup {creator}
  /\ p_signal' = [p_signal EXCEPT ![new] = NoSignal]
  /\ p_canceled' = [p_canceled EXCEPT ![new] = FALSE]
  /\ p_cancelstate' = [p_cancelstate EXCEPT ![new] = PTHREAD_CANCEL_ENABLE]
  /\ sigcancel' = sigcancel \ {new}

pthread_handle_create(creator, detachstate) ==
  /\ \/ \E new \in Threads \ (stack_segments \cup {InitialThread}) :
          create_succeeds(creator, detachstate, new)
     \/ create_fails(creator)
  /\ manager' = "select"
  /\ UNCHANGED <<main_thread_exiting, exit_requested>>

\* Mutant: freed while the process may still run.
free_at_once(target) ==
  /\ pthread_free(target)
  /\ manager' = "select"
  /\ UNCHANGED <<pc, live, clones, main_thread_exiting, exit_requested, signaled,
                 signalVars, cancelVars>>

\* pthread_handle_free: at once if the process is gone, else when it is.
pthread_handle_free(target) ==
  /\ IF desc[target].p_exited
     THEN pthread_free(target)
     ELSE /\ desc' = [desc EXCEPT ![target].p_detached = TRUE]
          /\ UNCHANGED stack_segments
  /\ manager' = "select"
  /\ UNCHANGED <<pc, live, clones, main_thread_exiting, exit_requested, signaled,
                 signalVars, cancelVars>>

\* Mutant: the other threads are not signalled.
exit_alone(issuing_thread) ==
  /\ exit_requested' = TRUE
  /\ restart(issuing_thread)
  /\ manager' = "gone"
  /\ UNCHANGED <<desc, pc, segmentVars, main_thread_exiting, signaled, cancelVars>>

pthread_handle_exit(issuing_thread) ==
  /\ exit_requested' = TRUE
  /\ sigcancel' = sigcancel \cup (live \ {issuing_thread})
  /\ restart(issuing_thread)
  /\ manager' = "gone"
  /\ UNCHANGED <<desc, pc, segmentVars, main_thread_exiting, signaled, p_canceled,
                 p_cancelstate>>

handle_main_thread_exit ==
  /\ main_thread_exiting' = TRUE
  /\ IF AllExited(TRUE, live) THEN restart(main_thread) /\ manager' = "gone"
     ELSE UNCHANGED signalVars /\ manager' = "select"
  /\ UNCHANGED <<desc, pc, segmentVars, exit_requested, signaled, cancelVars>>

\* Read and execute request.  It touches the descriptor Named in it: if that is
\* not mapped the manager dies, and takes no other step.
Named(request) ==
  IF request.req_kind = "REQ_FREE" THEN request.arg ELSE request.req_thread

manager_request ==
  LET request == Head(requests) IN
  /\ manager = "request"
  /\ requests' = Tail(requests)
  /\ Mapped(Named(request))
  /\ \/ /\ request.req_kind = "REQ_CREATE"
        /\ pthread_handle_create(request.req_thread, request.arg)
     \/ /\ request.req_kind = "REQ_FREE"
        /\ pthread_handle_free(request.arg)
     \/ /\ request.req_kind = "REQ_PROCESS_EXIT"
        /\ pthread_handle_exit(request.req_thread)
     \/ /\ request.req_kind = "REQ_MAIN_THREAD_EXIT"
        /\ handle_main_thread_exit
  /\ UNCHANGED <<localVars, readable, terminated_children>>

Manager ==
  /\ manager_select \/ pthread_reap_children \/ manager_request
  /\ UNCHANGED familyVars
-----------------------------------------------------------------------------
LibraryStep(self) ==
  \/ /\ \/ pthread_create_resume(self)
        \/ pthread_create_return(self)
        \/ pthread_join_suspend(self)
        \/ pthread_join_resume(self)
        \/ pthread_join_check(self)
        \/ request_free(self)
        \/ pthread_exit(self)
        \/ pthread_exit_restart(self)
        \/ pthread_exit_last(self)
        \/ exit_resume(self)
        \/ sigcancel_handled(self)
     /\ UNCHANGED familyVars
  \/ pthread_kill_other_threads_np_resume(self)

CallCancel(self, thread) ==
  /\ pc[self] = "idle"
  /\ thread \in Cancels
  /\ pc[thread] \notin Gone
  /\ ~p_canceled[thread]
  /\ pthread_cancel(thread)
  /\ UNCHANGED <<desc, pc, localVars, segmentVars, managerVars, deathVars, requests,
                 signalVars>>

ProgramCall(self) ==
  \/ /\ \/ \E detachstate \in DetachStates : pthread_create(self, detachstate)
        \/ \E target \in Threads : pthread_join(self, target)
        \/ \E target \in Threads :
             /\ IF target = self THEN "self" \in Detaches ELSE "others" \in Detaches
             /\ pthread_detach(self, target)
        \/ pthread_exit_call(self)
        \/ ProcessExits /\ pthread_exit_process(self)
        \/ KillsOthers /\ pthread_kill_other_threads_np(self)
        \/ \E thread \in Threads : CallCancel(self, thread)
        \/ killed_by_signal(self)
     /\ UNCHANGED familyVars
  \/ Forks /\ fork(self)

\* An orphan makes no more calls: CANCEL ends it first.
Next ==
  \/ Manager
  \/ \E self \in Threads \ orphans : ProgramCall(self)
  \/ \E self \in Threads : LibraryStep(self)

Spec == Init /\ [][Next]_vars

\* The kernel runs every process that can run, delivers pending signals and
\* lets the manager's select time out.  No program need ever make a call.
FairSpec ==
  Spec /\ WF_vars(Manager) /\ \A self \in Threads : WF_vars(LibraryStep(self))
-----------------------------------------------------------------------------
(***************************************************************************)
(* Properties.                                                             *)
(***************************************************************************)
ManagerRuns == manager \in {"select", "reap", "request"}
Queued(kind) ==
  {requests[i] : i \in {j \in DOMAIN requests : requests[j].req_kind = kind}}
CreateQueued(t) == \E request \in Queued("REQ_CREATE") : request.req_thread = t

\* No descriptor is freed while it is still to be used: by a joiner that has yet
\* to read the return value, by a terminated thread that has yet to restart its
\* joiner, by the manager through a request.  (pthread_free of src/manager.c
\* unmaps the descriptor.)
DescriptorsLast ==
  ManagerRuns =>
    /\ \A t \in Threads : pc[t] \in {"join_suspend", "join_sleep", "join_check"}
                            => Mapped(th[t])
    /\ \A t \in Threads : pc[t] = "exit_restart" => Mapped(joining[t])
    /\ \A request \in Queued("REQ_CREATE") \cup Queued("REQ_FREE") :
         Mapped(Named(request))

\* The memory of a joinable thread is not deallocated until another thread
\* performs pthread_join on it.
JoinableKept == \A t \in joinable : Mapped(t)

\* A stack segment is freed only when the process running on it has been waited
\* for, and never given to two threads: the ASSERT of pthread_free.
RunningMapped ==
  \A t \in Threads : pc[t] \notin {"none", "reaped"} =>
    /\ Mapped(t)
    /\ t \in Children => t \in live

\* Whatever the manager was doing when the signal came, a dead child is reaped:
\* either the flag set by __pthread_manager_sighandler is still up, or the loop
\* of pthread_reap_children has yet to find that no child is left.
NoLostChild ==
  ManagerRuns /\ (\E t \in Children : pc[t] = "zombie")
    => terminated_children \/ manager = "reap"

\* pthread_join returns only when the thread has terminated ("suspends the
\* execution of the calling thread until the thread identified by th terminates").
JoinAfterTermination ==
  \A t \in Threads : pc[t] = "join_free" /\ Mapped(th[t]) => desc[th[t]].p_terminated

\* The main thread, in pthread_exit, is blocked until all threads have
\* terminated (src/join.c), unless exit is called: the manager has then cancelled
\* them and gone.
MainOutlives ==
  pc[main_thread] = "zombie" /\ main_thread \notin signaled =>
    (exit_requested /\ manager = "gone") \/ \A t \in Children : pc[t] \in Gone

\* A restart is only ever on its way to a thread that is, or is about to be, in
\* the suspend it is meant for; a stray one would end the next suspend early.
NoStrayRestart ==
  \A t \in sigpending :
    \/ pc[t] = "create_suspend" /\ ~CreateQueued(t)
    \/ pc[t] \in {"join_suspend", "join_sleep"} /\ desc[th[t]].p_terminated
    \/ pc[t] = "main_suspend" /\ manager = "gone"
    \/ pc[t] \in {"process_exit", "kill_suspend"} /\ exit_requested
    \/ pc[t] \in Gone

\* The manager exited when a thread had died by a signal, and left a thread that
\* blocks that signal: nobody serves its requests.
Deserted ==
  /\ manager = "gone"
  /\ \E t \in signaled : pc[t] = "reaped"
  /\ \E t \in Blocking : pc[t] \notin Gone

\* The manager answers every pthread_create, also when the process ends, unless
\* it deserts a thread.
CreateReturns ==
  \A t \in Threads : pc[t] = "create_suspend" ~> pc[t] # "create_suspend" \/ Deserted

\* A joiner whose thread has terminated wakes up (the thread restarts it, and may
\* be killed before it does when the manager deserts the joiner).
JoinReturns ==
  \A t \in Threads :
    pc[t] = "join_sleep" /\ desc[th[t]].p_terminated
      ~> pc[t] # "join_sleep" \/ Deserted

\* A cancelled joiner leaves pthread_join, whether the thread it waits for
\* terminates or not (a cancellation point).
CancelledJoinerLeaves ==
  \A t \in Threads : pc[t] = "join_sleep" /\ CancelDue(t) ~> pc[t] # "join_sleep"

\* The memory of a thread that is both terminated and detached (or joined: the
\* manager then detaches it) is freed, while there is a manager.
Reclaimed ==
  \A t \in Threads \ {InitialThread} :
    t \in stack_segments /\ desc[t].p_terminated /\ desc[t].p_detached
      ~> t \notin stack_segments \/ ~ManagerRuns

\* exit ends every thread of the process, and so does the death of the initial
\* thread by pthread_exit, unless the manager deserts a thread.
ProcessEnds ==
  (\E t \in Threads : pc[t] = "process_exit") \/ pc[main_thread] = "zombie"
    ~> (\A t \in Threads : pc[t] \in Gone) \/ Deserted

=============================================================================
