---------------------------- MODULE ForkHandlers ----------------------------
(***************************************************************************)
(* pthread_atfork and fork (src/ptfork.c), and the locks of the streams    *)
(* (src/lockfile.c), which fork resets in the child.                       *)
(*                                                                         *)
(* The handlers are the ones the manual page recommends: prepare locks a   *)
(* mutex of the program, parent and child unlock it; or there is only a    *)
(* child handler, which initialises the mutex.  After __fork the model     *)
(* goes on as the parent or as the child; in the child the other threads   *)
(* are gone and what they held stays held.  The mutexes are those of       *)
(* AbstractMutex, which the module Mutex implements, without the line.     *)
(***************************************************************************)
EXTENDS Integers, Sequences, Functions

CONSTANTS Threads, NULL,
          Blocks     \* the sets of handlers, each with a mutex of the program

VARIABLES
  pthread_atfork_lock,     \* its owner, or NULL
  lists,                   \* the three lists of handlers
  mutex,                   \* the owner of each mutex, or NULL
  lock,                    \* the recursive lock of a stream: owner and count
  pc,
  block, given,            \* arguments of pthread_atfork: the block and which of
                           \* its three handlers are not NULL
  list, parent, child,     \* local variables of fork: nodes, or NULL
  holds, depth,            \* what the program of a thread has locked; no code
  prepared, after,         \* the handlers a fork has called, the last prepare
                           \* handler first; no code
  late                     \* handlers came between a fork's reading of the lists
                           \* and its end; no code

atforkVars == <<pthread_atfork_lock, lists, block, given, late>>
streamVars == <<lock, depth>>
mutexVars == <<mutex, holds>>
forkVars == <<list, parent, child, prepared, after>>
vars == <<atforkVars, streamVars, mutexVars, forkVars, pc>>

Phases == {"prepare", "parent", "child"}
Handlers == {Phases, {"child"}}
InFork == {"fork_read", "prepare", "child_reset", "parent", "child"}
Labels == InFork \cup {"run", "gone", "fork_lock", "atfork_lock", "atfork_prepare",
                       "atfork_parent", "atfork_child", "flockfile"}

Gone == "gone"   \* a thread the child does not have
Owners == Threads \cup {NULL, Gone}

ASSUME OwnersAssumption == NULL \notin Threads /\ Gone \notin Threads \cup {NULL}
ASSUME BlocksAssumption == NULL \notin Blocks

TypeOK ==
  /\ pthread_atfork_lock \in Owners
  /\ lists \in [Phases -> Seq(Blocks)]
  /\ mutex \in [Blocks -> Owners]
  /\ lock \in [owner : Owners, count : Nat]
  /\ pc \in [Threads -> Labels]
  /\ block \in [Threads -> Blocks \cup {NULL}]
  /\ given \in [Threads -> Handlers]
  /\ {list, parent, child} \subseteq [Threads -> Blocks \cup {NULL}]
  /\ holds \in [Threads -> SUBSET Blocks]
  /\ depth \in [Threads -> Nat]
  /\ {prepared, after} \subseteq [Threads -> Seq(Blocks)]
  /\ late \in BOOLEAN

Init ==
  /\ pthread_atfork_lock = NULL
  /\ lists = [phase \in Phases |-> <<>>]
  /\ mutex = [b \in Blocks |-> NULL]
  /\ lock = [owner |-> NULL, count |-> 0]
  /\ pc = [t \in Threads |-> "run"]
  /\ block = [t \in Threads |-> NULL]
  /\ given = [t \in Threads |-> Phases]
  /\ list = [t \in Threads |-> NULL]
  /\ parent = [t \in Threads |-> NULL]
  /\ child = [t \in Threads |-> NULL]
  /\ holds = [t \in Threads |-> {}]
  /\ depth = [t \in Threads |-> 0]
  /\ prepared = [t \in Threads |-> <<>>]
  /\ after = [t \in Threads |-> <<>>]
  /\ late = FALSE

Goto(self, label) == pc' = [pc EXCEPT ![self] = label]
First(nodes) == IF nodes = <<>> THEN NULL ELSE nodes[1]
\* The next field of a node.
next(nodes, b) ==
  IF b = nodes[Len(nodes)] THEN NULL
  ELSE nodes[1 + CHOOSE n \in DOMAIN nodes : nodes[n] = b]
-----------------------------------------------------------------------------
(***************************************************************************)
(* pthread_atfork.                                                         *)
(***************************************************************************)

\* Into the list of a phase; handler says whether there is one.
pthread_insert_list(phase, handler, newlist, at_end) ==
  lists' = IF handler
           THEN [lists EXCEPT ![phase] =
                   IF at_end THEN Append(@, newlist) ELSE <<newlist>> \o @]
           ELSE lists

\* A block is allocated for every call.
pthread_atfork(self, b, handlers) ==
  /\ pc[self] = "run"
  /\ \A t \in Threads : block[t] # b
  /\ \A phase \in Phases : b \notin Range(lists[phase])
  /\ block' = [block EXCEPT ![self] = b]
  /\ given' = [given EXCEPT ![self] = handlers]
  /\ Goto(self, "atfork_lock")
  /\ UNCHANGED <<pthread_atfork_lock, lists, late, streamVars, mutexVars, forkVars>>

pthread_atfork_locked(self) ==
  /\ pc[self] = "atfork_lock"
  /\ pthread_atfork_lock = NULL
  /\ pthread_atfork_lock' = self
  /\ Goto(self, "atfork_prepare")
  /\ UNCHANGED <<lists, block, given, late, streamVars, mutexVars, forkVars>>

Insert(self, label, phase, at_end, then) ==
  /\ pc[self] = label
  /\ pthread_insert_list(phase, phase \in given[self], block[self], at_end)
  /\ late' = (late \/ \E t \in Threads : pc[t] \in InFork \ {"fork_read"})
  /\ Goto(self, then)

pthread_atfork_insert(self) ==
  /\ \/ Insert(self, "atfork_prepare", "prepare", FALSE, "atfork_parent")
     \/ Insert(self, "atfork_parent", "parent", TRUE, "atfork_child")
  /\ UNCHANGED <<pthread_atfork_lock, block, given, streamVars, mutexVars, forkVars>>

\* Mutant: the lock is kept.
atfork_keeps_lock(self) ==
  /\ Insert(self, "atfork_child", "child", TRUE, "run")
  /\ block' = [block EXCEPT ![self] = NULL]
  /\ UNCHANGED <<pthread_atfork_lock, given, streamVars, mutexVars, forkVars>>

\* The last list, and the unlocking.
pthread_atfork_return(self) ==
  /\ Insert(self, "atfork_child", "child", TRUE, "run")
  /\ pthread_atfork_lock' = NULL
  /\ block' = [block EXCEPT ![self] = NULL]
  /\ UNCHANGED <<given, streamVars, mutexVars, forkVars>>
-----------------------------------------------------------------------------
(***************************************************************************)
(* fork.  The thread that calls it has locked nothing.                     *)
(***************************************************************************)
fork(self) ==
  /\ pc[self] = "run"
  /\ holds[self] = {} /\ depth[self] = 0
  /\ prepared' = [prepared EXCEPT ![self] = <<>>]
  /\ after' = [after EXCEPT ![self] = <<>>]
  /\ Goto(self, "fork_lock")
  /\ UNCHANGED <<atforkVars, streamVars, mutexVars, list, parent, child>>

fork_locked(self) ==
  /\ pc[self] = "fork_lock"
  /\ pthread_atfork_lock = NULL
  /\ pthread_atfork_lock' = self
  /\ Goto(self, "fork_read")
  /\ UNCHANGED <<lists, block, given, late, streamVars, mutexVars, forkVars>>

\* Mutant: the lists are read without the lock.
read_unlocked(self) ==
  /\ pc[self] \in {"fork_lock", "fork_read"}
  /\ list' = [list EXCEPT ![self] = First(lists["prepare"])]
  /\ parent' = [parent EXCEPT ![self] = First(lists["parent"])]
  /\ child' = [child EXCEPT ![self] = First(lists["child"])]
  /\ pthread_atfork_lock' = IF pc[self] = "fork_read" THEN NULL ELSE pthread_atfork_lock
  /\ Goto(self, "prepare")
  /\ UNCHANGED <<lists, block, given, late, streamVars, mutexVars, prepared, after>>

\* The heads of the lists, and the unlocking.
fork_read(self) ==
  /\ pc[self] = "fork_read"
  /\ list' = [list EXCEPT ![self] = First(lists["prepare"])]
  /\ parent' = [parent EXCEPT ![self] = First(lists["parent"])]
  /\ child' = [child EXCEPT ![self] = First(lists["child"])]
  /\ pthread_atfork_lock' = NULL
  /\ Goto(self, "prepare")
  /\ UNCHANGED <<lists, block, given, late, streamVars, mutexVars, prepared, after>>

\* A round of the loop, for the list the thread is at.  What follows the node is
\* read after the handler has returned.
pthread_call_handlers(self) ==
  LET b == list[self] IN
  /\ pc[self] \in Phases
  /\ b # NULL
  /\ list' = [list EXCEPT ![self] = next(lists[pc[self]], b)]
  /\ IF pc[self] = "prepare"
     THEN /\ mutex[b] = NULL
          /\ mutex' = [mutex EXCEPT ![b] = self]
          /\ prepared' = [prepared EXCEPT ![self] = <<b>> \o @]
          /\ UNCHANGED after
     ELSE /\ mutex' = [mutex EXCEPT ![b] = NULL]
          /\ after' = [after EXCEPT ![self] = Append(@, b)]
          /\ UNCHANGED prepared
  /\ UNCHANGED <<atforkVars, streamVars, holds, parent, child, pc>>

__fork_parent(self) ==
  /\ pc[self] = "prepare" /\ list[self] = NULL
  /\ list' = [list EXCEPT ![self] = parent[self]]
  /\ Goto(self, "parent")
  /\ UNCHANGED <<atforkVars, streamVars, mutexVars, parent, child, prepared, after>>

\* Whom the child takes for the owner of a mutex.
Inherited(self, owner) == IF owner \in {NULL, self} THEN owner ELSE Gone

__fork_child(self) ==
  /\ pc[self] = "prepare" /\ list[self] = NULL
  /\ pc' = [t \in Threads |-> IF t = self THEN "child_reset" ELSE "gone"]
  /\ holds' = [t \in Threads |-> {}]
  /\ depth' = [t \in Threads |-> 0]
  /\ pthread_atfork_lock' = Inherited(self, pthread_atfork_lock)
  /\ mutex' = [b \in Blocks |-> Inherited(self, mutex[b])]
  /\ lock' = [lock EXCEPT !.owner = Inherited(self, @)]
  /\ block' = [t \in Threads |-> NULL]
  /\ UNCHANGED <<lists, given, late, forkVars>>

\* Mutant: nothing is reset.
no_reset == UNCHANGED lock

__fresetlockfiles == lock' = [owner |-> NULL, count |-> 0]

\* Mutant: the lists are mixed up.
child_calls_parent(self) ==
  /\ pc[self] = "child_reset"
  /\ __fresetlockfiles
  /\ list' = [list EXCEPT ![self] = parent[self]]
  /\ Goto(self, "child")
  /\ UNCHANGED <<atforkVars, depth, mutexVars, parent, child, prepared, after>>

\* (For __pthread_reset_main_thread, see Lifecycle.)
fork_child_reset(self) ==
  /\ pc[self] = "child_reset"
  /\ __fresetlockfiles
  /\ list' = [list EXCEPT ![self] = child[self]]
  /\ Goto(self, "child")
  /\ UNCHANGED <<atforkVars, depth, mutexVars, parent, child, prepared, after>>

fork_return(self) ==
  /\ pc[self] \in {"parent", "child"} /\ list[self] = NULL
  /\ Goto(self, "run")
  /\ UNCHANGED <<atforkVars, streamVars, mutexVars, forkVars>>
-----------------------------------------------------------------------------
(***************************************************************************)
(* What else the program does.                                             *)
(***************************************************************************)
\* A mutex is used once its handlers are registered.
mutex_lock(self, b) ==
  /\ pc[self] = "run"
  /\ b \in Range(lists["child"])
  /\ holds[self] = {} /\ mutex[b] = NULL
  /\ mutex' = [mutex EXCEPT ![b] = self]
  /\ holds' = [holds EXCEPT ![self] = {b}]
  /\ UNCHANGED <<atforkVars, streamVars, forkVars, pc>>

mutex_unlock(self, b) ==
  /\ pc[self] = "run"
  /\ b \in holds[self]
  /\ mutex' = [mutex EXCEPT ![b] = NULL]
  /\ holds' = [holds EXCEPT ![self] = @ \ {b}]
  /\ UNCHANGED <<atforkVars, streamVars, forkVars, pc>>

flockfile(self) ==
  /\ pc[self] = "run"
  /\ Goto(self, "flockfile")
  /\ UNCHANGED <<atforkVars, streamVars, mutexVars, forkVars>>

__flockfile(self) ==
  /\ pc[self] = "flockfile"
  /\ lock.owner \in {NULL, self}
  /\ lock' = [owner |-> self, count |-> lock.count + 1]
  /\ depth' = [depth EXCEPT ![self] = @ + 1]
  /\ Goto(self, "run")
  /\ UNCHANGED <<atforkVars, mutexVars, forkVars>>

__ftrylockfile(self) ==
  /\ pc[self] = "run"
  /\ lock.owner \in {NULL, self}
  /\ lock' = [owner |-> self, count |-> lock.count + 1]
  /\ depth' = [depth EXCEPT ![self] = @ + 1]
  /\ UNCHANGED <<atforkVars, mutexVars, forkVars, pc>>

__funlockfile(self) ==
  /\ pc[self] = "run"
  /\ depth[self] > 0
  /\ lock' = [owner |-> IF lock.count > 1 THEN lock.owner ELSE NULL, count |-> lock.count - 1]
  /\ depth' = [depth EXCEPT ![self] = @ - 1]
  /\ UNCHANGED <<atforkVars, mutexVars, forkVars, pc>>

\* The child creates threads of its own.
pthread_create(self) ==
  /\ pc[self] = "gone"
  /\ \E t \in Threads : pc[t] = "run"
  /\ Goto(self, "run")
  /\ UNCHANGED <<atforkVars, streamVars, mutexVars, forkVars>>
-----------------------------------------------------------------------------
ProgramCall(self) ==
  \/ \E b \in Blocks, handlers \in Handlers : pthread_atfork(self, b, handlers)
  \/ fork(self)
  \/ \E b \in Blocks : mutex_lock(self, b)
  \/ flockfile(self)
  \/ __ftrylockfile(self)
  \/ pthread_create(self)

Unlocks(self) == (\E b \in Blocks : mutex_unlock(self, b)) \/ __funlockfile(self)

Step(self) ==
  \/ pthread_atfork_locked(self) \/ pthread_atfork_insert(self)
  \/ pthread_atfork_return(self)
  \/ fork_locked(self) \/ fork_read(self) \/ pthread_call_handlers(self)
  \/ __fork_parent(self) \/ __fork_child(self) \/ fork_child_reset(self)
  \/ fork_return(self) \/ __flockfile(self)

Next == \E self \in Threads : ProgramCall(self) \/ Unlocks(self) \/ Step(self)

Spec == Init /\ [][Next]_vars
-----------------------------------------------------------------------------
\* After the fork, in both processes, the handlers of the blocks whose prepare
\* handler was called are called in the opposite order, each of them once,
\* whatever is registered meanwhile.
HandlersPaired ==
  [][\A t \in Threads :
       pc[t] \in {"parent", "child"} /\ pc'[t] = "run" =>
         SelectSeq(after[t], LAMBDA b : b \in Range(prepared[t])) = prepared[t]]_vars

\* Handlers that come in during a fork apart, the mutexes of the registered
\* blocks are held by the threads that locked them: in the child, once fork has
\* returned, by none that is gone.
MutexesKept ==
  ~late =>
    /\ \A t \in Threads : \A b \in holds[t] : mutex[b] = t
    /\ (\A t \in Threads : pc[t] \notin {"child_reset", "child"})
         => \A b \in Range(lists["child"]) : mutex[b] # Gone

\* The lock of a stream is held by the thread that is between flockfile and
\* funlockfile, as often as it has locked it, and in the child by none that is gone.
StreamOwned ==
  (\A t \in Threads : pc[t] # "child_reset") =>
    /\ lock.owner # Gone
    /\ \A t \in Threads : depth[t] = IF lock.owner = t THEN lock.count ELSE 0

\* fork returns, handlers that come in meanwhile apart, unless the child has
\* inherited a locked pthread_atfork_lock.
ForkReturns ==
  \A t \in Threads :
    (pc[t] = "fork_lock") ~>
      (pc[t] \in {"run", "gone"} \/ late \/ pthread_atfork_lock = Gone)
=============================================================================
