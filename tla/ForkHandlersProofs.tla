------------------------- MODULE ForkHandlersProofs -------------------------
(***************************************************************************)
(* The locks of the streams and the mutexes of the fork handlers across    *)
(* fork, for every set of threads and of handlers.                         *)
(***************************************************************************)
EXTENDS ForkHandlers, TLAPS

USE OwnersAssumption

Resetting(t) == pc[t] = "child_reset"

\* Who has locked the stream, and how often.
Owned ==
  /\ lock.owner \in Threads \cup {NULL}
  /\ lock.owner = NULL => lock.count = 0
  /\ \A t \in Threads : depth[t] = IF lock.owner = t THEN lock.count ELSE 0

\* Between __fork and __fresetlockfiles the lock may belong to a thread the child
\* does not have; but then the child has only one thread, which has locked nothing.
StreamInv ==
  /\ lock \in [owner : Owners, count : Nat]
  /\ depth \in [Threads -> Nat]
  /\ pc \in [Threads -> Labels]
  /\ \A t \in Threads : Resetting(t) =>
       /\ \A u \in Threads \ {t} : pc[u] = "gone"
       /\ \A u \in Threads : depth[u] = 0
  /\ (\A t \in Threads : ~Resetting(t)) => Owned

LEMMA StreamInvInit == Init => StreamInv
<1> SUFFICES ASSUME Init PROVE StreamInv
  BY Zenon
<1>1. /\ lock = [owner |-> NULL, count |-> 0]
      /\ pc = [t \in Threads |-> "run"]
      /\ depth = [t \in Threads |-> 0]
  BY Zenon DEF Init
<1>2. lock \in [owner : Owners, count : Nat]
  BY <1>1, Zenon DEF Owners
<1>3. Owned
  BY <1>1, Zenon DEF Owned
<1>. QED
  BY <1>1, <1>2, <1>3, Zenon DEF StreamInv, Resetting, Labels

\* A step of a thread that leaves the streams alone, does not reset them, and
\* leads out of no reset.
LEMMA OtherStep ==
  ASSUME StreamInv, NEW self \in Threads, NEW label \in Labels \ {"child_reset"},
         pc' = [pc EXCEPT ![self] = label], UNCHANGED streamVars,
         pc[self] \notin {"child_reset", "gone"}
  PROVE  StreamInv'
<1>1. \A t \in Threads : ~Resetting(t) /\ ~Resetting(t)'
  BY Zenon DEF StreamInv, Resetting
<1>2. Owned /\ UNCHANGED <<lock, depth>>
  BY <1>1, Zenon DEF StreamInv, streamVars
<1>3. Owned'
  BY <1>2, Zenon DEF Owned
<1>4. pc' \in [Threads -> Labels]
  BY Zenon DEF StreamInv
<1>. QED
  BY <1>1, <1>2, <1>3, <1>4, Zenon DEF StreamInv

\* Every step keeps account of the stream.
LEMMA StreamInvNext ==
  ASSUME StreamInv, [Next]_vars
  PROVE  StreamInv'
<1>1. CASE UNCHANGED vars
  BY <1>1, Zenon DEF StreamInv, Owned, Resetting, vars, streamVars
<1>2. ASSUME NEW self \in Threads,
             \/ \E b \in Blocks, handlers \in Handlers : pthread_atfork(self, b, handlers)
             \/ fork(self) \/ flockfile(self)
             \/ pthread_atfork_locked(self) \/ pthread_atfork_insert(self)
             \/ pthread_atfork_return(self)
             \/ fork_locked(self) \/ fork_read(self)
             \/ __fork_parent(self) \/ fork_return(self)
      PROVE  StreamInv'
  <2>1. UNCHANGED streamVars /\ pc[self] \notin {"child_reset", "gone"}
    BY <1>2, Zenon DEF pthread_atfork, fork, flockfile, pthread_atfork_locked,
       pthread_atfork_insert, pthread_atfork_return, Insert, fork_locked, fork_read,
       __fork_parent, fork_return, streamVars
  <2>2. \E label \in Labels \ {"child_reset"} : pc' = [pc EXCEPT ![self] = label]
    <3>1. \/ Goto(self, "atfork_lock") \/ Goto(self, "atfork_prepare")
          \/ Goto(self, "atfork_parent") \/ Goto(self, "atfork_child")
          \/ Goto(self, "fork_lock") \/ Goto(self, "fork_read")
          \/ Goto(self, "prepare") \/ Goto(self, "parent")
          \/ Goto(self, "flockfile") \/ Goto(self, "run")
      BY <1>2, Zenon DEF pthread_atfork, fork, flockfile, pthread_atfork_locked,
         pthread_atfork_insert, pthread_atfork_return, Insert, fork_locked, fork_read,
         __fork_parent, fork_return
    <3>. QED
      BY <3>1, Zenon DEF Goto, Labels, InFork
  <2>. QED
    BY <2>1, <2>2, OtherStep, Zenon
<1>3. ASSUME NEW self \in Threads,
             \/ \E b \in Blocks : mutex_lock(self, b) \/ mutex_unlock(self, b)
             \/ pthread_call_handlers(self)
      PROVE  StreamInv'
  <2>1. UNCHANGED <<lock, depth, pc>>
    BY <1>3, Zenon DEF mutex_lock, mutex_unlock, pthread_call_handlers, streamVars
  <2>. QED
    BY <2>1, Zenon DEF StreamInv, Owned, Resetting
\* The child creates a thread: its first one runs, so that it has reset the streams.
<1>4. ASSUME NEW self \in Threads, pthread_create(self) PROVE StreamInv'
  <2>1. \A t \in Threads : ~Resetting(t)
    BY <1>4, Zenon DEF pthread_create, StreamInv, Resetting
  <2>. QED
    BY <1>4, <2>1, Zenon DEF pthread_create, Goto, StreamInv, Owned, Resetting, streamVars
<1>5. ASSUME NEW self \in Threads,
             __flockfile(self) \/ __ftrylockfile(self) \/ __funlockfile(self)
      PROVE  StreamInv'
  <2>1. /\ pc[self] \in {"flockfile", "run"}
        /\ pc' = [pc EXCEPT ![self] = "run"]
    BY <1>5, Zenon DEF __flockfile, __ftrylockfile, __funlockfile, Goto, StreamInv
  <2>2. \A t \in Threads : ~Resetting(t) /\ ~Resetting(t)'
    BY <2>1, Zenon DEF StreamInv, Resetting
  <2>3. Owned /\ lock \in [owner : Owners, count : Nat] /\ depth \in [Threads -> Nat]
    BY <2>2, Zenon DEF StreamInv
  <2>4. pc' \in [Threads -> Labels]
    BY <2>1, Zenon DEF StreamInv, Labels
  <2>5. CASE /\ lock.owner \in {NULL, self}
             /\ lock' = [owner |-> self, count |-> lock.count + 1]
             /\ depth' = [depth EXCEPT ![self] = @ + 1]
    <3>1. lock' \in [owner : Owners, count : Nat] /\ depth' \in [Threads -> Nat]
      BY <2>3, <2>5 DEF Owners
    <3>2. Owned'
      BY <2>3, <2>5, Zenon DEF Owned
    <3>. QED
      BY <2>2, <2>4, <3>1, <3>2, Zenon DEF StreamInv
  <2>6. CASE /\ depth[self] > 0
             /\ lock' = [owner |-> IF lock.count > 1 THEN lock.owner ELSE NULL,
                         count |-> lock.count - 1]
             /\ depth' = [depth EXCEPT ![self] = @ - 1]
    <3>1. lock.owner = self /\ lock.count = depth[self]
      BY <2>3, <2>6 DEF Owned
    <3>2. lock' \in [owner : Owners, count : Nat] /\ depth' \in [Threads -> Nat]
      BY <2>3, <2>6, <3>1 DEF Owners
    <3>3. Owned'
      BY <2>3, <2>6, <3>1 DEF Owned
    <3>. QED
      BY <2>2, <2>4, <3>2, <3>3, Zenon DEF StreamInv
  <2>. QED
    BY <1>5, <2>5, <2>6, Zenon DEF __flockfile, __ftrylockfile, __funlockfile
\* Into the child: the owner is gone, and so are the other threads.
<1>6. ASSUME NEW self \in Threads, __fork_child(self) PROVE StreamInv'
  <2>1. /\ pc' = [t \in Threads |-> IF t = self THEN "child_reset" ELSE "gone"]
        /\ depth' = [t \in Threads |-> 0]
        /\ lock' = [lock EXCEPT !.owner = Inherited(self, @)]
        /\ lock \in [owner : Owners, count : Nat]
    BY <1>6, Zenon DEF __fork_child, StreamInv
  <2>2. lock' \in [owner : Owners, count : Nat]
    BY <2>1, Zenon DEF Inherited, Owners
  <2>3. pc' \in [Threads -> Labels]
    BY <2>1, Zenon DEF Labels, InFork
  <2>. QED
    BY <2>1, <2>2, <2>3, Zenon DEF StreamInv, Resetting
<1>7. ASSUME NEW self \in Threads, fork_child_reset(self) PROVE StreamInv'
  <2>1. /\ Resetting(self)
        /\ pc' = [pc EXCEPT ![self] = "child"]
        /\ lock' = [owner |-> NULL, count |-> 0]
        /\ depth' = depth
    BY <1>7, Zenon DEF fork_child_reset, __fresetlockfiles, Resetting, Goto
  <2>2. lock' \in [owner : Owners, count : Nat] /\ pc' \in [Threads -> Labels]
    BY <2>1, Zenon DEF StreamInv, Owners, Labels, InFork
  <2>3. Owned'
    BY <2>1, Zenon DEF StreamInv, Owned
  <2>4. \A t \in Threads : ~Resetting(t)'
    BY <2>1, Zenon DEF StreamInv, Resetting
  <2>. QED
    BY <2>1, <2>2, <2>3, <2>4, Zenon DEF StreamInv
<1>. QED
  BY <1>1, <1>2, <1>3, <1>4, <1>5, <1>6, <1>7, Zenon DEF Next, ProgramCall, Unlocks, Step

\* A stream is locked by the thread between flockfile and funlockfile, as often as
\* it has locked it, and never, once fork has returned in the child, by a thread
\* the child does not have (__fresetlockfiles of src/lockfile.c).
THEOREM StreamOwnedHolds == Spec => []StreamOwned
<1>1. StreamInv => StreamOwned
  BY Zenon DEF StreamInv, StreamOwned, Owned, Resetting
<1>. QED
  BY <1>1, StreamInvInit, StreamInvNext, PTL DEF Spec
-----------------------------------------------------------------------------
(***************************************************************************)
(* The lists of handlers.  Each node is in a list once; and while nobody   *)
(* is registering, the prepare and the parent list have the same blocks,   *)
(* and the child list all of them.                                         *)
(***************************************************************************)
Distinct(s) == \A i, j \in 1 .. Len(s) : s[i] = s[j] => i = j
Nth(s, i) == IF i \in 1 .. Len(s) THEN s[i] ELSE NULL

Registered(phase) == Range(lists[phase])

Locking(t) == pc[t] \in {"fork_read", "atfork_prepare", "atfork_parent", "atfork_child"}
Registering(t) == pc[t] \in {"atfork_parent", "atfork_child"}

New(t, phases) == block[t] \in Blocks /\ \A phase \in phases : block[t] \notin Registered(phase)

\* How far a call of pthread_atfork has come.
Registers(t) ==
  /\ given[t] \in Handlers
  /\ pc[t] \in {"atfork_lock", "atfork_prepare"} => New(t, Phases)
  /\ pc[t] = "atfork_parent" =>
       /\ New(t, {"parent", "child"})
       /\ Registered("prepare") =
            Registered("parent") \cup (IF "prepare" \in given[t] THEN {block[t]} ELSE {})
       /\ Registered("parent") \subseteq Registered("child")
  /\ pc[t] = "atfork_child" =>
       /\ New(t, {"child"})
       /\ Registered("prepare") = Registered("parent")
       /\ Registered("parent") \subseteq Registered("child") \cup {block[t]}
  /\ pc[t] \notin {"atfork_lock", "atfork_prepare", "atfork_parent", "atfork_child"} => block[t] = NULL

Matched == Registered("prepare") = Registered("parent") /\ Registered("parent") \subseteq Registered("child")

ListsInv ==
  /\ DOMAIN block = Threads /\ DOMAIN given = Threads
  /\ lists \in [Phases -> Seq(Blocks)]
  /\ \A phase \in Phases : Distinct(lists[phase])
  /\ \A t \in Threads : Registers(t) /\ (Locking(t) => pthread_atfork_lock = t)
  /\ \A t, u \in Threads : t # u /\ block[t] # NULL => block[u] # block[t]
  /\ (\A t \in Threads : ~Registering(t)) => Matched

LEMMA NthIs ==
  ASSUME NEW s \in Seq(Blocks), NEW i \in 1 .. Len(s) + 1
  PROVE  /\ First(s) = Nth(s, 1) /\ 1 \in 1 .. Len(s) + 1
         /\ Nth(s, i) = NULL => i = Len(s) + 1
         /\ Nth(s, i) # NULL => i \in 1 .. Len(s) /\ Nth(s, i) = s[i] /\ i + 1 \in 1 .. Len(s) + 1
  BY BlocksAssumption DEF First, Nth

\* The next field of a node leads to the next one.
LEMMA NextIs ==
  ASSUME NEW s \in Seq(Blocks), Distinct(s), NEW i \in 1 .. Len(s)
  PROVE  next(s, s[i]) = Nth(s, i + 1)
<1>1. Len(s) \in 1 .. Len(s) /\ DOMAIN s = 1 .. Len(s)
  OBVIOUS
<1>2. CASE i = Len(s)
  BY <1>1, <1>2 DEF next, Nth
<1>3. CASE i # Len(s)
  <2>1. s[i] # s[Len(s)]
    BY <1>1, <1>3, Zenon DEF Distinct
  <2>3. i + 1 \in 1 .. Len(s) /\ 1 + i = i + 1
    BY <1>3
  <2>4. (CHOOSE n \in DOMAIN s : s[n] = s[i]) = i
    BY <1>1, Zenon DEF Distinct
  <2>5. next(s, s[i]) = s[1 + i]
    BY <2>1, <2>4, Zenon DEF next
  <2> QED
    BY <2>3, <2>5, Zenon DEF Nth
<1> QED
  BY <1>2, <1>3, Zenon

LEMMA InsertIs ==
  ASSUME NEW s \in Seq(Blocks), Distinct(s), NEW b \in Blocks, b \notin Range(s),
         NEW r, r = Append(s, b) \/ r = <<b>> \o s
  PROVE  r \in Seq(Blocks) /\ Distinct(r) /\ Range(r) = Range(s) \cup {b}
<1>0. \A i \in 1 .. Len(s) : s[i] # b
  BY DEF Range
<1>1. CASE r = Append(s, b)
  <2>1. /\ r \in Seq(Blocks) /\ Len(r) = Len(s) + 1 /\ r[Len(r)] = b
        /\ \A i \in 1 .. Len(s) : r[i] = s[i]
    BY <1>1
  <2>2. Distinct(r)
    BY <1>0, <2>1 DEF Distinct
  <2>3. \A i \in 1 .. Len(r) : i \in 1 .. Len(s) \/ i = Len(r)
    BY <2>1
  <2>4. DOMAIN s = 1 .. Len(s) /\ DOMAIN r = 1 .. Len(r)
        /\ Len(r) \in 1 .. Len(r) /\ \A i \in 1 .. Len(s) : i \in 1 .. Len(r)
    BY <2>1
  <2>5. Range(r) = Range(s) \cup {b}
    BY <2>1, <2>3, <2>4, Zenon DEF Range
  <2> QED
    BY <2>1, <2>2, <2>5, Zenon
<1>2. CASE r = <<b>> \o s
  <2>1. /\ r \in Seq(Blocks) /\ Len(r) = Len(s) + 1 /\ r[1] = b
        /\ \A i \in 1 .. Len(s) : r[i + 1] = s[i]
    BY <1>2
  <2>2. \A i \in 1 .. Len(r) : i # 1 => i - 1 \in 1 .. Len(s) /\ r[i] = s[i - 1]
    <3> SUFFICES ASSUME NEW i \in 1 .. Len(r), i # 1
                 PROVE  i - 1 \in 1 .. Len(s) /\ r[i] = s[i - 1]
      BY Zenon
    <3>1. i - 1 \in 1 .. Len(s) /\ (i - 1) + 1 = i
      BY <2>1
    <3> QED
      BY <2>1, <3>1, Zenon
  <2>3. Distinct(r)
    <3> SUFFICES ASSUME NEW i \in 1 .. Len(r), NEW j \in 1 .. Len(r), r[i] = r[j]
                 PROVE  i = j
      BY Zenon DEF Distinct
    <3>1. i # 1 /\ j # 1 => i - 1 = j - 1
      BY <2>2, Zenon DEF Distinct
    <3>2. i = 1 <=> j = 1
      BY <1>0, <2>1, <2>2, Zenon
    <3> QED
      BY <3>1, <3>2
  <2>4. DOMAIN s = 1 .. Len(s) /\ DOMAIN r = 1 .. Len(r)
        /\ 1 \in 1 .. Len(r) /\ \A i \in 1 .. Len(s) : i + 1 \in 1 .. Len(r)
    BY <2>1
  <2>5. ASSUME NEW i \in 1 .. Len(r) PROVE r[i] \in Range(s) \cup {b}
    BY <2>1, <2>2, <2>4, Zenon DEF Range
  <2>6. \A i \in 1 .. Len(s) : s[i] \in Range(r)
    BY <2>1, <2>4, Zenon DEF Range
  <2>7. b \in Range(r)
    BY <2>1, <2>4, Zenon DEF Range
  <2>8. Range(r) = Range(s) \cup {b}
    BY <2>4, <2>5, <2>6, <2>7, Zenon DEF Range
  <2> QED
    BY <2>1, <2>3, <2>8, Zenon
<1> QED
  BY <1>1, <1>2, Zenon

LEMMA ListsInit == Init => ListsInv
<1> SUFFICES ASSUME Init PROVE ListsInv
  BY Zenon
<1>1. /\ lists = [phase \in Phases |-> <<>>] /\ block = [t \in Threads |-> NULL]
      /\ given = [t \in Threads |-> Phases] /\ pc = [t \in Threads |-> "run"]
  BY Zenon DEF Init
<1>2. \A phase \in Phases : lists[phase] = <<>> /\ Registered(phase) = {} /\ Distinct(lists[phase])
  BY <1>1 DEF Registered, Range, Distinct
<1>3. lists \in [Phases -> Seq(Blocks)]
  BY <1>1
<1>4. Matched
  BY <1>2, Zenon DEF Matched, Phases
<1> QED
  BY <1>1, <1>2, <1>3, <1>4, Zenon DEF ListsInv, Registers, Locking, Handlers

\* A step of a thread that leaves the lists alone.
LEMMA ListsFrame ==
  ASSUME ListsInv, NEW self \in Threads, UNCHANGED lists,
         DOMAIN block' = Threads, DOMAIN given' = Threads,
         \A t \in Threads \ {self} :
           /\ pc'[t] = pc[t] /\ block'[t] = block[t] /\ given'[t] = given[t]
           /\ Locking(t) => pthread_atfork_lock' = t
           /\ block[t] = NULL \/ block'[self] # block[t],
         ~Registering(self), ~Registering(self)', Registers(self)',
         Locking(self)' => pthread_atfork_lock' = self
  PROVE  ListsInv'
<1>1. \A phase : Registered(phase)' = Registered(phase)
  BY Zenon DEF Registered
<1>2. Matched' <=> Matched
  BY <1>1, Zenon DEF Matched
<1>3. \A t \in Threads \ {self} : /\ Registers(t)' /\ (Registering(t)' <=> Registering(t))
                                  /\ (Locking(t)' => pthread_atfork_lock' = t)
  <2>1. \A t \in Threads \ {self} : (Registering(t)' <=> Registering(t)) /\ (Locking(t)' <=> Locking(t))
    BY <1>1, Zenon DEF Registering, Locking
  <2>2. \A t \in Threads \ {self} : \A where : New(t, where)' <=> New(t, where)
    BY <1>1, Zenon DEF New
  <2>3. \A t \in Threads \ {self} : Registers(t) => Registers(t)'
    BY <1>1, <2>1, <2>2, Zenon DEF Registers
  <2> QED
    BY <1>1, <2>1, <2>3, Zenon DEF ListsInv
<1>4. \A t, u \in Threads : t # u /\ block'[t] # NULL => block'[u] # block'[t]
  BY Zenon DEF ListsInv
<1>5. lists' \in [Phases -> Seq(Blocks)] /\ \A phase \in Phases : Distinct(lists'[phase])
  BY Zenon DEF ListsInv
<1> QED
  BY <1>2, <1>3, <1>4, <1>5, Zenon DEF ListsInv

\* A step with no part in a registration.
LEMMA ListsQuiet ==
  ASSUME ListsInv, NEW self \in Threads, UNCHANGED <<lists, block, given, pthread_atfork_lock>>,
         \A t \in Threads \ {self} : pc'[t] = pc[t],
         {pc[self], pc'[self]} \cap {"atfork_lock", "atfork_prepare", "atfork_parent", "atfork_child"} = {},
         pc'[self] # "fork_read"
  PROVE  ListsInv'
<1>1. Registers(self)' /\ ~Registering(self) /\ ~Registering(self)' /\ ~Locking(self)'
  BY Zenon DEF ListsInv, Registers, Registering, Locking
<1>2. DOMAIN block' = Threads /\ DOMAIN given' = Threads
  BY Zenon DEF ListsInv
<1>3. \A t \in Threads \ {self} :
           /\ pc'[t] = pc[t] /\ block'[t] = block[t] /\ given'[t] = given[t]
           /\ Locking(t) => pthread_atfork_lock' = t
           /\ block[t] = NULL \/ block'[self] # block[t]
  BY Zenon DEF ListsInv
<1> QED
  BY <1>1, <1>2, <1>3, ListsFrame, Zenon

LEMMA InsertLists ==
  ASSUME ListsInv, NEW self \in Threads, NEW phase \in Phases, NEW at_end,
         New(self, {phase}), pthread_insert_list(phase, phase \in given[self], block[self], at_end)
  PROVE  /\ lists' \in [Phases -> Seq(Blocks)]
         /\ \A other \in Phases : Distinct(lists'[other])
         /\ \A other \in Phases : Registered(other)' =
              IF other = phase /\ phase \in given[self] THEN Registered(other) \cup {block[self]}
              ELSE Registered(other)
<1>1. CASE phase \notin given[self]
  BY <1>1, Zenon DEF pthread_insert_list, ListsInv, Registered
<1>2. CASE phase \in given[self]
  <2> DEFINE s == lists[phase]
             r == IF at_end THEN Append(s, block[self]) ELSE <<block[self]>> \o s
  <2>1. lists \in [Phases -> Seq(Blocks)] /\ s \in Seq(Blocks) /\ Distinct(s)
        /\ block[self] \in Blocks /\ block[self] \notin Range(s)
    BY Zenon DEF ListsInv, New, Registered
  <2>2. lists' = [lists EXCEPT ![phase] = r]
    BY <1>2, Zenon DEF pthread_insert_list
  <2>3. r = Append(s, block[self]) \/ r = <<block[self]>> \o s
    BY Zenon
  <2> HIDE DEF s, r
  <2>4. r \in Seq(Blocks) /\ Distinct(r) /\ Range(r) = Range(s) \cup {block[self]}
    BY <2>1, <2>3, InsertIs, Zenon
  <2>5. lists' \in [Phases -> Seq(Blocks)]
    BY <2>1, <2>2, <2>4, Zenon
  <2>6. lists'[phase] = r /\ \A other \in Phases \ {phase} : lists'[other] = lists[other]
    BY <2>1, <2>2, Zenon
  <2>7. \A other \in Phases : Distinct(lists'[other])
    BY <2>4, <2>6, Zenon DEF ListsInv
  <2>8. Registered(phase)' = Registered(phase) \cup {block[self]}
    BY <2>4, <2>6, Zenon DEF Registered, s
  <2>9. \A other \in Phases \ {phase} : Registered(other)' = Registered(other)
    BY <2>6, Zenon DEF Registered
  <2> QED
    BY <1>2, <2>5, <2>7, <2>8, <2>9, Zenon
<1> QED
  BY <1>1, <1>2, Zenon

\* A registration goes on while no other thread reads or changes the lists.
LEMMA ListsInsert ==
  ASSUME ListsInv, pc \in [Threads -> Labels], NEW self \in Threads,
         pthread_atfork_insert(self) \/ pthread_atfork_return(self)
  PROVE  ListsInv'
<1> USE DEF Insert, Goto
<1>0. /\ DOMAIN pc = Threads /\ DOMAIN block = Threads /\ DOMAIN given = Threads
      /\ Registers(self) /\ Phases = {"prepare", "parent", "child"}
      /\ "prepare" \in given[self] <=> "parent" \in given[self]
      /\ "child" \in given[self]
  BY DEF ListsInv, Phases, Registers, Handlers
<1>1. /\ pc[self] \in {"atfork_prepare", "atfork_parent", "atfork_child"} /\ Locking(self)
      /\ \A t \in Threads \ {self} : pc'[t] = pc[t] /\ block'[t] = block[t]
      /\ UNCHANGED given /\ DOMAIN block' = Threads
  BY <1>0, Zenon DEF pthread_atfork_insert, pthread_atfork_return, Locking
<1>2. block[self] # NULL /\ \A t \in Threads \ {self} : ~Locking(t)
  BY <1>0, <1>1, BlocksAssumption, Zenon DEF ListsInv, Registers, New
<1>3. \A t \in Threads \ {self} : ~Locking(t)' /\ ~Registering(t)' /\ block'[t] # block[self]
  BY <1>0, <1>1, <1>2, Zenon DEF Locking, Registering, ListsInv
<1>4. ASSUME NEW phase \in Phases,
             \A other \in Phases : Registered(other)' \subseteq Registered(other) \cup {block[self]}
      PROVE  \A t \in Threads \ {self} : Registers(t)'
  <2> SUFFICES ASSUME NEW t \in Threads \ {self} PROVE Registers(t)'
    BY Zenon
  <2>1. Registers(t) /\ given'[t] = given[t] /\ pc'[t] = pc[t] /\ block'[t] = block[t]
    BY <1>0, <1>1, Zenon DEF ListsInv
  <2>2. New(t, Phases) => New(t, Phases)'
    BY <1>3, <1>4, <2>1, Zenon DEF New
  <2> QED
    BY <1>3, <2>1, <2>2, Zenon DEF Registers, Registering
<1>5. \A t, u \in Threads : t # u /\ block'[t] # NULL => block'[u] # block'[t]
  BY <1>1, <1>0, Zenon DEF ListsInv, pthread_atfork_insert, pthread_atfork_return
<1>6. CASE Insert(self, "atfork_prepare", "prepare", FALSE, "atfork_parent") /\ pthread_atfork_insert(self)
  <2>1. New(self, {"prepare"}) /\ New(self, Phases) /\ Matched
    BY <1>0, <1>2, <1>6, Zenon DEF Registers, New, ListsInv, Registering, Locking
  <2>2. /\ lists' \in [Phases -> Seq(Blocks)]
        /\ \A other \in Phases : Distinct(lists'[other])
        /\ \A other \in Phases : Registered(other)' =
              IF other = "prepare" /\ "prepare" \in given[self] THEN Registered(other) \cup {block[self]}
              ELSE Registered(other)
    BY <1>0, <1>6, <2>1, InsertLists, Zenon
  <2>3. pc'[self] = "atfork_parent" /\ UNCHANGED <<block, pthread_atfork_lock>>
    BY <1>0, <1>6, Zenon DEF pthread_atfork_insert
  <2>4. Registers(self)'
    BY <1>0, <1>1, <2>1, <2>2, <2>3 DEF Registers, New, Matched
  <2> QED
    BY <1>0, <1>1, <1>3, <1>4, <1>5, <2>2, <2>3, <2>4, Zenon DEF ListsInv, Registering, Locking
<1>7. CASE Insert(self, "atfork_parent", "parent", TRUE, "atfork_child") /\ pthread_atfork_insert(self)
  <2>1. New(self, {"parent"}) /\ New(self, {"parent", "child"})
    BY <1>0, <1>7, Zenon DEF Registers, New
  <2>2. /\ lists' \in [Phases -> Seq(Blocks)]
        /\ \A other \in Phases : Distinct(lists'[other])
        /\ \A other \in Phases : Registered(other)' =
              IF other = "parent" /\ "parent" \in given[self] THEN Registered(other) \cup {block[self]}
              ELSE Registered(other)
    BY <1>0, <1>7, <2>1, InsertLists, Zenon
  <2>3. pc'[self] = "atfork_child" /\ UNCHANGED <<block, pthread_atfork_lock>>
    BY <1>0, <1>7, Zenon DEF pthread_atfork_insert
  <2>4. /\ Registered("prepare") =
             Registered("parent") \cup (IF "prepare" \in given[self] THEN {block[self]} ELSE {})
        /\ Registered("parent") \subseteq Registered("child")
    BY <1>0, <1>7, Zenon DEF Registers
  <2>5. /\ Registered("prepare")' = Registered("parent")'
        /\ Registered("parent")' \subseteq Registered("child")' \cup {block'[self]}
        /\ New(self, {"child"})'
    <3>1. /\ Registered("prepare")' = Registered("prepare") /\ Registered("child")' = Registered("child")
          /\ "parent" \in given[self] => Registered("parent")' = Registered("parent") \cup {block[self]}
          /\ "parent" \notin given[self] => Registered("parent")' = Registered("parent")
      BY <1>0, <2>2, Zenon
    <3>2. Registered("prepare")' = Registered("parent")'
      BY <1>0, <2>4, <3>1, Zenon
    <3>3. Registered("parent")' \subseteq Registered("child")' \cup {block'[self]}
      BY <2>3, <2>4, <3>1, Zenon
    <3> QED
      BY <2>1, <2>3, <3>1, <3>2, <3>3, Zenon DEF New
  <2>6. Registers(self)'
    BY <1>0, <1>1, <2>3, <2>5, Zenon DEF Registers
  <2> QED
    BY <1>0, <1>1, <1>3, <1>4, <1>5, <2>2, <2>3, <2>6, Zenon DEF ListsInv, Registering, Locking
<1>8. CASE pthread_atfork_return(self)
  <2>1. New(self, {"child"}) /\ pc[self] = "atfork_child"
    BY <1>0, <1>8, Zenon DEF Registers, New, pthread_atfork_return
  <2>2. /\ lists' \in [Phases -> Seq(Blocks)]
        /\ \A other \in Phases : Distinct(lists'[other])
        /\ \A other \in Phases : Registered(other)' =
              IF other = "child" /\ "child" \in given[self] THEN Registered(other) \cup {block[self]}
              ELSE Registered(other)
    BY <1>0, <1>8, <2>1, InsertLists, Zenon DEF pthread_atfork_return
  <2>3. pc'[self] = "run" /\ block'[self] = NULL
    BY <1>0, <1>8, Zenon DEF pthread_atfork_return
  <2>4. Registers(self)' /\ Matched'
    BY <1>0, <1>1, <2>1, <2>2, <2>3 DEF Registers, Matched
  <2> QED
    BY <1>0, <1>1, <1>3, <1>4, <1>5, <2>2, <2>3, <2>4, Zenon DEF ListsInv, Registering, Locking
<1> QED
  BY <1>6, <1>7, <1>8, Zenon DEF pthread_atfork_insert
-----------------------------------------------------------------------------
(***************************************************************************)
(* The mutexes of the handlers, as long as no handlers come in during a    *)
(* fork.                                                                   *)
(***************************************************************************)
Forking(t) == pc[t] \in {"prepare", "child_reset", "parent", "child"}
InChild(t) == pc[t] \in {"child_reset", "child"}

\* t has reached node i of the list: it has locked the mutexes before it (it has
\* still to unlock those from it on, it has initialised those before it).
Prepared(t, i) == /\ list[t] = Nth(lists["prepare"], i)
                  /\ \A j \in 1 .. Len(lists["prepare"]) : j < i => mutex[lists["prepare"][j]] = t
Unlocking(t, i) == /\ list[t] = Nth(lists["parent"], i)
                   /\ \A j \in 1 .. Len(lists["parent"]) : j >= i => mutex[lists["parent"][j]] = t
Reset(t, i) == /\ list[t] = Nth(lists["child"], i)
               /\ \A j \in 1 .. Len(lists["child"]) : j < i => mutex[lists["child"][j]] = NULL

ForksAt(t) ==
  /\ pc[t] \in {"prepare", "child_reset"} => child[t] = First(lists["child"])
  /\ pc[t] = "prepare" => /\ parent[t] = First(lists["parent"])
                          /\ \E i \in 1 .. Len(lists["prepare"]) + 1 : Prepared(t, i)
  /\ pc[t] = "parent" => \E i \in 1 .. Len(lists["parent"]) + 1 : Unlocking(t, i)
  /\ pc[t] = "child" => \E i \in 1 .. Len(lists["child"]) + 1 : Reset(t, i)

ForkTyped ==
  /\ pc \in [Threads -> Labels] /\ mutex \in [Blocks -> Owners]
  /\ DOMAIN list = Threads /\ DOMAIN parent = Threads /\ DOMAIN child = Threads
  /\ DOMAIN holds = Threads

\* A thread that forks holds nothing of its own; one that has locked a mutex
\* holds it; an unregistered mutex is free.
Kept ==
  /\ ListsInv /\ ForkTyped
  /\ \A t \in Threads : ForksAt(t)
  /\ \A t, u \in Threads : Forking(t) => ~Registering(u)
  /\ \A t \in Threads : InChild(t) => \A u \in Threads \ {t} : pc[u] = "gone"
  /\ \A t \in Threads : Forking(t) \/ pc[t] \in {"fork_lock", "fork_read", "gone"} => holds[t] = {}
  /\ \A t \in Threads : \A b \in holds[t] : b \in Blocks /\ mutex[b] = t
  /\ \A b \in Blocks : mutex[b] = NULL \/ b \in Registered("child")
  /\ (\A t \in Threads : ~InChild(t)) => \A b \in Registered("child") : mutex[b] # Gone

LEMMA Elements ==
  ASSUME NEW s \in Seq(Blocks)
  PROVE  /\ \A j \in 1 .. Len(s) : s[j] \in Blocks
         /\ Range(s) = {s[j] : j \in 1 .. Len(s)}
         /\ Range(s) \subseteq Blocks
         /\ First(s) = Nth(s, 1) /\ 1 \in 1 .. Len(s) + 1
<1>1. DOMAIN s = 1 .. Len(s) /\ \A j \in 1 .. Len(s) : s[j] \in Blocks
  OBVIOUS
<1>2. Range(s) = {s[j] : j \in 1 .. Len(s)}
  BY <1>1, Zenon DEF Range
<1>3. Range(s) \subseteq Blocks
  BY <1>1, <1>2, Zenon
<1>4. Len(s) \in Nat /\ 1 \in 1 .. Len(s) + 1
  OBVIOUS
<1> QED
  BY <1>1, <1>2, <1>3, <1>4, NthIs, Zenon

LEMMA Moves ==
  ASSUME pc \in [Threads -> Labels], NEW self \in Threads, NEW label \in Labels,
         pc' = [pc EXCEPT ![self] = label]
  PROVE  /\ pc'[self] = label /\ pc' \in [Threads -> Labels]
         /\ \A t \in Threads \ {self} : pc'[t] = pc[t]
  BY Zenon

LEMMA KeptInit == Init => Kept
<1> SUFFICES ASSUME Init PROVE Kept
  BY Zenon
<1>1. /\ pc = [t \in Threads |-> "run"] /\ mutex = [b \in Blocks |-> NULL]
      /\ list = [t \in Threads |-> NULL] /\ parent = [t \in Threads |-> NULL]
      /\ child = [t \in Threads |-> NULL] /\ holds = [t \in Threads |-> {}]
  BY Zenon DEF Init
<1>2. Registered("child") = {}
  BY DEF Init, Registered, Range, Phases
<1>3. ForkTyped
  BY <1>1, Zenon DEF ForkTyped, Labels, Owners
<1> QED
  BY <1>1, <1>2, <1>3, ListsInit, Zenon DEF Kept, ForksAt, Forking, InChild

LEMMA ForksFrame ==
  ASSUME NEW t \in Threads, ForksAt(t), pc[t] # "child", UNCHANGED lists,
         pc'[t] = pc[t], list'[t] = list[t], parent'[t] = parent[t], child'[t] = child[t],
         lists \in [Phases -> Seq(Blocks)], \A b \in Blocks : mutex[b] = t => mutex'[b] = t
  PROVE  ForksAt(t)'
<1>1. /\ lists["prepare"] \in Seq(Blocks) /\ lists["parent"] \in Seq(Blocks)
  BY Zenon DEF Phases
<1>2. /\ \A j \in 1 .. Len(lists["prepare"]) : lists["prepare"][j] \in Blocks
      /\ \A j \in 1 .. Len(lists["parent"]) : lists["parent"][j] \in Blocks
  BY <1>1
<1>3. ASSUME NEW i, Prepared(t, i) PROVE Prepared(t, i)'
  BY <1>2, <1>3, Zenon DEF Prepared
<1>4. ASSUME NEW i, Unlocking(t, i) PROVE Unlocking(t, i)'
  BY <1>2, <1>4, Zenon DEF Unlocking
<1> QED
  BY <1>3, <1>4, Zenon DEF ForksAt

\* A step with self in no child: it locks and unlocks mutexes that are its own.
LEMMA KeptFrame ==
  ASSUME Kept, NEW self \in Threads, UNCHANGED lists, ListsInv', ForkTyped',
         \A t \in Threads \ {self} : /\ pc'[t] = pc[t] /\ holds'[t] = holds[t] /\ list'[t] = list[t]
                                     /\ parent'[t] = parent[t] /\ child'[t] = child[t],
         \A b \in Blocks : mutex'[b] = mutex[b] \/ {mutex[b], mutex'[b]} \subseteq {NULL, self},
         \A t \in Threads : ~InChild(t), ~InChild(self)', ForksAt(self)',
         Forking(self)' => \A u \in Threads : ~Registering(u), ~Registering(self)',
         Forking(self)' \/ pc'[self] \in {"fork_lock", "fork_read", "gone"} => holds'[self] = {},
         \A b \in holds'[self] : b \in Blocks /\ mutex'[b] = self,
         \A b \in Blocks : mutex'[b] = NULL \/ mutex'[b] = mutex[b] \/ b \in Registered("child")
  PROVE  Kept'
<1>1. Registered("child")' = Registered("child")
  BY Zenon DEF Registered
<1>2. \A t \in Threads \ {self} : \A b \in Blocks : mutex[b] = t => mutex'[b] = t
  BY OwnersAssumption, Zenon
<1>3. \A t \in Threads \ {self} : ForksAt(t)'
  BY <1>2, ForksFrame, Zenon DEF Kept, ListsInv, InChild
<1>4. \A t \in Threads : ~InChild(t)'
  BY Zenon DEF InChild
<1>5. \A t, u \in Threads : Forking(t)' => ~Registering(u)'
  BY Zenon DEF Kept, Forking, Registering
<1>6. \A t \in Threads : Forking(t)' \/ pc'[t] \in {"fork_lock", "fork_read", "gone"} => holds'[t] = {}
  <2>1. \A t \in Threads \ {self} : Forking(t) \/ pc[t] \in {"fork_lock", "fork_read", "gone"} => holds[t] = {}
    BY Zenon DEF Kept
  <2>2. \A t \in Threads \ {self} : Forking(t)' <=> Forking(t)
    BY Zenon DEF Forking
  <2> QED
    BY <2>1, <2>2, Zenon
<1>7. \A t \in Threads : \A b \in holds'[t] : b \in Blocks /\ mutex'[b] = t
  <2>1. \A t \in Threads : \A b \in holds[t] : b \in Blocks /\ mutex[b] = t
    BY Zenon DEF Kept
  <2> QED
    BY <1>2, <2>1, Zenon
<1>8. \A b \in Blocks : mutex'[b] = NULL \/ b \in Registered("child")'
  <2>1. \A b \in Blocks : mutex[b] = NULL \/ b \in Registered("child")
    BY Zenon DEF Kept
  <2> QED
    BY <1>1, <2>1, Zenon
<1>9. \A b \in Blocks : mutex[b] # Gone => mutex'[b] # Gone
  BY OwnersAssumption, Zenon
<1>10. Registered("child") \subseteq Blocks
  <2>1. lists["child"] \in Seq(Blocks)
    BY Zenon DEF Kept, ListsInv, Phases
  <2> QED
    BY <2>1, Elements, Zenon DEF Registered
<1>11. \A b \in Registered("child")' : mutex'[b] # Gone
  BY <1>1, <1>9, <1>10, Zenon DEF Kept
<1> QED
  BY <1>3, <1>4, <1>5, <1>6, <1>7, <1>8, <1>11, Zenon DEF Kept

\* A step of the only thread of the child.
LEMMA KeptAlone ==
  ASSUME Kept, NEW self \in Threads, InChild(self), UNCHANGED <<lists, holds>>, ListsInv', ForkTyped',
         \A t \in Threads \ {self} : pc'[t] = pc[t],
         pc'[self] \in {"child", "run"}, ForksAt(self)',
         \A b \in Blocks : mutex'[b] \in {NULL, mutex[b]},
         pc'[self] = "run" => \A b \in Registered("child") : mutex'[b] # Gone
  PROVE  Kept'
<1>1. Registered("child")' = Registered("child")
  BY Zenon DEF Registered
<1>2. \A t \in Threads \ {self} : pc'[t] = "gone" /\ pc[t] = "gone"
  BY Zenon DEF Kept
<1>3. \A t \in Threads : holds'[t] = {}
  BY <1>2, Zenon DEF Kept, InChild, Forking
<1>4. \A t \in Threads \ {self} : ForksAt(t)' /\ ~Forking(t)' /\ ~Registering(t)' /\ ~InChild(t)'
  BY <1>2, Zenon DEF ForksAt, Forking, Registering, InChild
<1>5. ~Registering(self)'
  BY Zenon DEF Registering
<1>6. \A b \in Blocks : mutex'[b] = NULL \/ b \in Registered("child")'
  BY <1>1 DEF Kept
<1>7. (\A t \in Threads : ~InChild(t)') => pc'[self] = "run"
  BY Zenon DEF InChild
<1> QED
  BY <1>1, <1>2, <1>3, <1>4, <1>5, <1>6, <1>7, Zenon DEF Kept

\* A step that has nothing to do with the mutexes.
LEMMA KeptQuiet ==
  ASSUME Kept, NEW self \in Threads, UNCHANGED <<lists, mutex, holds, list, parent, child>>, ListsInv',
         pc' \in [Threads -> Labels], \A t \in Threads \ {self} : pc'[t] = pc[t],
         \A t \in Threads : ~InChild(t), ~Forking(self)', ~Registering(self)',
         pc'[self] \in {"fork_lock", "fork_read"} => holds[self] = {}, pc'[self] # "gone"
  PROVE  Kept'
<1>1. ForkTyped'
  BY Zenon DEF Kept, ForkTyped
<1>2. ~InChild(self)' /\ ForksAt(self)'
  BY Zenon DEF InChild, Forking, ForksAt
<1>3. \A b \in holds'[self] : b \in Blocks /\ mutex'[b] = self
  BY Zenon DEF Kept
<1> QED
  BY <1>1, <1>2, <1>3, KeptFrame, Zenon

LEMMA ProgramKept ==
  ASSUME Kept, NEW self \in Threads, ProgramCall(self) \/ Unlocks(self)
  PROVE  Kept'
<1> USE DEF Goto, atforkVars, streamVars, mutexVars, forkVars
<1>0. /\ pc \in [Threads -> Labels] /\ ListsInv /\ DOMAIN pc = Threads
      /\ DOMAIN block = Threads /\ DOMAIN given = Threads /\ DOMAIN holds = Threads
      /\ mutex \in [Blocks -> Owners] /\ {"run", "atfork_lock", "fork_lock", "flockfile"} \subseteq Labels
  BY Zenon DEF Kept, ForkTyped, ListsInv, Labels
<1>1. \A t \in Threads : ~InChild(t)
  <2>1. pc[self] = "run" \/ pthread_create(self)
    BY Zenon DEF ProgramCall, Unlocks, pthread_atfork, fork, mutex_lock, mutex_unlock, flockfile,
       __ftrylockfile, __funlockfile
  <2> QED
    BY <2>1, Zenon DEF Kept, InChild, pthread_create
<1>2. ASSUME NEW b \in Blocks, NEW handlers \in Handlers, pthread_atfork(self, b, handlers)
      PROVE  Kept'
  <2>1. /\ pc[self] = "run" /\ pc' = [pc EXCEPT ![self] = "atfork_lock"]
        /\ block' = [block EXCEPT ![self] = b] /\ given' = [given EXCEPT ![self] = handlers]
        /\ \A t \in Threads : block[t] # b /\ \A phase \in Phases : b \notin Registered(phase)
        /\ UNCHANGED <<lists, mutex, holds, list, parent, child, pthread_atfork_lock>>
    BY <1>2, Zenon DEF pthread_atfork, Registered
  <2>2. \A phase : Registered(phase)' = Registered(phase)
    BY <2>1, Zenon DEF Registered
  <2>3. /\ Registers(self)' /\ ~Registering(self) /\ ~Registering(self)' /\ ~Locking(self)'
        /\ pc'[self] = "atfork_lock"
    BY <1>0, <2>1, <2>2, Zenon DEF Registers, Registering, Locking, New
  <2>4. ASSUME NEW t \in Threads \ {self}
        PROVE  /\ pc'[t] = pc[t] /\ block'[t] = block[t] /\ given'[t] = given[t]
               /\ Locking(t) => pthread_atfork_lock' = t
               /\ block[t] = NULL \/ block'[self] # block[t]
    <3>1. pc'[t] = pc[t] /\ block'[t] = block[t] /\ given'[t] = given[t]
      BY <1>0, <2>1, Zenon
    <3>2. Locking(t) => pthread_atfork_lock' = t
      BY <1>0, <2>1, Zenon DEF ListsInv
    <3>3. block'[self] = b /\ block[t] # b
      BY <1>0, <2>1, Zenon
    <3> QED
      BY <3>1, <3>2, <3>3, Zenon
  <2>5. DOMAIN block' = Threads /\ DOMAIN given' = Threads
    BY <1>0, <2>1, Zenon
  <2>6. ListsInv'
    BY <1>0, <2>1, <2>3, <2>4, <2>5, ListsFrame, Zenon
  <2> QED
    BY <1>0, <1>1, <2>1, <2>3, <2>4, <2>6, KeptQuiet, Zenon DEF Forking
<1>3. CASE fork(self) \/ flockfile(self) \/ __ftrylockfile(self) \/ __funlockfile(self) \/ pthread_create(self)
  <2>1. /\ pc[self] \in {"run", "gone"} /\ UNCHANGED <<lists, block, given, pthread_atfork_lock>>
        /\ UNCHANGED <<mutex, holds, list, parent, child>>
        /\ \E label \in {"run", "fork_lock", "flockfile"} : pc' = [pc EXCEPT ![self] = label]
    BY <1>0, <1>3, Zenon DEF fork, flockfile, __ftrylockfile, __funlockfile, pthread_create
  <2>2. /\ pc'[self] \in {"run", "fork_lock", "flockfile"} /\ pc' \in [Threads -> Labels]
        /\ \A t \in Threads \ {self} : pc'[t] = pc[t]
    <3>1. PICK label \in {"run", "fork_lock", "flockfile"} : pc' = [pc EXCEPT ![self] = label]
      BY <2>1, Zenon
    <3>2. label \in Labels
      BY Zenon DEF Labels
    <3> QED
      BY <1>0, <3>1, <3>2, Moves, Zenon
  <2>3. pc'[self] \in {"fork_lock", "fork_read"} => holds[self] = {}
    BY <1>0, <1>3, Zenon DEF fork, flockfile, __ftrylockfile, __funlockfile, pthread_create
  <2>4. ListsInv'
    BY <1>0, <2>1, <2>2, ListsQuiet, Zenon
  <2> QED
    BY <1>1, <2>1, <2>2, <2>3, <2>4, KeptQuiet, Zenon DEF Forking, Registering
<1>4. ASSUME NEW b \in Blocks, mutex_lock(self, b) \/ mutex_unlock(self, b)
      PROVE  Kept'
  <2>1. /\ pc[self] = "run" /\ UNCHANGED <<lists, block, given, pthread_atfork_lock, pc>>
        /\ UNCHANGED <<list, parent, child>>
    BY <1>4, Zenon DEF mutex_lock, mutex_unlock
  <2>2. \/ /\ mutex[b] = NULL /\ mutex' = [mutex EXCEPT ![b] = self] /\ b \in Registered("child")
           /\ holds' = [holds EXCEPT ![self] = {b}]
        \/ /\ mutex[b] = self /\ mutex' = [mutex EXCEPT ![b] = NULL]
           /\ holds' = [holds EXCEPT ![self] = @ \ {b}]
    BY <1>4, Zenon DEF mutex_lock, mutex_unlock, Kept, Registered
  <2>3. ListsInv'
    BY <1>0, <2>1, ListsQuiet, Zenon
  <2>4. ForkTyped'
    BY <1>0, <2>1, <2>2 DEF Kept, ForkTyped, Owners
  <2>5. \A x \in Blocks : /\ mutex'[x] = mutex[x] \/ {mutex[x], mutex'[x]} \subseteq {NULL, self}
                          /\ mutex'[x] = NULL \/ mutex'[x] = mutex[x] \/ x \in Registered("child")
    BY <1>0, <2>2, Zenon
  <2>6. \A x \in holds'[self] : x \in Blocks /\ mutex'[x] = self
    BY <1>0, <2>2 DEF Kept
  <2>7. \A t \in Threads \ {self} : holds'[t] = holds[t]
    BY <1>0, <2>2, Zenon
  <2>8. ForksAt(self)' /\ ~Forking(self)' /\ ~Registering(self)' /\ ~InChild(self)'
    BY <2>1, Zenon DEF ForksAt, Forking, Registering, InChild
  <2> QED
    BY <1>1, <2>1, <2>3, <2>4, <2>5, <2>6, <2>7, <2>8, KeptFrame, Zenon
<1> QED
  BY <1>2, <1>3, <1>4, Zenon DEF ProgramCall, Unlocks

LEMMA RegistrationKept ==
  ASSUME Kept, NEW self \in Threads, late \in BOOLEAN, ~late',
         \/ pthread_atfork_locked(self) \/ pthread_atfork_insert(self) \/ pthread_atfork_return(self)
         \/ fork_locked(self) \/ __flockfile(self)
  PROVE  Kept'
<1> USE DEF Goto, atforkVars, streamVars, mutexVars, forkVars
<1>0. /\ pc \in [Threads -> Labels] /\ ListsInv /\ DOMAIN pc = Threads
      /\ DOMAIN block = Threads /\ DOMAIN given = Threads
      /\ {"run", "atfork_prepare", "atfork_parent", "atfork_child", "fork_read"} \subseteq Labels
  BY Zenon DEF Kept, ForkTyped, ListsInv, Labels, InFork
<1>1. \A t \in Threads : ~InChild(t)
  <2>1. pc[self] \notin {"gone", "child_reset", "child"}
    BY Zenon DEF pthread_atfork_locked, pthread_atfork_insert, pthread_atfork_return, Insert, fork_locked, __flockfile
  <2> QED
    BY <2>1, Zenon DEF Kept, InChild
<1>2. CASE pthread_atfork_locked(self) \/ fork_locked(self)
  <2>1. /\ pc[self] \in {"atfork_lock", "fork_lock"} /\ pthread_atfork_lock = NULL /\ pthread_atfork_lock' = self
        /\ pc' = [pc EXCEPT ![self] = IF pc[self] = "atfork_lock" THEN "atfork_prepare" ELSE "fork_read"]
        /\ UNCHANGED <<lists, block, given, mutex, holds, list, parent, child>>
    BY <1>2, Zenon DEF pthread_atfork_locked, fork_locked
  <2>2. /\ pc'[self] = IF pc[self] = "atfork_lock" THEN "atfork_prepare" ELSE "fork_read"
        /\ \A t \in Threads \ {self} : pc'[t] = pc[t] /\ ~Locking(t)
        /\ pc' \in [Threads -> Labels]
    BY <1>0, <2>1, Zenon DEF ListsInv
  <2>3. \A phase : Registered(phase)' = Registered(phase)
    BY <2>1, Zenon DEF Registered
  <2>4. Registers(self)' /\ ~Registering(self) /\ ~Registering(self)'
    BY <1>0, <2>1, <2>2, <2>3, Zenon DEF ListsInv, Registers, Registering, New
  <2>5. \A t \in Threads \ {self} : block[t] = NULL \/ block'[self] # block[t]
    BY <1>0, <2>1, Zenon DEF ListsInv
  <2>6. ListsInv'
    BY <1>0, <2>1, <2>2, <2>4, <2>5, ListsFrame, Zenon
  <2>7. pc'[self] \in {"fork_lock", "fork_read"} => holds[self] = {}
    BY <2>1, <2>2, Zenon DEF Kept
  <2> QED
    BY <1>1, <2>1, <2>2, <2>4, <2>6, <2>7, KeptQuiet, Zenon DEF Forking
<1>3. CASE __flockfile(self)
  <2>1. /\ pc[self] = "flockfile" /\ pc' = [pc EXCEPT ![self] = "run"]
        /\ UNCHANGED <<lists, block, given, pthread_atfork_lock, mutex, holds, list, parent, child>>
    BY <1>3, Zenon DEF __flockfile
  <2>2. pc'[self] = "run" /\ pc' \in [Threads -> Labels] /\ \A t \in Threads \ {self} : pc'[t] = pc[t]
    BY <1>0, <2>1, Zenon
  <2>3. ListsInv'
    BY <1>0, <2>1, <2>2, ListsQuiet, Zenon
  <2> QED
    BY <1>1, <2>1, <2>2, <2>3, KeptQuiet, Zenon DEF Forking, Registering
<1>4. CASE pthread_atfork_insert(self) \/ pthread_atfork_return(self)
  <2>1. ListsInv'
    BY <1>0, <1>4, ListsInsert, Zenon
  <2>2. /\ UNCHANGED <<mutex, holds, list, parent, child>>
        /\ late' = (late \/ \E t \in Threads : pc[t] \in InFork \ {"fork_read"})
        /\ \E label \in {"atfork_parent", "atfork_child", "run"} : pc' = [pc EXCEPT ![self] = label]
        /\ pc[self] \in {"atfork_prepare", "atfork_parent", "atfork_child"}
    BY <1>4, Zenon DEF pthread_atfork_insert, pthread_atfork_return, Insert
  <2>3. \A t \in Threads : ~Forking(t)
    BY <2>2, Zenon DEF Forking, InFork
  <2>4. /\ pc'[self] \in {"atfork_parent", "atfork_child", "run"} /\ pc' \in [Threads -> Labels]
        /\ \A t \in Threads \ {self} : pc'[t] = pc[t]
    <3>1. PICK label \in {"atfork_parent", "atfork_child", "run"} : pc' = [pc EXCEPT ![self] = label]
      BY <2>2, Zenon
    <3>2. label \in Labels
      BY Zenon DEF Labels
    <3> QED
      BY <1>0, <3>1, <3>2, Moves, Zenon
  <2>5. \A t \in Threads : ~Forking(t)' /\ ForksAt(t)' /\ ~InChild(t)'
    BY <2>3, <2>4, Zenon DEF Forking, ForksAt, InChild
  <2>6. ForkTyped'
    BY <2>2, <2>4, Zenon DEF Kept, ForkTyped
  <2>7. \A t \in Threads : pc'[t] \in {"fork_lock", "fork_read", "gone"} => holds'[t] = {}
    BY <2>2, <2>4, Zenon DEF Kept
  <2>8. Registered("child") \subseteq Registered("child")' /\ Registered("child")' \subseteq Blocks
    <3>1. New(self, {"child"}) /\ "child" \in given[self]
      BY <1>0, <2>2, Zenon DEF ListsInv, Registers, New, Handlers, Phases
    <3>2. \/ \E phase \in {"prepare", "parent"}, b \in BOOLEAN :
               pthread_insert_list(phase, phase \in given[self], block[self], b)
          \/ pthread_insert_list("child", "child" \in given[self], block[self], TRUE)
      BY <1>4, Zenon DEF pthread_atfork_insert, pthread_atfork_return, Insert
    <3>3. lists["child"]' = lists["child"] \/ lists'["child"] = Append(lists["child"], block[self])
      BY <1>0, <3>2, Zenon DEF pthread_insert_list, ListsInv, Phases
    <3>4. lists["child"] \in Seq(Blocks) /\ Distinct(lists["child"]) /\ block[self] \in Blocks
          /\ block[self] \notin Range(lists["child"])
      BY <1>0, <3>1, Zenon DEF ListsInv, Phases, New, Registered
    <3>5. Range(lists["child"]) \subseteq Blocks
      BY <3>4 DEF Range
    <3>6. lists'["child"] = Append(lists["child"], block[self])
            => Range(lists'["child"]) = Range(lists["child"]) \cup {block[self]}
      BY <3>4, InsertIs, Zenon
    <3> QED
      BY <3>3, <3>4, <3>5, <3>6, Zenon DEF Registered
  <2>9. \A b \in Blocks : mutex'[b] = NULL \/ b \in Registered("child")'
    BY <2>2, <2>8, Zenon DEF Kept
  <2>10. \A b \in Registered("child")' : mutex'[b] # Gone
    <3>1. \A b \in Registered("child") : mutex[b] # Gone
      BY <1>1, Zenon DEF Kept
    <3>2. \A b \in Blocks \ Registered("child") : mutex[b] = NULL
      BY Zenon DEF Kept
    <3> QED
      BY <2>2, <2>8, <3>1, <3>2, OwnersAssumption, Zenon
  <2>11. \A t \in Threads : \A b \in holds'[t] : b \in Blocks /\ mutex'[b] = t
    BY <2>2, Zenon DEF Kept
  <2> QED
    BY <2>1, <2>5, <2>6, <2>7, <2>9, <2>10, <2>11, Zenon DEF Kept
<1> QED
  BY <1>2, <1>3, <1>4, Zenon

LEMMA ForkKept ==
  ASSUME Kept, NEW self \in Threads,
         \/ fork_read(self) \/ pthread_call_handlers(self)
         \/ __fork_parent(self) \/ __fork_child(self) \/ fork_child_reset(self) \/ fork_return(self)
  PROVE  Kept'
<1> USE DEF Goto, atforkVars, streamVars, mutexVars, forkVars
<1>0. /\ pc \in [Threads -> Labels] /\ ListsInv /\ DOMAIN pc = Threads
      /\ DOMAIN list = Threads /\ DOMAIN parent = Threads /\ DOMAIN child = Threads /\ DOMAIN holds = Threads
      /\ mutex \in [Blocks -> Owners] /\ ForksAt(self)
      /\ {"run", "prepare", "parent", "child", "child_reset", "gone"} \subseteq Labels
  BY Zenon DEF Kept, ForkTyped, Labels, InFork
<1>1. /\ lists["prepare"] \in Seq(Blocks) /\ lists["parent"] \in Seq(Blocks) /\ lists["child"] \in Seq(Blocks)
      /\ Distinct(lists["prepare"]) /\ Distinct(lists["parent"]) /\ Distinct(lists["child"])
  BY <1>0, Zenon DEF ListsInv, Phases
<1>1a. /\ \A j \in 1 .. Len(lists["prepare"]) : lists["prepare"][j] \in Blocks
       /\ \A j \in 1 .. Len(lists["parent"]) : lists["parent"][j] \in Blocks
       /\ \A j \in 1 .. Len(lists["child"]) : lists["child"][j] \in Blocks
  BY <1>1, Elements, Zenon
<1>1b. /\ First(lists["prepare"]) = Nth(lists["prepare"], 1) /\ 1 \in 1 .. Len(lists["prepare"]) + 1
       /\ First(lists["parent"]) = Nth(lists["parent"], 1) /\ 1 \in 1 .. Len(lists["parent"]) + 1
       /\ First(lists["child"]) = Nth(lists["child"], 1) /\ 1 \in 1 .. Len(lists["child"]) + 1
  BY <1>1, Elements, Zenon
<1>2. ~InChild(self) => \A t \in Threads : ~InChild(t)
  <2>1. pc[self] # "gone"
    BY Zenon DEF fork_read, pthread_call_handlers, __fork_parent, __fork_child, fork_child_reset, fork_return, Phases
  <2>2. \A t \in Threads : InChild(t) => \A u \in Threads \ {t} : pc[u] = "gone"
    BY Zenon DEF Kept
  <2> QED
    BY <2>1, <2>2, Zenon
<1>3. Forking(self) => Matched /\ \A u \in Threads : ~Registering(u)
  BY <1>0, Zenon DEF Kept, ListsInv
\* Of a thread that forks, and is not in the child.
<1>4. ASSUME UNCHANGED <<lists, block, given, pthread_atfork_lock, holds>>, Forking(self), ~InChild(self),
             pc' \in [Threads -> Labels], mutex' \in [Blocks -> Owners],
             DOMAIN list' = Threads, DOMAIN parent' = Threads, DOMAIN child' = Threads,
             \A t \in Threads \ {self} : /\ pc'[t] = pc[t] /\ list'[t] = list[t]
                                         /\ parent'[t] = parent[t] /\ child'[t] = child[t],
             pc'[self] \in {"run", "prepare", "parent"}, ForksAt(self)',
             \A x \in Blocks : /\ mutex'[x] = mutex[x] \/ {mutex[x], mutex'[x]} \subseteq {NULL, self}
                               /\ mutex'[x] = NULL \/ mutex'[x] = mutex[x] \/ x \in Registered("child")
      PROVE  Kept'
  <2>1. {pc[self], pc'[self]} \cap {"atfork_lock", "atfork_prepare", "atfork_parent", "atfork_child"} = {}
        /\ pc'[self] # "fork_read"
    BY <1>4, Zenon DEF Forking
  <2>2. ListsInv'
    BY <1>0, <1>4, <2>1, ListsQuiet, Zenon
  <2>3. ForkTyped'
    BY <1>0, <1>4, Zenon DEF ForkTyped
  <2>4. holds[self] = {} /\ ~Registering(self)' /\ ~InChild(self)'
    BY <1>4, Zenon DEF Kept, Registering, InChild
  <2> QED
    BY <1>2, <1>3, <1>4, <2>2, <2>3, <2>4, KeptFrame, Zenon
<1>5. CASE fork_read(self)
  <2>1. /\ pc[self] = "fork_read" /\ pthread_atfork_lock = self /\ pthread_atfork_lock' = NULL
        /\ list'[self] = First(lists["prepare"]) /\ parent'[self] = First(lists["parent"])
        /\ child'[self] = First(lists["child"])
        /\ pc' = [pc EXCEPT ![self] = "prepare"] /\ UNCHANGED <<lists, block, given, mutex, holds>>
        /\ DOMAIN list' = Threads /\ DOMAIN parent' = Threads /\ DOMAIN child' = Threads
    BY <1>0, <1>5, Zenon DEF fork_read, ListsInv, Locking
  <2>2. /\ pc'[self] = "prepare" /\ pc' \in [Threads -> Labels]
        /\ \A t \in Threads \ {self} : pc'[t] = pc[t]
    BY <1>0, <2>1, Zenon
  <2>3. \A t \in Threads \ {self} : list'[t] = list[t] /\ parent'[t] = parent[t] /\ child'[t] = child[t]
    BY <1>0, <1>5, Zenon DEF fork_read
  <2>4. \A t \in Threads \ {self} : ~Locking(t)
    BY <1>0, <2>1, Zenon DEF ListsInv
  <2>5. \A t \in Threads : ~Registering(t)
    BY <2>1, <2>4, Zenon DEF Locking, Registering
  <2>6. Registers(self)' /\ ~Registering(self)' /\ ~Locking(self)'
    BY <1>0, <2>1, <2>2, Zenon DEF ListsInv, Registers, Registering, Locking
  <2>7. \A t \in Threads \ {self} : block[t] = NULL \/ block'[self] # block[t]
    BY <1>0, <2>1, Zenon DEF ListsInv
  <2>8. DOMAIN block' = Threads /\ DOMAIN given' = Threads
    BY <1>0, <2>1, Zenon DEF ListsInv
  <2>9. ListsInv'
    BY <1>0, <2>1, <2>2, <2>4, <2>5, <2>6, <2>7, <2>8, ListsFrame, Zenon
  <2>10. ForksAt(self)'
    <3>1. list'[self] = Nth(lists["prepare"], 1) /\ 1 \in 1 .. Len(lists["prepare"]) + 1
      BY <1>1b, <2>1, Zenon
    <3>2. \A j \in 1 .. Len(lists["prepare"]) : ~(j < 1)
      OBVIOUS
    <3>3. Prepared(self, 1)'
      BY <2>1, <3>1, <3>2, Zenon DEF Prepared
    <3> QED
      BY <2>1, <2>2, <3>1, <3>3, Zenon DEF ForksAt
  <2>11. ForkTyped' /\ holds[self] = {} /\ ~InChild(self) /\ ~InChild(self)'
    BY <1>0, <2>1, <2>2, Zenon DEF ForkTyped, Kept, InChild
  <2> QED
    BY <1>2, <2>1, <2>2, <2>3, <2>5, <2>6, <2>9, <2>10, <2>11, KeptFrame, Zenon
<1>6. CASE __fork_parent(self)
  <2>1. /\ pc[self] = "prepare" /\ list[self] = NULL /\ list' = [list EXCEPT ![self] = parent[self]]
        /\ pc' = [pc EXCEPT ![self] = "parent"]
        /\ UNCHANGED <<lists, block, given, pthread_atfork_lock, mutex, holds, parent, child>>
    BY <1>6, Zenon DEF __fork_parent
  <2>2. /\ pc'[self] = "parent" /\ pc' \in [Threads -> Labels] /\ list'[self] = First(lists["parent"])
        /\ DOMAIN list' = Threads
        /\ \A t \in Threads \ {self} : pc'[t] = pc[t] /\ list'[t] = list[t]
    BY <1>0, <2>1, Zenon DEF ForksAt
  <2>3. Forking(self) /\ ~InChild(self)
    BY <2>1, Zenon DEF Forking, InChild
  <2>4. \A b \in Registered("prepare") : mutex[b] = self
    <3>1. PICK i \in 1 .. Len(lists["prepare"]) + 1 : Prepared(self, i)
      BY <1>0, <2>1, Zenon DEF ForksAt
    <3>2. i = Len(lists["prepare"]) + 1
      BY <1>1, <2>1, <3>1, NthIs, Zenon DEF Prepared
    <3>3. \A j \in 1 .. Len(lists["prepare"]) : j < Len(lists["prepare"]) + 1
      BY <1>1
    <3>4. \A j \in 1 .. Len(lists["prepare"]) : mutex[lists["prepare"][j]] = self
      BY <3>1, <3>2, <3>3, Zenon DEF Prepared
    <3>5. Registered("prepare") = {lists["prepare"][j] : j \in 1 .. Len(lists["prepare"])}
      BY <1>1, Elements, Zenon DEF Registered
    <3> QED
      BY <3>4, <3>5, Zenon
  <2>5. \A j \in 1 .. Len(lists["parent"]) : mutex[lists["parent"][j]] = self
    <3>1. Registered("parent") = {lists["parent"][j] : j \in 1 .. Len(lists["parent"])}
      BY <1>1, Elements, Zenon DEF Registered
    <3>2. Registered("parent") = Registered("prepare")
      BY <1>3, <2>3, Zenon DEF Matched
    <3> QED
      BY <2>4, <3>1, <3>2, Zenon
  <2>6. ForksAt(self)'
    <3>1. list'[self] = Nth(lists["parent"], 1) /\ 1 \in 1 .. Len(lists["parent"]) + 1
      BY <1>1b, <2>2, Zenon
    <3>2. Unlocking(self, 1)'
      BY <2>1, <2>5, <3>1, Zenon DEF Unlocking
    <3> QED
      BY <2>1, <2>2, <3>1, <3>2, Zenon DEF ForksAt
  <2> QED
    BY <1>0, <1>4, <2>1, <2>2, <2>3, <2>6, Zenon
<1>7. CASE pthread_call_handlers(self) /\ pc[self] = "prepare"
  <2> DEFINE b == list[self]
  <2>1. /\ b # NULL /\ mutex[b] = NULL /\ mutex' = [mutex EXCEPT ![b] = self]
        /\ list' = [list EXCEPT ![self] = next(lists["prepare"], b)]
        /\ UNCHANGED <<lists, block, given, pthread_atfork_lock, holds, parent, child, pc>>
    BY <1>7, Zenon DEF pthread_call_handlers
  <2>2. PICK i \in 1 .. Len(lists["prepare"]) + 1 : Prepared(self, i)
    BY <1>0, <1>7, Zenon DEF ForksAt
  <2>3. /\ i \in 1 .. Len(lists["prepare"]) /\ b = lists["prepare"][i]
        /\ i + 1 \in 1 .. Len(lists["prepare"]) + 1
    BY <1>1, <2>1, <2>2, NthIs, Zenon DEF Prepared
  <2>4. b \in Blocks /\ b \in Registered("prepare")
    BY <1>1, <2>3 DEF Registered, Range
  <2>5. Forking(self) /\ ~InChild(self) /\ b \in Registered("child")
    BY <1>3, <1>7, <2>4, Zenon DEF Forking, InChild, Matched
  <2> HIDE DEF b
  <2>6. next(lists["prepare"], b) = Nth(lists["prepare"], i + 1)
    BY <1>1, <2>3, NextIs, Zenon
  <2>7. /\ mutex' \in [Blocks -> Owners] /\ mutex'[b] = self
        /\ \A x \in Blocks \ {b} : mutex'[x] = mutex[x]
    BY <1>0, <2>1, <2>4, Zenon DEF Owners
  <2>8. /\ list'[self] = Nth(lists["prepare"], i + 1) /\ DOMAIN list' = Threads
        /\ \A t \in Threads \ {self} : list'[t] = list[t]
    BY <1>0, <2>1, <2>6, Zenon
  <2>9. Prepared(self, i + 1)'
    <3> SUFFICES ASSUME NEW j \in 1 .. Len(lists["prepare"]), j < i + 1
                 PROVE  mutex'[lists["prepare"][j]] = self
      BY <2>1, <2>8, Zenon DEF Prepared
    <3>1. lists["prepare"][j] \in Blocks
      BY <1>1a, Zenon
    <3>2. j < i \/ j = i
      BY <2>3
    <3> QED
      BY <2>2, <2>3, <2>7, <3>1, <3>2, Zenon DEF Prepared
  <2>10. ForksAt(self)'
    BY <1>0, <1>7, <2>1, <2>3, <2>9, Zenon DEF ForksAt
  <2> QED
    BY <1>0, <1>4, <1>7, <2>1, <2>5, <2>7, <2>8, <2>10, Zenon
<1>8. CASE pthread_call_handlers(self) /\ pc[self] = "parent"
  <2> DEFINE b == list[self]
  <2>1. /\ b # NULL /\ mutex' = [mutex EXCEPT ![b] = NULL]
        /\ list' = [list EXCEPT ![self] = next(lists["parent"], b)]
        /\ UNCHANGED <<lists, block, given, pthread_atfork_lock, holds, parent, child, pc>>
    BY <1>8, Zenon DEF pthread_call_handlers
  <2>2. PICK i \in 1 .. Len(lists["parent"]) + 1 : Unlocking(self, i)
    BY <1>0, <1>8, Zenon DEF ForksAt
  <2>3. /\ i \in 1 .. Len(lists["parent"]) /\ b = lists["parent"][i]
        /\ i + 1 \in 1 .. Len(lists["parent"]) + 1
    BY <1>1, <2>1, <2>2, NthIs, Zenon DEF Unlocking
  <2>4. b \in Blocks /\ mutex[b] = self
    <3>1. i >= i
      BY <2>3
    <3> QED
      BY <1>1a, <2>2, <2>3, <3>1, Zenon DEF Unlocking
  <2>5. Forking(self) /\ ~InChild(self)
    BY <1>8, Zenon DEF Forking, InChild
  <2> HIDE DEF b
  <2>6. next(lists["parent"], b) = Nth(lists["parent"], i + 1)
    BY <1>1, <2>3, NextIs, Zenon
  <2>7. /\ mutex' \in [Blocks -> Owners] /\ mutex'[b] = NULL
        /\ \A x \in Blocks \ {b} : mutex'[x] = mutex[x]
    BY <1>0, <2>1, <2>4, Zenon DEF Owners
  <2>8. /\ list'[self] = Nth(lists["parent"], i + 1) /\ DOMAIN list' = Threads
        /\ \A t \in Threads \ {self} : list'[t] = list[t]
    BY <1>0, <2>1, <2>6, Zenon
  <2>9. Unlocking(self, i + 1)'
    <3> SUFFICES ASSUME NEW j \in 1 .. Len(lists["parent"]), j >= i + 1
                 PROVE  mutex'[lists["parent"][j]] = self
      BY <2>1, <2>8, Zenon DEF Unlocking
    <3>1. lists["parent"][j] \in Blocks
      BY <1>1a, Zenon
    <3>2. j >= i /\ j # i
      BY <2>3
    <3>3. lists["parent"][j] # b
      BY <1>1, <2>3, <3>2, Zenon DEF Distinct
    <3> QED
      BY <2>2, <2>7, <3>1, <3>2, <3>3, Zenon DEF Unlocking
  <2>10. ForksAt(self)'
    BY <1>0, <1>8, <2>1, <2>3, <2>9, Zenon DEF ForksAt
  <2> QED
    BY <1>0, <1>4, <1>8, <2>1, <2>4, <2>5, <2>7, <2>8, <2>10, Zenon
<1>9. CASE fork_return(self) /\ pc[self] = "parent"
  <2>1. /\ pc' = [pc EXCEPT ![self] = "run"]
        /\ UNCHANGED <<lists, block, given, pthread_atfork_lock, mutex, holds, list, parent, child>>
    BY <1>9, Zenon DEF fork_return
  <2>2. /\ pc'[self] = "run" /\ pc' \in [Threads -> Labels] /\ \A t \in Threads \ {self} : pc'[t] = pc[t]
    BY <1>0, <2>1, Zenon
  <2>3. Forking(self) /\ ~InChild(self) /\ ForksAt(self)'
    BY <1>9, <2>2, Zenon DEF Forking, InChild, ForksAt
  <2> QED
    BY <1>0, <1>4, <2>1, <2>2, <2>3, Zenon
\* The child.
<1>10. ASSUME UNCHANGED <<lists, block, given, pthread_atfork_lock, holds>>, InChild(self),
             pc' \in [Threads -> Labels], mutex' \in [Blocks -> Owners],
             DOMAIN list' = Threads, DOMAIN parent' = Threads, DOMAIN child' = Threads,
             \A t \in Threads \ {self} : pc'[t] = pc[t],
             pc'[self] \in {"child", "run"}, ForksAt(self)',
             \A x \in Blocks : mutex'[x] \in {NULL, mutex[x]},
             pc'[self] = "run" => \A x \in Registered("child") : mutex'[x] # Gone
      PROVE  Kept'
  <2>1. ListsInv'
    BY <1>0, <1>10, ListsQuiet, Zenon DEF InChild
  <2>2. ForkTyped'
    BY <1>0, <1>10, Zenon DEF ForkTyped
  <2> QED
    BY <1>10, <2>1, <2>2, KeptAlone, Zenon
<1>11. CASE fork_child_reset(self)
  <2>1. /\ pc[self] = "child_reset" /\ list' = [list EXCEPT ![self] = child[self]]
        /\ pc' = [pc EXCEPT ![self] = "child"]
        /\ UNCHANGED <<lists, block, given, pthread_atfork_lock, mutex, holds, parent, child>>
    BY <1>11, Zenon DEF fork_child_reset
  <2>2. /\ pc'[self] = "child" /\ pc' \in [Threads -> Labels] /\ list'[self] = First(lists["child"])
        /\ DOMAIN list' = Threads /\ \A t \in Threads \ {self} : pc'[t] = pc[t]
    BY <1>0, <2>1, Zenon DEF ForksAt
  <2>3. ForksAt(self)'
    <3>1. list'[self] = Nth(lists["child"], 1) /\ 1 \in 1 .. Len(lists["child"]) + 1
      BY <1>1b, <2>2, Zenon
    <3>2. \A j \in 1 .. Len(lists["child"]) : ~(j < 1)
      OBVIOUS
    <3>3. Reset(self, 1)'
      BY <2>1, <3>1, <3>2, Zenon DEF Reset
    <3> QED
      BY <2>1, <2>2, <3>1, <3>3, Zenon DEF ForksAt
  <2>4. InChild(self)
    BY <2>1, Zenon DEF InChild
  <2> QED
    BY <1>0, <1>10, <2>1, <2>2, <2>3, <2>4, Zenon
<1>12. CASE pthread_call_handlers(self) /\ pc[self] = "child"
  <2> DEFINE b == list[self]
  <2>1. /\ b # NULL /\ mutex' = [mutex EXCEPT ![b] = NULL]
        /\ list' = [list EXCEPT ![self] = next(lists["child"], b)]
        /\ UNCHANGED <<lists, block, given, pthread_atfork_lock, holds, parent, child, pc>>
    BY <1>12, Zenon DEF pthread_call_handlers
  <2>2. PICK i \in 1 .. Len(lists["child"]) + 1 : Reset(self, i)
    BY <1>0, <1>12, Zenon DEF ForksAt
  <2>3. /\ i \in 1 .. Len(lists["child"]) /\ b = lists["child"][i]
        /\ i + 1 \in 1 .. Len(lists["child"]) + 1
    BY <1>1, <2>1, <2>2, NthIs, Zenon DEF Reset
  <2>4. b \in Blocks /\ InChild(self)
    BY <1>1a, <1>12, <2>3, Zenon DEF InChild
  <2> HIDE DEF b
  <2>5. next(lists["child"], b) = Nth(lists["child"], i + 1)
    BY <1>1, <2>3, NextIs, Zenon
  <2>6. /\ mutex' \in [Blocks -> Owners] /\ mutex'[b] = NULL
        /\ \A x \in Blocks \ {b} : mutex'[x] = mutex[x]
    BY <1>0, <2>1, <2>4, Zenon DEF Owners
  <2>7. list'[self] = Nth(lists["child"], i + 1) /\ DOMAIN list' = Threads
    BY <1>0, <2>1, <2>5, Zenon
  <2>8. Reset(self, i + 1)'
    <3> SUFFICES ASSUME NEW j \in 1 .. Len(lists["child"]), j < i + 1
                 PROVE  mutex'[lists["child"][j]] = NULL
      BY <2>1, <2>7, Zenon DEF Reset
    <3>1. lists["child"][j] \in Blocks
      BY <1>1a, Zenon
    <3>2. j < i \/ j = i
      BY <2>3
    <3> QED
      BY <2>2, <2>3, <2>6, <3>1, <3>2, Zenon DEF Reset
  <2>9. ForksAt(self)'
    BY <1>0, <1>12, <2>1, <2>3, <2>8, Zenon DEF ForksAt
  <2> QED
    BY <1>0, <1>10, <1>12, <2>1, <2>4, <2>6, <2>7, <2>9, Zenon
<1>13. CASE fork_return(self) /\ pc[self] = "child"
  <2>1. /\ list[self] = NULL /\ pc' = [pc EXCEPT ![self] = "run"]
        /\ UNCHANGED <<lists, block, given, pthread_atfork_lock, mutex, holds, list, parent, child>>
    BY <1>13, Zenon DEF fork_return
  <2>2. /\ pc'[self] = "run" /\ pc' \in [Threads -> Labels] /\ \A t \in Threads \ {self} : pc'[t] = pc[t]
    BY <1>0, <2>1, Zenon
  <2>3. InChild(self) /\ ForksAt(self)'
    BY <1>13, <2>2, Zenon DEF InChild, ForksAt
  <2>4. PICK i \in 1 .. Len(lists["child"]) + 1 : Reset(self, i)
    BY <1>0, <1>13, Zenon DEF ForksAt
  <2>5. i = Len(lists["child"]) + 1
    BY <1>1, <2>1, <2>4, NthIs, Zenon DEF Reset
  <2>6. \A j \in 1 .. Len(lists["child"]) : mutex[lists["child"][j]] = NULL
    BY <1>1, <2>4, <2>5 DEF Reset
  <2>7. \A x \in Registered("child") : mutex[x] # Gone
    BY <1>1, <2>6, OwnersAssumption DEF Registered, Range
  <2> QED
    BY <1>0, <1>10, <2>1, <2>2, <2>3, <2>7, Zenon
\* Into the child.
<1>14. CASE __fork_child(self)
  <2>1. /\ pc[self] = "prepare" /\ pc' = [t \in Threads |-> IF t = self THEN "child_reset" ELSE "gone"]
        /\ holds' = [t \in Threads |-> {}] /\ block' = [t \in Threads |-> NULL]
        /\ mutex' = [x \in Blocks |-> Inherited(self, mutex[x])]
        /\ UNCHANGED <<lists, given, list, parent, child>>
    BY <1>14, Zenon DEF __fork_child
  <2>2. Matched
    BY <1>3, <2>1, Zenon DEF Forking
  <2>3. \A phase : Registered(phase)' = Registered(phase)
    BY <2>1, Zenon DEF Registered
  <2>4. Matched' /\ \A t \in Threads : given'[t] \in Handlers
    BY <1>0, <2>1, <2>2, <2>3, Zenon DEF Matched, ListsInv, Registers
  <2>5. \A t \in Threads : Registers(t)' /\ ~Locking(t)' /\ ~Registering(t)' /\ block'[t] = NULL
    BY <2>1, <2>4, Zenon DEF Registers, Locking, Registering
  <2>6. /\ lists' \in [Phases -> Seq(Blocks)] /\ \A phase \in Phases : Distinct(lists'[phase])
        /\ DOMAIN block' = Threads /\ DOMAIN given' = Threads
    BY <1>0, <2>1, Zenon DEF ListsInv
  <2>7. ListsInv'
    BY <2>4, <2>5, <2>6, Zenon DEF ListsInv
  <2>8. mutex' \in [Blocks -> Owners] /\ \A x \in Blocks : mutex[x] = NULL => mutex'[x] = NULL
    BY <1>0, <2>1, Zenon DEF Inherited, Owners
  <2>9. ForkTyped'
    BY <1>0, <2>1, <2>8, Zenon DEF ForkTyped
  <2>10. child[self] = First(lists["child"])
    BY <1>0, <2>1, Zenon DEF ForksAt
  <2>11. \A t \in Threads : ForksAt(t)'
    BY <2>1, <2>10, Zenon DEF ForksAt
  <2>12. /\ InChild(self)' /\ \A t \in Threads \ {self} : pc'[t] = "gone" /\ ~InChild(t)'
         /\ \A t \in Threads : holds'[t] = {}
    BY <2>1, Zenon DEF InChild
  <2>13. \A x \in Blocks : mutex'[x] = NULL \/ x \in Registered("child")'
    BY <2>3, <2>8, Zenon DEF Kept
  <2> QED
    BY <2>5, <2>7, <2>9, <2>11, <2>12, <2>13, Zenon DEF Kept
<1> QED
  BY <1>5, <1>6, <1>7, <1>8, <1>9, <1>11, <1>12, <1>13, <1>14, Zenon
     DEF pthread_call_handlers, fork_return, Phases

LEMMA LateStays ==
  ASSUME late \in BOOLEAN, Next
  PROVE  late' \in BOOLEAN /\ (late => late')
<1> PICK self \in Threads : ProgramCall(self) \/ Unlocks(self) \/ Step(self)
  BY Zenon DEF Next
<1>1. UNCHANGED late \/ late' = (late \/ \E t \in Threads : pc[t] \in InFork \ {"fork_read"})
  BY Zenon DEF ProgramCall, Unlocks, Step, pthread_atfork, fork, mutex_lock, mutex_unlock, flockfile,
     __ftrylockfile, __funlockfile, pthread_create, pthread_atfork_locked, pthread_atfork_insert,
     pthread_atfork_return, Insert, fork_locked, fork_read, pthread_call_handlers, __fork_parent,
     __fork_child, fork_child_reset, fork_return, __flockfile, atforkVars
<1> QED
  BY <1>1, Zenon

KeptInv == late \in BOOLEAN /\ (~late => Kept)

\* fork leaves the mutexes of the registered handlers with the threads that have
\* locked them, and in the child, when it has returned, with none that is gone;
\* for any number of handlers, and any number of threads that fork at once.
THEOREM MutexesKeptHolds == Spec => []MutexesKept
<1>1. Init => KeptInv
  BY KeptInit, Zenon DEF KeptInv, Init
<1>2. ASSUME KeptInv, Next PROVE KeptInv'
  <2>1. late' \in BOOLEAN /\ (late => late')
    BY <1>2, LateStays, Zenon DEF KeptInv
  <2>2. ASSUME ~late' PROVE Kept'
    <3>1. Kept /\ late \in BOOLEAN
      BY <1>2, <2>1, <2>2, Zenon DEF KeptInv
    <3> QED
      BY <1>2, <2>2, <3>1, ProgramKept, RegistrationKept, ForkKept, Zenon DEF Next, Step
  <2> QED
    BY <2>1, <2>2, Zenon DEF KeptInv
<1>3. ASSUME KeptInv, UNCHANGED vars PROVE KeptInv'
  <2>1. UNCHANGED <<pc, lists, block, given, pthread_atfork_lock, mutex, holds, list, parent, child, late>>
    BY <1>3, Zenon DEF vars, atforkVars, mutexVars, forkVars
  <2>2. /\ \A phase : Registered(phase)' = Registered(phase)
        /\ \A t : (Locking(t)' <=> Locking(t)) /\ (Registering(t)' <=> Registering(t))
        /\ \A t : (Forking(t)' <=> Forking(t)) /\ (InChild(t)' <=> InChild(t))
    BY <2>1, Zenon DEF Registered, Locking, Registering, Forking, InChild
  <2>3. \A t : (Registers(t)' <=> Registers(t)) /\ (Matched' <=> Matched)
    BY <2>1, <2>2, Zenon DEF Registers, New, Matched
  <2>4. \A t : ForksAt(t)' <=> ForksAt(t)
    <3>1. \A t, i : Prepared(t, i)' <=> Prepared(t, i)
      BY <2>1, Zenon DEF Prepared
    <3>2. \A t, i : Unlocking(t, i)' <=> Unlocking(t, i)
      BY <2>1, Zenon DEF Unlocking
    <3>3. \A t, i : Reset(t, i)' <=> Reset(t, i)
      BY <2>1, Zenon DEF Reset
    <3> QED
      BY <2>1, <3>1, <3>2, <3>3, Zenon DEF ForksAt
  <2>5. ListsInv => ListsInv'
    BY <2>1, <2>2, <2>3, Zenon DEF ListsInv
  <2>6. ForkTyped => ForkTyped'
    BY <2>1, Zenon DEF ForkTyped
  <2>7. Kept => Kept'
    BY <2>1, <2>2, <2>4, <2>5, <2>6, Zenon DEF Kept
  <2> QED
    BY <1>3, <2>1, <2>7, Zenon DEF KeptInv
<1>4. KeptInv => MutexesKept
  BY Zenon DEF KeptInv, MutexesKept, Kept, InChild, Registered
<1> QED
  BY <1>1, <1>2, <1>3, <1>4, PTL DEF Spec

=============================================================================
