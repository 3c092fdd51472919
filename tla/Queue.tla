------------------------------- MODULE Queue -------------------------------
(***************************************************************************)
(* The waiting queues of src/queue.h, and remove_from_queue of             *)
(* src/condvar.c.  A queue is a pair of pointers; the links between the    *)
(* queued threads are the p_nextwaiting fields of their descriptors, so    *)
(* every operation is a pair of operators: the new pointers of the queue,  *)
(* and the new p_nextwaiting fields.  The fields are shared by all the     *)
(* queues of the process: a thread that is put in a second queue breaks    *)
(* the first.                                                              *)
(***************************************************************************)
EXTENDS Integers, Sequences, FiniteSets

CONSTANTS Threads,   \* descriptors of the threads of the process
          NULL       \* the null pointer

ASSUME NullAssumption == NULL \notin Threads

Pointer == Threads \cup {NULL}
QueueType == [head : Pointer, tail : Pointer]
LinksType == [Threads -> Pointer]
-----------------------------------------------------------------------------
queue_init == [head |-> NULL, tail |-> NULL]

enqueue(q, th) ==
  IF q.tail = NULL THEN [head |-> th, tail |-> th] ELSE [q EXCEPT !.tail = th]

enqueue_links(q, next, th) ==
  IF q.tail = NULL THEN next ELSE [next EXCEPT ![q.tail] = th]

\* Mutants: the thread taken stays in the queue; the tail of a queue that has
\* become empty is not reset.
dequeue_peeks(q, next) == q
dequeue_keeps_tail(q, next) ==
  IF q.head = NULL THEN q ELSE [q EXCEPT !.head = next[q.head]]

dequeue(q, next) ==
  IF q.head = NULL THEN q
  ELSE IF next[q.head] = NULL THEN queue_init
  ELSE [q EXCEPT !.head = next[q.head]]

dequeue_links(q, next) ==
  IF q.head = NULL THEN next ELSE [next EXCEPT ![q.head] = NULL]
-----------------------------------------------------------------------------
(***************************************************************************)
(* The walk of a loop over a queue: its i-th pointer is the queue's i-th   *)
(* thread, or NULL past the end.  A walk of more than Cardinality(Threads) *)
(* threads has met a cycle.                                                *)
(***************************************************************************)
Walk(q, next) ==
  LET w[i \in Nat] == IF i = 0 THEN q.head
                      ELSE IF w[i - 1] = NULL THEN NULL ELSE next[w[i - 1]]
  IN  w

WalkRange == 0 .. Cardinality(Threads)

Reachable(q, next) == {Walk(q, next)[i] : i \in WalkRange} \ {NULL}

Cyclic(q, next) == Walk(q, next)[Cardinality(Threads)] # NULL

\* The thread before th on the walk, where remove_from_queue stops; NULL if th
\* is not found behind another thread.
Before(q, next, th) ==
  LET hits == {i \in WalkRange : /\ Walk(q, next)[i] # NULL
                                 /\ next[Walk(q, next)[i]] = th}
  IN  IF hits = {} THEN NULL
      ELSE Walk(q, next)[CHOOSE i \in hits : \A j \in hits : i <= j]

remove_from_queue(q, next, th) ==
  LET t == Before(q, next, th)
  IN  IF q.head = NULL THEN q
      ELSE IF q.head = th THEN dequeue(q, next)
      ELSE IF t # NULL /\ next[th] = NULL THEN [q EXCEPT !.tail = t]
      ELSE q

remove_from_queue_links(q, next, th) ==
  LET t == Before(q, next, th)
  IN  IF q.head = NULL THEN next
      ELSE IF q.head = th THEN dequeue_links(q, next)
      ELSE IF t # NULL THEN [next EXCEPT ![t] = next[th], ![th] = NULL]
      ELSE next

\* On a cyclic list that does not hold th, the for loop never ends.
remove_diverges(q, next, th) ==
  /\ q.head \notin {NULL, th}
  /\ Before(q, next, th) = NULL
  /\ Cyclic(q, next)
-----------------------------------------------------------------------------
(***************************************************************************)
(* The reference: queue q, linked through next, holds the threads of s     *)
(* from head to tail, each of them once, and every other thread's link is  *)
(* NULL or belongs to another queue.                                       *)
(***************************************************************************)
Holds(q, next, s) ==
  /\ s \in Seq(Threads)
  /\ \A i, j \in 1..Len(s) : s[i] = s[j] => i = j
  /\ q = IF s = <<>> THEN queue_init ELSE [head |-> s[1], tail |-> s[Len(s)]]
  /\ \A i \in 1..Len(s) : next[s[i]] = IF i = Len(s) THEN NULL ELSE s[i + 1]

=============================================================================
