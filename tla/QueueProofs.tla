---------------------------- MODULE QueueProofs ----------------------------
(***************************************************************************)
(* What enqueue and dequeue do to the sequence of threads a queue holds,   *)
(* for any set of threads and any links.                                   *)
(***************************************************************************)
EXTENDS Queue, FiniteSetTheorems, WellFoundedInduction, TLAPS

\* enqueue and dequeue of src/queue.h keep a queue and its links well typed.
LEMMA QueueTypes ==
  ASSUME NEW q \in QueueType, NEW next \in LinksType, NEW t \in Threads
  PROVE  /\ enqueue(q, t) \in QueueType
         /\ enqueue_links(q, next, t) \in LinksType
         /\ dequeue(q, next) \in QueueType
         /\ dequeue_links(q, next) \in LinksType
  BY DEF QueueType, LinksType, Pointer, enqueue, enqueue_links, dequeue, dequeue_links,
         queue_init

\* An empty sequence of waiting threads is an empty queue: head is NULL exactly
\* when nobody waits, otherwise it is the first thread of the sequence.
LEMMA HoldsHead ==
  ASSUME NEW q, NEW next, NEW s, Holds(q, next, s)
  PROVE  /\ q.head = NULL <=> s = <<>>
         /\ s # <<>> => q.head = s[1] /\ Len(s) \in Nat \ {0}
<1>1. s \in Seq(Threads) /\ (s # <<>> => Len(s) \in Nat \ {0})
  BY DEF Holds
<1>2. CASE s = <<>>
  BY <1>2 DEF Holds, queue_init
<1>3. CASE s # <<>>
  <2>1. s[1] \in Threads
    BY <1>1, <1>3
  <2>2. q = [head |-> s[1], tail |-> s[Len(s)]]
    BY <1>3 DEF Holds
  <2>. QED
    BY <1>1, <1>3, <2>1, <2>2, NullAssumption
<1>. QED
  BY <1>2, <1>3

\* A set of natural numbers has a least one: induction, in a form that asks for
\* a set only.
LEMMA LeastNumber ==
  ASSUME NEW T \in SUBSET Nat, T # {}
  PROVE  \E x \in T : \A y \in T : x <= y
<1> DEFINE R == OpToRel(<, Nat)
<1>1. IsWellFoundedOn(R, Nat)
  BY NatLessThanWellFounded
<1>2. \A x, y \in Nat : y < x => <<y, x>> \in R
  BY DEF OpToRel
<1> HIDE DEF R
<1>3. PICK x \in T : \A y \in T : ~(<<y, x>> \in R)
  BY <1>1, WFMin
<1>4. \A y \in T : ~(y < x)
  BY <1>2, <1>3, Zenon
<1>5. \A y \in T : x <= y
  BY <1>4
<1>. QED
  BY <1>5

\* The pointers of a queue and the links determine the sequence it holds.
LEMMA HoldsUnique ==
  ASSUME NEW q, NEW next, NEW s, NEW r, Holds(q, next, s), Holds(q, next, r)
  PROVE  s = r
<1>1. /\ s \in Seq(Threads) /\ Len(s) \in Nat
      /\ r \in Seq(Threads) /\ Len(r) \in Nat
      /\ \A i \in 1..Len(s) : s[i] \in Threads
      /\ \A i \in 1..Len(r) : r[i] \in Threads
  BY DEF Holds
<1>2. /\ \A i \in 1..Len(s) : next[s[i]] = IF i = Len(s) THEN NULL ELSE s[i + 1]
      /\ \A i \in 1..Len(r) : next[r[i]] = IF i = Len(r) THEN NULL ELSE r[i + 1]
  BY DEF Holds
<1>3. CASE s = <<>>
  BY <1>3, HoldsHead
<1>4. CASE s # <<>>
  <2>1. r # <<>> /\ s[1] = r[1] /\ Len(s) > 0 /\ Len(r) > 0
    BY <1>1, <1>4, HoldsHead
  <2> DEFINE D == {i \in 1..Len(s) : i > Len(r) \/ s[i] # r[i]}
  <2>2. D = {}
    <3> SUFFICES ASSUME D # {} PROVE FALSE
      OBVIOUS
    <3>1. D \in SUBSET Nat
      OBVIOUS
    <3>2. PICK x \in D : \A y \in D : x <= y
      BY <3>1, LeastNumber
    <3>3. x \in 2..Len(s)
      BY <1>1, <2>1, <3>2
    <3>4. x - 1 \in 1..Len(s) /\ x - 1 \notin D /\ (x - 1) + 1 = x
      BY <1>1, <3>2, <3>3
    <3>5. x - 1 \in 1..Len(r) /\ s[x - 1] = r[x - 1]
      BY <1>1, <3>4
    <3>6. next[r[x - 1]] = s[x] /\ s[x] # NULL
      <4>1. x - 1 # Len(s) /\ x \in 1..Len(s)
        BY <1>1, <3>3
      <4>2. next[s[x - 1]] = s[x]
        BY <1>2, <3>4, <4>1
      <4>. QED
        BY <1>1, <3>5, <4>1, <4>2, NullAssumption
    <3>7. x - 1 # Len(r) /\ r[x] = s[x]
      BY <1>2, <3>4, <3>5, <3>6
    <3>. QED
      BY <1>1, <3>2, <3>5, <3>7
  <2>3. Len(s) <= Len(r) /\ \A i \in 1..Len(s) : s[i] = r[i]
    BY <1>1, <2>1, <2>2
  <2>4. Len(s) = Len(r)
    <3> SUFFICES ASSUME Len(s) < Len(r) PROVE FALSE
      BY <1>1, <2>3
    <3>1. Len(s) \in 1..Len(r) /\ Len(s) + 1 \in 1..Len(r)
      BY <1>1, <2>1
    <3>2. next[s[Len(s)]] = NULL /\ r[Len(s)] = s[Len(s)]
      BY <1>1, <1>2, <2>1, <2>3
    <3>3. next[r[Len(s)]] = r[Len(s) + 1] /\ r[Len(s) + 1] # NULL
      BY <1>1, <1>2, <3>1, NullAssumption
    <3>. QED
      BY <3>2, <3>3
  <2>. QED
    BY <1>1, <2>3, <2>4
<1>. QED
  BY <1>3, <1>4

\* A queue holds no more threads than there are.
LEMMA HoldsBounded ==
  ASSUME NEW q, NEW next, NEW s, Holds(q, next, s), IsFiniteSet(Threads)
  PROVE  s \in UNION {[1..n -> Threads] : n \in 0..Cardinality(Threads)}
<1>1. /\ s \in [1..Len(s) -> Threads] /\ Len(s) \in Nat
      /\ \A i, j \in 1..Len(s) : s[i] = s[j] => i = j
  BY DEF Holds
<1>2. s \in Injection(1..Len(s), Threads)
  BY <1>1 DEF Injection, IsInjective
<1>3. Cardinality(1..Len(s)) = Len(s)
  <2>1. 1 \in Int /\ Len(s) \in Int
    BY <1>1
  <2>2. Cardinality(1..Len(s)) = IF 1 > Len(s) THEN 0 ELSE Len(s) - 1 + 1
    BY <2>1, FS_Interval
  <2>. QED
    BY <1>1, <2>2
<1>4. Len(s) <= Cardinality(Threads) /\ Cardinality(Threads) \in Nat
  BY <1>2, <1>3, FS_Injection, FS_CardinalityType
<1>5. Len(s) \in 0..Cardinality(Threads)
  BY <1>1, <1>4
<1>. QED
  BY <1>1, <1>5

\* enqueue (src/queue.h) of a thread that is in no queue, the condition of its
\* ASSERT, appends it: the queue stays a list, in order of arrival.
THEOREM EnqueueAppends ==
  ASSUME NEW q, NEW next \in LinksType, NEW s, Holds(q, next, s),
         NEW t \in Threads, \A i \in 1..Len(s) : s[i] # t, next[t] = NULL
  PROVE  Holds(enqueue(q, t), enqueue_links(q, next, t), Append(s, t))
<1> DEFINE r == Append(s, t)
           n == enqueue_links(q, next, t)
<1>1. /\ s \in Seq(Threads)
      /\ Len(s) \in Nat
      /\ \A i, j \in 1..Len(s) : s[i] = s[j] => i = j
      /\ \A i \in 1..Len(s) : next[s[i]] = IF i = Len(s) THEN NULL ELSE s[i + 1]
  BY DEF Holds
<1>2. /\ r \in Seq(Threads)
      /\ Len(r) = Len(s) + 1
      /\ \A i \in 1..Len(s) : r[i] = s[i]
      /\ r[Len(r)] = t
      /\ r # <<>>
  BY <1>1
<1> HIDE DEF r
<1>3. \A i, j \in 1..Len(r) : r[i] = r[j] => i = j
  <2> SUFFICES ASSUME NEW i \in 1..Len(r), NEW j \in 1..Len(r), r[i] = r[j]
               PROVE  i = j
    OBVIOUS
  <2>1. i \in 1..Len(s) \/ i = Len(r)
    BY <1>1, <1>2
  <2>2. j \in 1..Len(s) \/ j = Len(r)
    BY <1>1, <1>2
  <2>. QED
    BY <1>1, <1>2, <2>1, <2>2
<1>4. CASE s = <<>>
  <2>1. q = queue_init /\ Len(s) = 0
    BY <1>4 DEF Holds
  <2>2. enqueue(q, t) = [head |-> t, tail |-> t] /\ n = next
    BY <2>1 DEF enqueue, enqueue_links, queue_init
  <2>3. Len(r) = 1 /\ r[1] = t
    BY <1>2, <2>1
  <2>. QED
    BY <1>2, <1>3, <2>2, <2>3 DEF Holds, r
<1>5. CASE s # <<>>
  <2> DEFINE last == s[Len(s)]
  <2>1. Len(s) \in Nat \ {0} /\ last \in Threads /\ last # NULL
    BY <1>1, <1>5, NullAssumption
  <2>2. q = [head |-> s[1], tail |-> last]
    BY <1>5 DEF Holds
  <2>3. /\ enqueue(q, t) = [head |-> s[1], tail |-> t]
        /\ n = [next EXCEPT ![last] = t]
    BY <2>1, <2>2 DEF enqueue, enqueue_links
  <2>4. enqueue(q, t) = [head |-> r[1], tail |-> r[Len(r)]]
    BY <1>2, <2>1, <2>3
  <2>5. ASSUME NEW i \in 1..Len(r)
        PROVE  n[r[i]] = IF i = Len(r) THEN NULL ELSE r[i + 1]
    <3>1. CASE i = Len(r)
      <4>1. t # last
        BY <2>1
      <4>. QED
        BY <1>2, <2>3, <3>1, <4>1 DEF LinksType
    <3>2. CASE i = Len(s)
      <4>1. r[i] = last /\ i # Len(r) /\ r[i + 1] = t
        BY <1>1, <1>2, <2>1, <3>2
      <4>2. n[last] = t
        BY <2>1, <2>3 DEF LinksType
      <4>. QED
        BY <4>1, <4>2
    <3>3. CASE i \notin {Len(s), Len(r)}
      <4>1. i \in 1..Len(s) /\ i + 1 \in 1..Len(s)
        BY <1>1, <1>2, <3>3
      <4>2. s[i] # last /\ s[i] \in Threads
        BY <1>1, <2>1, <3>3, <4>1
      <4>3. n[s[i]] = next[s[i]]
        BY <2>3, <4>2 DEF LinksType
      <4>. QED
        BY <1>1, <1>2, <3>3, <4>1, <4>3
    <3>. QED
      BY <3>1, <3>2, <3>3
  <2>. QED
    BY <1>2, <1>3, <2>4, <2>5 DEF Holds, r
<1>. QED
  BY <1>4, <1>5

\* dequeue (src/queue.h) takes the thread that has waited longest, leaves the
\* others in order, and leaves the link of the thread it took NULL.
THEOREM DequeueTakesFirst ==
  ASSUME NEW q, NEW next \in LinksType, NEW s, Holds(q, next, s), s # <<>>
  PROVE  /\ Holds(dequeue(q, next), dequeue_links(q, next), Tail(s))
         /\ \A i \in 1..Len(Tail(s)) : Tail(s)[i] = s[i + 1] /\ Tail(s)[i] # s[1]
         /\ dequeue_links(q, next) = [next EXCEPT ![s[1]] = NULL]
<1> DEFINE r == Tail(s)
           n == dequeue_links(q, next)
<1>1. /\ s \in Seq(Threads)
      /\ Len(s) \in Nat \ {0}
      /\ \A i, j \in 1..Len(s) : s[i] = s[j] => i = j
      /\ \A i \in 1..Len(s) : next[s[i]] = IF i = Len(s) THEN NULL ELSE s[i + 1]
      /\ q = [head |-> s[1], tail |-> s[Len(s)]]
  BY DEF Holds
<1>2. /\ r \in Seq(Threads)
      /\ Len(r) = Len(s) - 1
      /\ \A i \in 1..Len(r) : r[i] = s[i + 1]
  BY <1>1
<1> HIDE DEF r
<1>3. s[1] \in Threads /\ s[1] # NULL
  BY <1>1, NullAssumption
<1>4. n = [next EXCEPT ![s[1]] = NULL]
  BY <1>1, <1>3 DEF dequeue_links
<1>5. ASSUME NEW i \in 1..Len(r)
      PROVE  /\ i + 1 \in 1..Len(s)
             /\ r[i] # s[1]
             /\ r[i] \in Threads
  <2>1. i + 1 \in 1..Len(s) /\ 1 \in 1..Len(s) /\ i + 1 # 1
    BY <1>1, <1>2
  <2>. QED
    BY <1>1, <1>2, <2>1
<1>6. \A i, j \in 1..Len(r) : r[i] = r[j] => i = j
  BY <1>1, <1>2, <1>5
<1>7. \A i \in 1..Len(r) : n[r[i]] = IF i = Len(r) THEN NULL ELSE r[i + 1]
  <2> SUFFICES ASSUME NEW i \in 1..Len(r)
               PROVE  n[r[i]] = IF i = Len(r) THEN NULL ELSE r[i + 1]
    OBVIOUS
  <2>1. n[r[i]] = next[s[i + 1]]
    BY <1>2, <1>4, <1>5 DEF LinksType
  <2>2. next[s[i + 1]] = IF i + 1 = Len(s) THEN NULL ELSE s[i + 2]
    BY <1>1, <1>5
  <2>. QED
    <3>1. i = Len(r) <=> i + 1 = Len(s)
      BY <1>1, <1>2
    <3>2. i # Len(r) => r[i + 1] = s[i + 2]
      BY <1>1, <1>2
    <3>. QED
      BY <2>1, <2>2, <3>1, <3>2
<1>8. dequeue(q, next) = IF r = <<>> THEN queue_init
                         ELSE [head |-> r[1], tail |-> r[Len(r)]]
  <2>1. CASE Len(s) = 1
    <3>1. next[s[1]] = NULL /\ r = <<>>
      BY <1>1, <1>2, <2>1
    <3>. QED
      BY <1>1, <1>3, <3>1 DEF dequeue
  <2>2. CASE Len(s) # 1
    <3>1. next[s[1]] = s[2] /\ s[2] \in Threads /\ s[2] # NULL
      <4>0. Len(s) \in Nat \ {0}
        BY <1>1
      <4>1. 1 \in 1..Len(s) /\ 2 \in 1..Len(s) /\ 1 + 1 = 2
        BY <4>0, <2>2
      <4>2. next[s[1]] = s[1 + 1]
        BY <1>1, <2>2, <4>1
      <4>. QED
        BY <1>1, <4>1, <4>2, NullAssumption
    <3>2. r # <<>> /\ r[1] = s[2] /\ r[Len(r)] = s[Len(s)]
      BY <1>1, <1>2, <2>2
    <3>. QED
      BY <1>1, <1>3, <3>1, <3>2 DEF dequeue
  <2>. QED
    BY <2>1, <2>2
<1>. QED
  BY <1>2, <1>4, <1>5, <1>6, <1>7, <1>8 DEF Holds, r
-----------------------------------------------------------------------------
(***************************************************************************)
(* The walk of a loop over a queue that holds a sequence meets its threads *)
(* in turn, and then NULL.                                                 *)
(***************************************************************************)
LEMMA WalkUnfolds ==
  ASSUME NEW q, NEW next, NEW s, Holds(q, next, s)
  PROVE  /\ Walk(q, next)[0] = q.head
         /\ \A i \in Nat \ {0} :
              Walk(q, next)[i] = IF Walk(q, next)[i - 1] = NULL THEN NULL
                                 ELSE next[Walk(q, next)[i - 1]]
<1> DEFINE step(w) == [i \in Nat |-> IF i = 0 THEN q.head
                                     ELSE IF w[i - 1] = NULL THEN NULL ELSE next[w[i - 1]]]
           line == [i \in Nat |-> IF i < Len(s) THEN s[i + 1] ELSE NULL]
<1>1. /\ Len(s) \in Nat /\ \A i \in 1..Len(s) : s[i] \in Threads
      /\ \A i \in 1..Len(s) : next[s[i]] = IF i = Len(s) THEN NULL ELSE s[i + 1]
  BY DEF Holds
<1>2. q.head = IF Len(s) = 0 THEN NULL ELSE s[1]
  BY <1>1, HoldsHead
<1>3. ASSUME NEW i \in Nat PROVE line[i] = step(line)[i]
  <2>1. CASE i = 0
    BY <1>1, <1>2, <2>1
  <2>2. CASE i # 0 /\ i <= Len(s)
    <3>1. i - 1 \in Nat /\ i \in 1..Len(s) /\ (i - 1) + 1 = i /\ i - 1 < Len(s)
      BY <1>1, <2>2
    <3>2. line[i - 1] = s[i] /\ s[i] # NULL
      BY <1>1, <3>1, NullAssumption
    <3>3. step(line)[i] = next[s[i]]
      BY <2>2, <3>2
    <3> QED
      BY <1>1, <2>2, <3>1, <3>3
  <2>3. CASE i # 0 /\ i > Len(s)
    <3>1. i - 1 \in Nat /\ ~(i - 1 < Len(s)) /\ ~(i < Len(s))
      BY <1>1, <2>3
    <3> QED
      BY <2>3, <3>1
  <2> QED
    BY <1>1, <2>1, <2>2, <2>3
<1>4. line = step(line)
  BY <1>3
<1> HIDE DEF line
<1>5. Walk(q, next) = step(Walk(q, next))
  BY <1>4 DEF Walk
<1> QED
  BY <1>5

LEMMA WalkIs ==
  ASSUME NEW q, NEW next, NEW s, Holds(q, next, s)
  PROVE  \A i \in Nat : Walk(q, next)[i] = IF i < Len(s) THEN s[i + 1] ELSE NULL
<1> DEFINE line(i) == IF i < Len(s) THEN s[i + 1] ELSE NULL
           bad == {i \in Nat : Walk(q, next)[i] # line(i)}
<1>1. /\ Len(s) \in Nat /\ \A i \in 1..Len(s) : s[i] \in Threads
      /\ \A i \in 1..Len(s) : next[s[i]] = IF i = Len(s) THEN NULL ELSE s[i + 1]
  BY DEF Holds
<1> SUFFICES ASSUME bad # {} PROVE FALSE
  OBVIOUS
<1>2. PICK n \in bad : \A m \in bad : n <= m
  BY LeastNumber
<1>3. Walk(q, next)[n] # line(n) /\ n \in Nat
  BY <1>2
<1>4. n # 0
  <2>1. q.head = IF Len(s) = 0 THEN NULL ELSE s[1]
    BY <1>1, HoldsHead
  <2> QED
    BY <1>1, <1>3, <2>1, WalkUnfolds
<1>5. n - 1 \in Nat /\ n - 1 \notin bad
  BY <1>2, <1>3, <1>4
<1>6. Walk(q, next)[n - 1] = line(n - 1)
  BY <1>5
<1>7. Walk(q, next)[n] = IF line(n - 1) = NULL THEN NULL ELSE next[line(n - 1)]
  BY <1>3, <1>4, <1>6, WalkUnfolds
<1>8. CASE n <= Len(s)
  <2>1. n \in 1..Len(s) /\ (n - 1) + 1 = n /\ n - 1 < Len(s)
    BY <1>1, <1>3, <1>4, <1>8
  <2>2. line(n - 1) = s[n] /\ s[n] # NULL
    BY <1>1, <2>1, NullAssumption
  <2> QED
    BY <1>1, <1>3, <1>7, <2>1, <2>2
<1>9. CASE n > Len(s)
  <2>1. ~(n - 1 < Len(s)) /\ ~(n < Len(s))
    BY <1>1, <1>3, <1>9
  <2> QED
    BY <1>3, <1>7, <2>1
<1> QED
  BY <1>1, <1>3, <1>8, <1>9

Members(s) == {s[i] : i \in 1..Len(s)}

LEMMA MembersType ==
  ASSUME NEW q, NEW next, NEW s, Holds(q, next, s)
  PROVE  s \in Seq(Threads) /\ Members(s) \subseteq Threads
  BY DEF Holds, Members

LEMMA MembersAppend ==
  ASSUME NEW s \in Seq(Threads), NEW t \in Threads
  PROVE  Members(Append(s, t)) = Members(s) \cup {t}
  BY DEF Members

LEMMA MembersTail ==
  ASSUME NEW q, NEW next, NEW s, Holds(q, next, s), s # <<>>
  PROVE  /\ s[1] \in Members(s)
         /\ Members(Tail(s)) = Members(s) \ {s[1]}
<1> DEFINE r == Tail(s)
<1>1. /\ s \in Seq(Threads) /\ Len(s) \in Nat \ {0}
      /\ \A i, j \in 1..Len(s) : s[i] = s[j] => i = j
  BY DEF Holds
<1>2. Len(r) = Len(s) - 1 /\ \A i \in 1..Len(r) : r[i] = s[i + 1]
  BY <1>1
<1>3. \A i \in 1..Len(r) : i + 1 \in 1..Len(s) /\ i + 1 # 1
  BY <1>1, <1>2
<1>4. \A i \in 1..Len(s) : i # 1 => i - 1 \in 1..Len(r) /\ (i - 1) + 1 = i
  BY <1>1, <1>2
<1> HIDE DEF r
<1>5. 1 \in 1..Len(s)
  BY <1>1
<1>6. ASSUME NEW i \in 1..Len(r) PROVE r[i] \in Members(s) \ {s[1]}
  BY <1>1, <1>2, <1>3, <1>5 DEF Members
<1>7. ASSUME NEW i \in 1..Len(s), s[i] # s[1] PROVE s[i] \in Members(r)
  <2>1. i - 1 \in 1..Len(r) /\ s[i] = r[i - 1]
    BY <1>2, <1>4, <1>7
  <2> QED
    BY <2>1 DEF Members
<1>8. Members(r) = Members(s) \ {s[1]}
  BY <1>6, <1>7 DEF Members
<1> QED
  BY <1>5, <1>8 DEF r, Members

\* The threads a walk of at most Cardinality(Threads) rounds finds are those of
\* the sequence.
LEMMA ReachableIs ==
  ASSUME NEW q, NEW next, NEW s, Holds(q, next, s), IsFiniteSet(Threads)
  PROVE  Reachable(q, next) = Members(s)
<1>1. /\ Len(s) \in Nat /\ \A i \in 1..Len(s) : s[i] \in Threads
  BY DEF Holds
<1>2. Cardinality(Threads) \in Nat /\ Len(s) <= Cardinality(Threads)
  <2>1. PICK n \in 0..Cardinality(Threads) : s \in [1..n -> Threads]
    BY HoldsBounded
  <2>2. Cardinality(Threads) \in Nat
    BY FS_CardinalityType
  <2>3. DOMAIN s = 1..n /\ DOMAIN s = 1..Len(s)
    BY <2>1 DEF Holds
  <2>4. Len(s) = n
    BY <1>1, <2>1, <2>2, <2>3
  <2> QED
    BY <2>1, <2>2, <2>4
<1>3. ASSUME NEW i \in WalkRange, Walk(q, next)[i] # NULL PROVE Walk(q, next)[i] \in Members(s)
  <2>1. i \in Nat
    BY <1>2 DEF WalkRange
  <2>2. i < Len(s) /\ Walk(q, next)[i] = s[i + 1]
    BY <1>3, <2>1, WalkIs
  <2>3. i + 1 \in 1..Len(s)
    BY <1>1, <2>1, <2>2
  <2> QED
    BY <2>2, <2>3 DEF Members
<1>4. ASSUME NEW i \in 1..Len(s) PROVE s[i] \in Reachable(q, next)
  <2>1. i - 1 \in WalkRange /\ i - 1 \in Nat /\ i - 1 < Len(s) /\ (i - 1) + 1 = i
    BY <1>1, <1>2 DEF WalkRange
  <2>2. Walk(q, next)[i - 1] = s[i] /\ s[i] # NULL
    BY <1>1, <2>1, WalkIs, NullAssumption
  <2> QED
    BY <2>1, <2>2 DEF Reachable
<1> QED
  BY <1>3, <1>4 DEF Reachable, Members
-----------------------------------------------------------------------------
(***************************************************************************)
(* The queues of a process share the p_nextwaiting fields.  In a family of *)
(* queues every thread is in one queue at most, and outside them its field *)
(* is NULL.  (P names the queues, Q[p] is the one named p, S[p] what it    *)
(* holds.)                                                                 *)
(***************************************************************************)
Queued(P, S, t) == \E p \in P : t \in Members(S[p])

Family(P, Q, next, S) ==
  /\ \A p \in P : Holds(Q[p], next, S[p])
  /\ \A p, r \in P : p # r => Members(S[p]) \cap Members(S[r]) = {}
  /\ \A t \in Threads : ~Queued(P, S, t) => next[t] = NULL

\* R is Q, but for R[p] = x.
Changes(P, Q, R, p, x) == \A r \in P : R[r] = IF r = p THEN x ELSE Q[r]

\* A queue does not depend on the links of the threads that are not in it.
LEMMA HoldsFrame ==
  ASSUME NEW q, NEW next, NEW s, Holds(q, next, s),
         NEW n, \A t \in Members(s) : n[t] = next[t]
  PROVE  Holds(q, n, s)
  BY DEF Holds, Members

LEMMA FamilyEnqueue ==
  ASSUME NEW P, NEW Q, NEW next \in LinksType, NEW S, Family(P, Q, next, S),
         NEW p \in P, NEW t \in Threads, ~Queued(P, S, t),
         NEW R, Changes(P, Q, R, p, enqueue(Q[p], t)),
         NEW T, Changes(P, S, T, p, Append(S[p], t))
  PROVE  Family(P, R, enqueue_links(Q[p], next, t), T)
<1> USE DEF Changes
<1> DEFINE n == enqueue_links(Q[p], next, t)
<1>1. Holds(Q[p], next, S[p]) /\ S[p] \in Seq(Threads) /\ Members(S[p]) \subseteq Threads
  BY MembersType DEF Family
<1>2. next[t] = NULL /\ t \notin Members(S[p]) /\ \A i \in 1..Len(S[p]) : S[p][i] # t
  BY DEF Family, Queued, Members
<1>3. Holds(R[p], n, T[p])
  BY <1>1, <1>2, EnqueueAppends
<1>4. Members(T[p]) = Members(S[p]) \cup {t}
  BY <1>1, MembersAppend
<1>5. Q[p].tail # NULL => Q[p].tail \in Members(S[p])
  BY <1>1 DEF Holds, Members, queue_init
<1>6. \A u \in Threads : u \notin Members(S[p]) => n[u] = next[u]
  BY <1>5 DEF enqueue_links, LinksType
<1>7. ASSUME NEW r \in P, r # p PROVE Holds(R[r], n, T[r])
  <2>1. Holds(Q[r], next, S[r]) /\ Members(S[r]) \subseteq Threads /\ Members(S[r]) \cap Members(S[p]) = {}
    BY <1>7, MembersType DEF Family
  <2> QED
    BY <1>6, <1>7, <2>1, HoldsFrame
<1>8. \A r, v \in P : r # v => Members(T[r]) \cap Members(T[v]) = {}
  BY <1>4 DEF Family, Queued
<1>9. \A u \in Threads : ~Queued(P, T, u) => n[u] = NULL
  BY <1>4, <1>6 DEF Family, Queued
<1> QED
  BY <1>3, <1>7, <1>8, <1>9 DEF Family

LEMMA FamilyDequeue ==
  ASSUME NEW P, NEW Q, NEW next \in LinksType, NEW S, Family(P, Q, next, S),
         NEW p \in P, S[p] # <<>>,
         NEW R, Changes(P, Q, R, p, dequeue(Q[p], next)),
         NEW T, Changes(P, S, T, p, Tail(S[p]))
  PROVE  Family(P, R, dequeue_links(Q[p], next), T)
<1> USE DEF Changes
<1> DEFINE s == S[p]
           n == dequeue_links(Q[p], next)
           first == s[1]
<1>1. Holds(Q[p], next, s) /\ Members(s) \subseteq Threads
  BY MembersType DEF Family
<1>2. Q[p].head = first /\ first \in Members(s)
  BY <1>1, HoldsHead, MembersTail
<1> HIDE DEF s
<1>3. Holds(dequeue(Q[p], next), n, Tail(s)) /\ n = [next EXCEPT ![first] = NULL]
  BY <1>1, DequeueTakesFirst DEF s
<1>4. Holds(R[p], n, T[p]) /\ Members(T[p]) = Members(s) \ {first}
  BY <1>1, <1>3, MembersTail DEF s
<1>5. ASSUME NEW r \in P, r # p PROVE Holds(R[r], n, T[r])
  <2>1. Holds(Q[r], next, S[r]) /\ Members(S[r]) \subseteq Threads /\ first \notin Members(S[r])
    BY <1>2, <1>5, MembersType DEF Family, s
  <2>2. \A u \in Members(S[r]) : n[u] = next[u]
    BY <1>3, <2>1 DEF LinksType
  <2> QED
    BY <1>5, <2>1, <2>2, HoldsFrame
<1>6. \A r, v \in P : r # v => Members(T[r]) \cap Members(T[v]) = {}
  BY <1>4 DEF Family, s
<1>7. \A u \in Threads : ~Queued(P, T, u) => n[u] = NULL
  BY <1>3, <1>4 DEF Family, Queued, LinksType, s
<1> QED
  BY <1>4, <1>5, <1>6, <1>7 DEF Family, s

=============================================================================
