-------------------------- MODULE ThreadExitProofs --------------------------
(***************************************************************************)
(* A cancellation request is never overlooked, and regions with deferred   *)
(* cancellation are not interrupted: for every set of threads, any nesting *)
(* of cleanup handlers and any number of requests, also during exit.       *)
(***************************************************************************)
EXTENDS ThreadExit, TLAPS

\* The types the proofs need.
Typed ==
  /\ p_canceled \in [Threads -> BOOLEAN]
  /\ p_cancelstate \in [Threads -> States]
  /\ p_canceltype \in [Threads -> Types]
  /\ p_cleanup \in [Threads -> Seq(Buffer)]
  /\ code \in [Threads -> {"program", "pop"} \cup Exiting]
  /\ pc \in [Threads -> {"run", "walk", "test", "enter", "syscall", "leave"}]
  /\ oldtype \in [Threads -> Types]
  /\ c \in [Threads -> Nat \ {0}]
  /\ wanted \in [Threads -> Types]

\* A list of buffers with one of a region among the ones from n on.
RegionFrom(buffers, n) == \E m \in n .. Len(buffers) : buffers[m].defer

\* The type that is in force outside the system calls, given the buffers.
Effective(buffers, type) ==
  IF RegionFrom(buffers, 1) THEN PTHREAD_CANCEL_DEFERRED ELSE type

\* Every buffer of a region has saved the type in force when it was pushed.
SavedTypes(buffers, type) ==
  \A n \in 1 .. Len(buffers) :
    buffers[n].defer =>
      buffers[n].canceltype =
        IF RegionFrom(buffers, n + 1) THEN PTHREAD_CANCEL_DEFERRED ELSE type

\* TypeRestored, made inductive: what the system calls and the regions are going
\* to restore is right as well.
Restored(t) ==
  code[t] \in {"program", "pop"} =>
    /\ pc[t] # "walk"
    /\ code[t] = "pop" => p_cleanup[t] # <<>>
    /\ pc[t] \in {"run", "test", "leave"} =>
         p_canceltype[t] = Effective(p_cleanup[t], wanted[t])
    /\ pc[t] \in {"enter", "syscall"} =>
         oldtype[t] = Effective(p_cleanup[t], wanted[t])
    /\ SavedTypes(p_cleanup[t], wanted[t])

RestoredInv == \A t \in Threads : Restored(t)
-----------------------------------------------------------------------------
\* Pushing a buffer.
LEMMA PushSaves ==
  ASSUME NEW s \in Seq(Buffer), NEW type \in Types, NEW b \in Buffer,
         SavedTypes(s, type), b.canceltype = Effective(s, type)
  PROVE  /\ <<b>> \o s \in Seq(Buffer)
         /\ SavedTypes(<<b>> \o s, type)
         /\ b.defer => Effective(<<b>> \o s, type) = PTHREAD_CANCEL_DEFERRED
         /\ ~b.defer => Effective(<<b>> \o s, type) = Effective(s, type)
<1> DEFINE r == <<b>> \o s
<1>1. /\ r \in Seq(Buffer) /\ Len(r) = Len(s) + 1 /\ r[1] = b
      /\ \A n \in 1 .. Len(s) : r[n + 1] = s[n]
  OBVIOUS
<1>2. ASSUME NEW n \in 1 .. Len(s) + 1 PROVE RegionFrom(r, n + 1) <=> RegionFrom(s, n)
  <2>1. ASSUME NEW m \in n + 1 .. Len(r), r[m].defer PROVE RegionFrom(s, n)
    <3>1. m - 1 \in n .. Len(s) /\ s[m - 1] = r[m]
      BY <1>1
    <3> QED
      BY <2>1, <3>1, Zenon DEF RegionFrom
  <2>2. ASSUME NEW m \in n .. Len(s), s[m].defer PROVE RegionFrom(r, n + 1)
    <3>1. m + 1 \in n + 1 .. Len(r) /\ r[m + 1] = s[m]
      BY <1>1
    <3> QED
      BY <2>2, <3>1, Zenon DEF RegionFrom
  <2> QED
    BY <2>1, <2>2, Zenon DEF RegionFrom
<1>3. RegionFrom(r, 1) <=> b.defer \/ RegionFrom(s, 1)
  <2>1. RegionFrom(r, 1) <=> r[1].defer \/ RegionFrom(r, 2)
    BY <1>1 DEF RegionFrom
  <2>2. RegionFrom(r, 2) <=> RegionFrom(s, 1)
    BY <1>1, <1>2
  <2> QED
    BY <1>1, <2>1, <2>2, Zenon
<1>4. SavedTypes(r, type)
  <2> SUFFICES ASSUME NEW n \in 1 .. Len(r), r[n].defer
               PROVE  r[n].canceltype =
                        IF RegionFrom(r, n + 1) THEN PTHREAD_CANCEL_DEFERRED ELSE type
    BY Zenon DEF SavedTypes
  <2>1. CASE n = 1
    BY <1>1, <1>2, <2>1, Zenon DEF Effective
  <2>2. CASE n # 1
    <3> DEFINE k == n - 1
    <3>1. k \in 1 .. Len(s) /\ r[n] = s[k] /\ n \in 1 .. Len(s) + 1 /\ k + 1 = n
      BY <1>1, <2>2
    <3>2. RegionFrom(r, n + 1) <=> RegionFrom(s, k + 1)
      BY <1>2, <3>1, Zenon
    <3> QED
      BY <3>1, <3>2, Zenon DEF SavedTypes
  <2> QED
    BY <2>1, <2>2, Zenon
<1> QED
  BY <1>1, <1>3, <1>4, Zenon DEF Effective

\* Unlinking the last one pushed.
LEMMA PopRestores ==
  ASSUME NEW s \in Seq(Buffer), NEW type \in Types, s # <<>>, SavedTypes(s, type)
  PROVE  /\ Tail(s) \in Seq(Buffer)
         /\ Head(s) \in Buffer
         /\ SavedTypes(Tail(s), type)
         /\ Head(s).defer => Head(s).canceltype = Effective(Tail(s), type)
         /\ ~Head(s).defer => Effective(Tail(s), type) = Effective(s, type)
<1> DEFINE r == Tail(s)
<1>1. /\ r \in Seq(Buffer) /\ Len(s) = Len(r) + 1 /\ Head(s) = s[1] /\ s[1] \in Buffer
      /\ \A n \in 1 .. Len(r) : s[n + 1] = r[n]
  OBVIOUS
<1>2. ASSUME NEW n \in 1 .. Len(r) + 1 PROVE RegionFrom(s, n + 1) <=> RegionFrom(r, n)
  <2>1. ASSUME NEW m \in n + 1 .. Len(s), s[m].defer PROVE RegionFrom(r, n)
    <3>1. m - 1 \in n .. Len(r) /\ r[m - 1] = s[m]
      BY <1>1
    <3> QED
      BY <2>1, <3>1, Zenon DEF RegionFrom
  <2>2. ASSUME NEW m \in n .. Len(r), r[m].defer PROVE RegionFrom(s, n + 1)
    <3>1. m + 1 \in n + 1 .. Len(s) /\ s[m + 1] = r[m]
      BY <1>1
    <3> QED
      BY <2>2, <3>1, Zenon DEF RegionFrom
  <2> QED
    BY <2>1, <2>2, Zenon DEF RegionFrom
<1>3. RegionFrom(s, 2) <=> RegionFrom(r, 1)
  BY <1>1, <1>2
<1>4. RegionFrom(s, 1) <=> s[1].defer \/ RegionFrom(s, 2)
  BY <1>1 DEF RegionFrom
<1>5. SavedTypes(r, type)
  <2> SUFFICES ASSUME NEW n \in 1 .. Len(r), r[n].defer
               PROVE  r[n].canceltype =
                        IF RegionFrom(r, n + 1) THEN PTHREAD_CANCEL_DEFERRED ELSE type
    BY Zenon DEF SavedTypes
  <2>1. n + 1 \in 1 .. Len(s) /\ s[n + 1] = r[n] /\ n + 1 \in 1 .. Len(r) + 1
    BY <1>1
  <2>2. RegionFrom(s, (n + 1) + 1) <=> RegionFrom(r, n + 1)
    BY <1>2, <2>1, Zenon
  <2> QED
    BY <2>1, <2>2, Zenon DEF SavedTypes
<1>6. s[1].defer => s[1].canceltype = Effective(r, type)
  <2>1. 1 \in 1 .. Len(s) /\ 1 + 1 = 2
    BY <1>1
  <2> QED
    BY <1>3, <2>1, Zenon DEF SavedTypes, Effective
<1> QED
  BY <1>1, <1>3, <1>4, <1>5, <1>6, Zenon DEF Effective

\* Counting a call of a handler changes nothing.
LEMMA CountKeeps ==
  ASSUME NEW s \in Seq(Buffer), NEW type \in Types, NEW n \in 1 .. Len(s)
  PROVE  LET r == [s EXCEPT ![n].runs = @ + 1] IN
         /\ r \in Seq(Buffer)
         /\ r # <<>>
         /\ Effective(r, type) = Effective(s, type)
         /\ SavedTypes(s, type) => SavedTypes(r, type)
<1> DEFINE b == [s[n] EXCEPT !.runs = @ + 1]
           r == [s EXCEPT ![n].runs = @ + 1]
<1>1. s[n] \in Buffer
  OBVIOUS
<1>2. b \in Buffer /\ b.defer = s[n].defer /\ b.canceltype = s[n].canceltype
  BY <1>1 DEF Buffer
<1>3. r = [s EXCEPT ![n] = b]
  BY Zenon
<1> HIDE DEF b
<1>4. r \in Seq(Buffer) /\ Len(r) = Len(s)
  BY <1>2, <1>3
<1>5. \A m \in 1 .. Len(s) : r[m].defer = s[m].defer /\ r[m].canceltype = s[m].canceltype
  BY <1>2, <1>3
<1> HIDE DEF r
<1>6. ASSUME NEW k \in Nat \ {0} PROVE RegionFrom(r, k) <=> RegionFrom(s, k)
  BY <1>4, <1>5 DEF RegionFrom
<1>7. Effective(r, type) = Effective(s, type)
  BY <1>6 DEF Effective
<1>8. SavedTypes(s, type) => SavedTypes(r, type)
  BY <1>4, <1>5, <1>6 DEF SavedTypes
<1>9. r # <<>>
  BY <1>4
<1> QED
  BY <1>4, <1>7, <1>8, <1>9, Zenon DEF r
-----------------------------------------------------------------------------
\* The inductive invariant.
CancelInv == Typed /\ CancelNoticed /\ RestoredInv

LEMMA CancelInvInit == Init => CancelInv
<1> SUFFICES ASSUME Init PROVE CancelInv
  BY Zenon
<1>1. Typed
  BY DEF Init, CancelInit, Typed, States, Types, Exiting, PTHREAD_CANCEL_ENABLE,
     PTHREAD_CANCEL_DEFERRED
<1>2. CancelNoticed
  BY Zenon DEF Init, CancelInit, CancelNoticed, AsyncDue, CancelDue
<1>3. RestoredInv
  BY DEF Init, CancelInit, RestoredInv, Restored, Effective, SavedTypes, RegionFrom
<1> QED
  BY <1>1, <1>2, <1>3, Zenon DEF CancelInv

\* pthread_exit preserves it, wherever it is called from.
LEMMA ExitKeeps ==
  ASSUME CancelInv, NEW self \in Threads, pthread_exit(self),
         \A t \in Threads \ {self} :
           t \in killing \cup sigcancel => t \in killing' \cup sigcancel'
  PROVE  CancelInv'
<1>1. Typed'
  BY DEF CancelInv, Typed, pthread_exit, Goto, modeVars, Exiting
<1>2. CancelNoticed'
  BY Zenon DEF CancelInv, Typed, CancelNoticed, pthread_exit, Goto, modeVars, AsyncDue, CancelDue
<1>3. RestoredInv'
  BY Zenon DEF CancelInv, Typed, RestoredInv, Restored, pthread_exit, Goto, modeVars
<1> QED
  BY <1>1, <1>2, <1>3, Zenon DEF CancelInv

\* The functions that set the state or the type, and the system calls.
LEMMA ModesKeep ==
  ASSUME CancelInv, NEW self \in Threads,
         \/ \E state \in States : pthread_setcancelstate(self, state)
         \/ \E type \in Types : pthread_setcanceltype(self, type)
         \/ syscall(self)
         \/ syscall_return(self)
         \/ test_async(self)
  PROVE  CancelInv'
<1>1. ASSUME NEW state \in States, pthread_setcancelstate(self, state) PROVE CancelInv'
  <2>1. Typed'
    BY <1>1, Zenon DEF CancelInv, Typed, pthread_setcancelstate, Goto, requestVars
  <2>2. CancelNoticed'
    BY <1>1, Zenon DEF CancelInv, Typed, CancelNoticed, pthread_setcancelstate, Goto, requestVars,
       AsyncDue, CancelDue
  <2>3. RestoredInv'
    BY <1>1, Zenon DEF CancelInv, Typed, RestoredInv, Restored, pthread_setcancelstate, Goto, InProgram
  <2> QED
    BY <2>1, <2>2, <2>3, Zenon DEF CancelInv
<1>2. ASSUME NEW type \in Types, pthread_setcanceltype(self, type) PROVE CancelInv'
  <2>1. Typed'
    BY <1>2, Zenon DEF CancelInv, Typed, pthread_setcanceltype, Goto, requestVars
  <2>2. CancelNoticed'
    BY <1>2, Zenon DEF CancelInv, Typed, CancelNoticed, pthread_setcanceltype, Goto, requestVars,
       AsyncDue, CancelDue
  <2>3. ~RegionFrom(p_cleanup[self], 1)
    BY <1>2 DEF CancelInv, Typed, pthread_setcanceltype, InRegion, RegionFrom
  <2>4. Effective(p_cleanup[self], type) = type /\ SavedTypes(p_cleanup[self], type)
    BY <2>3, Zenon DEF Effective, SavedTypes, RegionFrom
  <2>5. RestoredInv'
    BY <1>2, <2>4, Zenon DEF CancelInv, Typed, RestoredInv, Restored, pthread_setcanceltype, Goto, InProgram
  <2> QED
    BY <2>1, <2>2, <2>5, Zenon DEF CancelInv
<1>3. ASSUME syscall(self) PROVE CancelInv'
  <2>1. Typed'
    BY <1>3, Zenon DEF CancelInv, Typed, syscall, Goto, requestVars, Types
  <2>2. CancelNoticed'
    BY <1>3, Zenon DEF CancelInv, Typed, CancelNoticed, syscall, Goto, requestVars, AsyncDue, CancelDue
  <2>3. RestoredInv'
    BY <1>3, Zenon DEF CancelInv, Typed, RestoredInv, Restored, syscall, Goto
  <2> QED
    BY <2>1, <2>2, <2>3, Zenon DEF CancelInv
<1>4. ASSUME syscall_return(self) PROVE CancelInv'
  <2>1. Typed'
    BY <1>4, Zenon DEF CancelInv, Typed, syscall_return, Goto, requestVars, Types
  <2>2. CancelNoticed'
    BY <1>4, Zenon DEF CancelInv, Typed, CancelNoticed, syscall_return, Goto, requestVars, AsyncDue, CancelDue
  <2>3. RestoredInv'
    BY <1>4, Zenon DEF CancelInv, Typed, RestoredInv, Restored, syscall_return, Goto
  <2> QED
    BY <2>1, <2>2, <2>3, Zenon DEF CancelInv
<1>5. ASSUME test_async(self) PROVE CancelInv'
  <2>1. CASE pthread_exit(self) /\ UNCHANGED <<killing, sigcancel, blocked>>
    BY <2>1, ExitKeeps, Zenon
  <2>2. CASE ~AsyncDue(self) /\ UNCHANGED <<requestVars, modeVars, p_cleanup, blocked, code, oldtype, c>>
    <3>1. Typed'
      BY <1>5, <2>2, Zenon DEF CancelInv, Typed, test_async, Goto, requestVars, modeVars, pthread_exit
    <3>2. CancelNoticed'
      BY <1>5, <2>2, Zenon DEF CancelInv, Typed, CancelNoticed, test_async, Goto, requestVars, modeVars,
         AsyncDue, CancelDue
    <3>3. RestoredInv'
      BY <1>5, <2>2, Zenon DEF CancelInv, Typed, RestoredInv, Restored, test_async, Goto, modeVars
    <3> QED
      BY <3>1, <3>2, <3>3, Zenon DEF CancelInv
  <2> QED
    BY <1>5, <2>1, <2>2, Zenon DEF test_async
<1> QED
  BY <1>1, <1>2, <1>3, <1>4, <1>5, Zenon

\* The cleanup buffers: pushed, popped, and their handlers called.
LEMMA BuffersKeep ==
  ASSUME CancelInv, NEW self \in Threads,
         \/ _pthread_cleanup_push(self)
         \/ _pthread_cleanup_push_defer(self)
         \/ _pthread_cleanup_pop(self)
         \/ _pthread_cleanup_pop_execute(self)
         \/ pop_unlinks(self)
         \/ __pthread_perform_cleanup(self)
         \/ handler_returns(self)
  PROVE  CancelInv'
<1> DEFINE buffers == p_cleanup[self]
           type == wanted[self]
<1>a. buffers \in Seq(Buffer) /\ type \in Types
  BY Zenon DEF CancelInv, Typed
<1>1. ASSUME NEW defer \in BOOLEAN, InProgram(self)
      PROVE  /\ Pushed(self, defer) \in Seq(Buffer)
             /\ SavedTypes(Pushed(self, defer), type)
             /\ defer => Effective(Pushed(self, defer), type) = PTHREAD_CANCEL_DEFERRED
             /\ ~defer => Effective(Pushed(self, defer), type) = Effective(buffers, type)
  <2> DEFINE b == [defer |-> defer, canceltype |-> p_canceltype[self], runs |-> 0]
  <2>1. b \in Buffer /\ b.canceltype = p_canceltype[self] /\ b.defer = defer
    BY Zenon DEF CancelInv, Typed, Buffer
  <2>2. SavedTypes(buffers, type) /\ p_canceltype[self] = Effective(buffers, type)
    BY <1>1, Zenon DEF CancelInv, RestoredInv, Restored, InProgram
  <2>3. Pushed(self, defer) = <<b>> \o buffers
    BY Zenon DEF Pushed
  <2> HIDE DEF b, buffers, type
  <2> QED
    BY <1>a, <2>1, <2>2, <2>3, PushSaves
<1>2. ASSUME _pthread_cleanup_push(self) PROVE CancelInv'
  <2>1. InProgram(self)
    BY <1>2, Zenon DEF _pthread_cleanup_push
  <2>2. /\ Pushed(self, FALSE) \in Seq(Buffer)
        /\ SavedTypes(Pushed(self, FALSE), type)
        /\ Effective(Pushed(self, FALSE), type) = Effective(buffers, type)
    BY <1>1, <2>1, Zenon
  <2>3. Typed'
    BY <1>2, <2>2, Zenon DEF CancelInv, Typed, _pthread_cleanup_push, requestVars, modeVars
  <2>4. CancelNoticed'
    BY <1>2, Zenon DEF CancelInv, Typed, CancelNoticed, _pthread_cleanup_push, requestVars, modeVars,
       AsyncDue, CancelDue
  <2>5. RestoredInv'
    BY <1>2, <2>2, Zenon DEF CancelInv, Typed, RestoredInv, Restored, _pthread_cleanup_push, modeVars, InProgram
  <2> QED
    BY <2>3, <2>4, <2>5, Zenon DEF CancelInv
<1>3. ASSUME _pthread_cleanup_push_defer(self) PROVE CancelInv'
  <2>1. InProgram(self)
    BY <1>3, Zenon DEF _pthread_cleanup_push_defer
  <2>2. /\ Pushed(self, TRUE) \in Seq(Buffer)
        /\ SavedTypes(Pushed(self, TRUE), type)
        /\ Effective(Pushed(self, TRUE), type) = PTHREAD_CANCEL_DEFERRED
    BY <1>1, <2>1, Zenon
  <2>3. Typed'
    BY <1>3, <2>2, Zenon DEF CancelInv, Typed, _pthread_cleanup_push_defer, requestVars, Types
  <2>4. CancelNoticed'
    BY <1>3, Zenon DEF CancelInv, Typed, CancelNoticed, _pthread_cleanup_push_defer, requestVars,
       AsyncDue, CancelDue, PTHREAD_CANCEL_DEFERRED, PTHREAD_CANCEL_ASYNCHRONOUS
  <2>5. RestoredInv'
    BY <1>3, <2>2, Zenon DEF CancelInv, Typed, RestoredInv, Restored, _pthread_cleanup_push_defer, InProgram
  <2> QED
    BY <2>3, <2>4, <2>5, Zenon DEF CancelInv
<1>4. ASSUME Unlink(self), buffers # <<>>, code[self] \in {"program", "pop"}, pc[self] = "run"
      PROVE  CancelInv'
  <2> DEFINE b == Head(buffers)
  <2>1. /\ Tail(buffers) \in Seq(Buffer) /\ b \in Buffer
        /\ SavedTypes(Tail(buffers), type)
        /\ b.defer => b.canceltype = Effective(Tail(buffers), type)
        /\ ~b.defer => Effective(Tail(buffers), type) = Effective(buffers, type)
    <3>1. SavedTypes(buffers, type)
      BY <1>4, Zenon DEF CancelInv, RestoredInv, Restored
    <3> QED
      BY <1>a, <1>4, <3>1, PopRestores, Zenon
  <2>2. b.defer \in BOOLEAN /\ b.canceltype \in Types
    BY <2>1, Zenon DEF Buffer
  <2>3. p_canceltype[self] = Effective(buffers, type)
    BY <1>4, Zenon DEF CancelInv, RestoredInv, Restored
  <2> HIDE DEF b
  <2>4. Typed'
    BY <1>4, <2>1, <2>2, Zenon DEF CancelInv, Typed, Unlink, Goto, requestVars, b
  <2>5. CancelNoticed'
    BY <1>4, <2>2, Zenon DEF CancelInv, Typed, CancelNoticed, Unlink, Goto, requestVars, AsyncDue,
       CancelDue, Exiting
  <2>6. RestoredInv'
    <3>1. p_cleanup' = [p_cleanup EXCEPT ![self] = Tail(buffers)] /\ wanted' = wanted
      BY <1>4, Zenon DEF Unlink
    <3>2. Restored(self)'
      <4>1. p_cleanup'[self] = Tail(buffers) /\ wanted'[self] = type
        BY <3>1, Zenon DEF CancelInv, Typed
      <4>2. code'[self] = "program" /\ pc'[self] \in {"test", "run"}
        BY <1>4, Zenon DEF Unlink, Goto, CancelInv, Typed
      <4>3. p_canceltype'[self] = Effective(Tail(buffers), type)
        BY <1>4, <2>1, <2>3, Zenon DEF Unlink, CancelInv, Typed, b
      <4> HIDE DEF buffers, type
      <4> QED
        BY <2>1, <4>1, <4>2, <4>3, Zenon DEF Restored
    <3>3. ASSUME NEW t \in Threads, t # self PROVE Restored(t)'
      <4>1. Restored(t)
        BY Zenon DEF CancelInv, RestoredInv
      <4>2. /\ code'[t] = code[t] /\ pc'[t] = pc[t] /\ p_cleanup'[t] = p_cleanup[t]
            /\ p_canceltype'[t] = p_canceltype[t] /\ wanted'[t] = wanted[t] /\ oldtype'[t] = oldtype[t]
        BY <1>4, <3>3, Zenon DEF Unlink, Goto, CancelInv, Typed
      <4> QED
        BY <4>1, <4>2, Zenon DEF Restored
    <3> QED
      BY <3>2, <3>3, Zenon DEF RestoredInv
  <2> QED
    BY <2>4, <2>5, <2>6, Zenon DEF CancelInv
<1>5. ASSUME _pthread_cleanup_pop(self) PROVE CancelInv'
  BY <1>4, <1>5, Zenon DEF _pthread_cleanup_pop, InProgram
<1>6. ASSUME pop_unlinks(self) PROVE CancelInv'
  BY <1>4, <1>6, Zenon DEF pop_unlinks, CancelInv, RestoredInv, Restored
<1>7. ASSUME NEW n \in 1 .. Len(buffers),
             p_cleanup' = [p_cleanup EXCEPT ![self][n].runs = @ + 1]
      PROVE  /\ p_cleanup' \in [Threads -> Seq(Buffer)]
             /\ p_cleanup'[self] # <<>>
             /\ Effective(p_cleanup'[self], type) = Effective(buffers, type)
             /\ SavedTypes(buffers, type) => SavedTypes(p_cleanup'[self], type)
             /\ \A t \in Threads \ {self} : p_cleanup'[t] = p_cleanup[t]
  <2> DEFINE r == [buffers EXCEPT ![n].runs = @ + 1]
  <2>1. /\ r \in Seq(Buffer) /\ r # <<>> /\ Effective(r, type) = Effective(buffers, type)
        /\ SavedTypes(buffers, type) => SavedTypes(r, type)
    BY <1>a, <1>7, CountKeeps, Zenon
  <2>2. p_cleanup' = [p_cleanup EXCEPT ![self] = r]
    BY <1>7, Zenon
  <2> HIDE DEF r
  <2> QED
    BY <2>1, <2>2, Zenon DEF CancelInv, Typed
<1>8. ASSUME _pthread_cleanup_pop_execute(self) PROVE CancelInv'
  <2>1. 1 \in 1 .. Len(buffers)
    BY <1>a, <1>8 DEF _pthread_cleanup_pop_execute
  <2>2. p_cleanup' = [p_cleanup EXCEPT ![self][1].runs = @ + 1]
    BY <1>8, Zenon DEF _pthread_cleanup_pop_execute
  <2>3. Typed'
    BY <1>7, <1>8, <2>1, <2>2, Zenon DEF CancelInv, Typed, _pthread_cleanup_pop_execute, requestVars, modeVars
  <2>4. CancelNoticed'
    BY <1>8, Zenon DEF CancelInv, Typed, CancelNoticed, _pthread_cleanup_pop_execute, requestVars,
       modeVars, AsyncDue, CancelDue, InProgram
  <2>5. RestoredInv'
    <3>1. /\ code[self] = "program" /\ code'[self] = "pop" /\ pc[self] = "run"
          /\ \A t \in Threads \ {self} : code'[t] = code[t]
          /\ UNCHANGED <<pc, p_canceltype, wanted, oldtype>>
      BY <1>8, Zenon DEF CancelInv, Typed, _pthread_cleanup_pop_execute, modeVars, InProgram
    <3>2. Restored(self)'
      <4>1. p_canceltype[self] = Effective(buffers, type) /\ SavedTypes(buffers, type)
        BY <3>1, Zenon DEF CancelInv, RestoredInv, Restored
      <4>2. p_canceltype[self] = Effective(p_cleanup'[self], type) /\ SavedTypes(p_cleanup'[self], type)
        BY <1>7, <2>1, <2>2, <4>1, Zenon
      <4>3. p_cleanup'[self] # <<>>
        BY <1>7, <2>1, <2>2, Zenon
      <4> QED
        BY <3>1, <4>2, <4>3, Zenon DEF Restored
    <3>3. ASSUME NEW t \in Threads \ {self} PROVE Restored(t)'
      <4>1. Restored(t) /\ p_cleanup'[t] = p_cleanup[t]
        BY <1>7, <2>1, <2>2, Zenon DEF CancelInv, RestoredInv
      <4> QED
        BY <3>1, <4>1, Zenon DEF Restored
    <3> QED
      BY <3>2, <3>3, Zenon DEF RestoredInv
  <2> QED
    BY <2>3, <2>4, <2>5, Zenon DEF CancelInv
<1>9. ASSUME __pthread_perform_cleanup(self) PROVE CancelInv'
  <2>1. code[self] = "cleanup" /\ pc[self] = "walk"
    BY <1>9, Zenon DEF __pthread_perform_cleanup
  <2>2. p_cleanup' \in [Threads -> Seq(Buffer)] /\ \A t \in Threads \ {self} : p_cleanup'[t] = p_cleanup[t]
    <3>1. CASE c[self] \in 1 .. Len(buffers)
      BY <1>7, <1>9, <3>1 DEF __pthread_perform_cleanup
    <3>2. CASE c[self] > Len(buffers)
      BY <1>a, <1>9, <3>2 DEF __pthread_perform_cleanup, CancelInv, Typed
    <3> QED
      BY <1>a, <3>1, <3>2 DEF CancelInv, Typed
  <2>3. Typed'
    BY <1>9, <2>2, Zenon DEF CancelInv, Typed, __pthread_perform_cleanup, Goto, requestVars, modeVars, Exiting
  <2>4. CancelNoticed'
    BY <1>9, Zenon DEF CancelInv, Typed, CancelNoticed, __pthread_perform_cleanup, Goto, requestVars,
       modeVars, AsyncDue, CancelDue
  <2>5. RestoredInv'
    BY <1>9, <2>1, <2>2, Zenon DEF CancelInv, Typed, RestoredInv, Restored, __pthread_perform_cleanup, Goto, modeVars
  <2> QED
    BY <2>3, <2>4, <2>5, Zenon DEF CancelInv
<1>10. ASSUME handler_returns(self) PROVE CancelInv'
  <2>1. Typed'
    BY <1>10 DEF CancelInv, Typed, handler_returns, Goto, requestVars, modeVars
  <2>2. CancelNoticed'
    BY <1>10, Zenon DEF CancelInv, Typed, CancelNoticed, handler_returns, Goto, requestVars, modeVars,
       AsyncDue, CancelDue
  <2>3. RestoredInv'
    BY <1>10, Zenon DEF CancelInv, Typed, RestoredInv, Restored, handler_returns, Goto, modeVars
  <2> QED
    BY <2>1, <2>2, <2>3, Zenon DEF CancelInv
<1> QED
  BY <1>2, <1>3, <1>5, <1>6, <1>8, <1>9, <1>10, Zenon

\* Requests and their signal, and the loop over the keys.
LEMMA RequestsKeep ==
  ASSUME CancelInv, NEW self \in Threads,
         \/ pthread_cancel(self)
         \/ pthread_cancel_kill(self)
         \/ pthread_handle_sigcancel(self)
         \/ __pthread_destroy_specifics(self)
         \/ destructor_returns(self)
         \/ UNCHANGED cancelVars
  PROVE  CancelInv'
<1>1. ASSUME pthread_cancel(self) \/ pthread_cancel_kill(self) PROVE CancelInv'
  <2>1. Typed'
    BY <1>1, Zenon DEF CancelInv, Typed, pthread_cancel, pthread_cancel_kill, modeVars
  <2>2. CancelNoticed'
    BY <1>1, Zenon DEF CancelInv, Typed, CancelNoticed, pthread_cancel, pthread_cancel_kill, modeVars,
       AsyncDue, CancelDue
  <2>3. RestoredInv'
    BY <1>1, Zenon DEF CancelInv, Typed, RestoredInv, Restored, pthread_cancel, pthread_cancel_kill, modeVars
  <2> QED
    BY <2>1, <2>2, <2>3, Zenon DEF CancelInv
<1>2. ASSUME pthread_handle_sigcancel(self) PROVE CancelInv'
  <2>1. CASE pthread_exit(self)
    BY <1>2, <2>1, ExitKeeps, Zenon DEF pthread_handle_sigcancel
  <2>2. CASE ~AsyncDue(self) /\ UNCHANGED <<p_canceled, modeVars, p_cleanup, blocked, code, pc, oldtype, c>>
    <3>1. Typed'
      BY <2>2, Zenon DEF CancelInv, Typed, modeVars
    <3>2. CancelNoticed'
      BY <1>2, <2>2, Zenon DEF CancelInv, Typed, CancelNoticed, pthread_handle_sigcancel, modeVars,
         AsyncDue, CancelDue
    <3>3. RestoredInv'
      BY <2>2, Zenon DEF CancelInv, Typed, RestoredInv, Restored, modeVars
    <3> QED
      BY <3>1, <3>2, <3>3, Zenon DEF CancelInv
  <2> QED
    BY <1>2, <2>1, <2>2, Zenon DEF pthread_handle_sigcancel
<1>3. ASSUME __pthread_destroy_specifics(self) \/ destructor_returns(self) PROVE CancelInv'
  <2>1. Typed'
    BY <1>3, Zenon DEF CancelInv, Typed, __pthread_destroy_specifics, destructor_returns, Goto,
       requestVars, modeVars, Exiting
  <2>2. CancelNoticed'
    BY <1>3, Zenon DEF CancelInv, Typed, CancelNoticed, __pthread_destroy_specifics, destructor_returns,
       Goto, requestVars, modeVars, AsyncDue, CancelDue
  <2>3. RestoredInv'
    BY <1>3, Zenon DEF CancelInv, Typed, RestoredInv, Restored, __pthread_destroy_specifics,
       destructor_returns, Goto, modeVars
  <2> QED
    BY <2>1, <2>2, <2>3, Zenon DEF CancelInv
<1>4. ASSUME UNCHANGED cancelVars PROVE CancelInv'
  <2>1. Typed'
    BY <1>4, Zenon DEF CancelInv, Typed, cancelVars, modeVars, requestVars
  <2>2. CancelNoticed'
    BY <1>4, Zenon DEF CancelInv, CancelNoticed, AsyncDue, CancelDue, cancelVars, modeVars, requestVars
  <2>3. RestoredInv'
    BY <1>4, Zenon DEF CancelInv, RestoredInv, Restored, cancelVars, modeVars, requestVars
  <2> QED
    BY <2>1, <2>2, <2>3, Zenon DEF CancelInv
<1> QED
  BY <1>1, <1>2, <1>3, <1>4, Zenon

LEMMA CancelInvNext == CancelInv /\ [Next]_vars => CancelInv'
<1> SUFFICES ASSUME CancelInv, [Next]_vars PROVE CancelInv'
  BY Zenon
<1>1. CASE KeyCall
  <2>1. UNCHANGED cancelVars
    BY <1>1, Zenon DEF KeyCall, __pthread_key_create, pthread_key_delete
  <2>2. CASE Threads = {}
    BY <2>1, <2>2, Zenon DEF CancelInv, Typed, CancelNoticed, RestoredInv, cancelVars, requestVars, modeVars
  <2> QED
    BY <2>1, <2>2, RequestsKeep, Zenon
<1>2. ASSUME NEW self \in Threads, ProgramCall(self) PROVE CancelInv'
  <2>1. CASE \E key \in Keys, null \in BOOLEAN : __pthread_setspecific(self, key, null)
    BY <2>1, RequestsKeep, Zenon DEF __pthread_setspecific
  <2>2. CASE pthread_testcancel(self)
    BY <2>2, ExitKeeps, Zenon DEF pthread_testcancel
  <2> QED
    BY <1>2, <2>1, <2>2, ModesKeep, BuffersKeep, Zenon DEF ProgramCall, CancelCall
<1>3. ASSUME NEW self \in Threads, Request(self) PROVE CancelInv'
  BY <1>3, RequestsKeep, Zenon DEF Request
<1>4. ASSUME NEW self \in Threads, Ends(self) PROVE CancelInv'
  BY <1>4, ModesKeep, ExitKeeps, Zenon DEF Ends, call_pthread_exit
<1>5. ASSUME NEW self \in Threads, LibraryStep(self) PROVE CancelInv'
  BY <1>5, ModesKeep, BuffersKeep, RequestsKeep, Zenon DEF LibraryStep, CancelStep
<1>6. CASE UNCHANGED vars
  <2>1. UNCHANGED cancelVars
    BY <1>6, Zenon DEF vars
  <2>2. CASE Threads = {}
    BY <2>1, <2>2, Zenon DEF CancelInv, Typed, CancelNoticed, RestoredInv, cancelVars, requestVars, modeVars
  <2> QED
    BY <2>1, <2>2, RequestsKeep, Zenon
<1> QED
  BY <1>1, <1>2, <1>3, <1>4, <1>5, <1>6, Zenon DEF Next
-----------------------------------------------------------------------------
\* Whenever the handler of PTHREAD_SIG_CANCEL would end the thread at once, the
\* signal is still to come or the thread is about to test: setcancelstate,
\* setcanceltype, pop_restore and the system calls never lose a request.
THEOREM CancelNoticedHolds == Spec => []CancelNoticed
<1>1. CancelInv => CancelNoticed
  BY Zenon DEF CancelInv
<1> QED
  BY <1>1, CancelInvInit, CancelInvNext, PTL DEF Spec

\* The type in force in the program's own code is the one it asked for, and the
\* deferred one in a region.
THEOREM TypeRestoredHolds == Spec => []TypeRestored
<1>1. CancelInv => TypeRestored
  <2> SUFFICES ASSUME CancelInv, NEW t \in Threads, code[t] = "program",
                      pc[t] \in {"run", "test", "leave"}
               PROVE  p_canceltype[t] = IF InRegion(t) THEN PTHREAD_CANCEL_DEFERRED ELSE wanted[t]
    BY Zenon DEF TypeRestored
  <2>1. InRegion(t) <=> RegionFrom(p_cleanup[t], 1)
    BY DEF CancelInv, Typed, InRegion, RegionFrom
  <2> QED
    BY <2>1, Zenon DEF CancelInv, RestoredInv, Restored, Effective
<1> QED
  BY <1>1, CancelInvInit, CancelInvNext, PTL DEF Spec

\* In a region with deferred cancellation the signal ends the thread only in a
\* cancelable system call.
THEOREM RegionNotInterruptedHolds == Spec => RegionNotInterrupted
<1> DEFINE Kept == \A t \in Threads :
      InRegion(t) /\ code[t] = "program" /\ t \in blocked' \ blocked =>
        pc[t] \in {"enter", "syscall"}
<1>1. CancelInv /\ [Next]_vars => [Kept]_vars
  <2> SUFFICES ASSUME CancelInv, [Next]_vars, NEW t \in Threads, InRegion(t),
                      code[t] = "program", t \in blocked' \ blocked
               PROVE  pc[t] \in {"enter", "syscall"}
    BY Zenon
  <2>1. AsyncDue(t)
    <3>1. ASSUME NEW self \in Threads, pthread_handle_sigcancel(self) PROVE AsyncDue(t)
      BY <3>1, Zenon DEF pthread_handle_sigcancel
    <3> QED
      BY <3>1, Zenon DEF Next, vars, cancelVars, KeyCall, __pthread_key_create, pthread_key_delete,
         ProgramCall, __pthread_setspecific, CancelCall, Request, Ends, LibraryStep, CancelStep,
         pthread_setcancelstate, pthread_setcanceltype, pthread_testcancel, call_pthread_exit,
         _pthread_cleanup_push, _pthread_cleanup_push_defer, _pthread_cleanup_pop, Unlink,
         _pthread_cleanup_pop_execute, pop_unlinks, syscall, syscall_return, test_async,
         __pthread_perform_cleanup, handler_returns, pthread_cancel, pthread_cancel_kill,
         __pthread_destroy_specifics, destructor_returns
  <2>2. RegionFrom(p_cleanup[t], 1)
    BY DEF CancelInv, Typed, InRegion, RegionFrom
  <2>3. pc[t] \notin {"run", "test", "leave"}
    BY <2>1, <2>2, Zenon DEF CancelInv, RestoredInv, Restored, Effective, AsyncDue,
       PTHREAD_CANCEL_DEFERRED, PTHREAD_CANCEL_ASYNCHRONOUS
  <2> QED
    BY <2>3, Zenon DEF CancelInv, Typed, RestoredInv, Restored
<1> QED
  BY <1>1, CancelInvInit, CancelInvNext, PTL DEF Spec, RegionNotInterrupted
-----------------------------------------------------------------------------
(***************************************************************************)
(* The cleanup handlers of a thread that exits.  A thread is not cancelled *)
(* in pthread_exit, and what pop calls has no cancellation points: the     *)
(* violations of HandlersRunOnce without these conditions are the reason   *)
(* for them.                                                               *)
(***************************************************************************)

\* pthread_exit has reset the flag: a thread exits once.
NotCanceled(t) == code[t] \in Exiting => ~p_canceled[t]
ExitInv == \A t \in Threads : NotCanceled(t)

\* __pthread_perform_cleanup has called the handler of buffer n.
Called(t, n) == n < c[t] \/ (n = c[t] /\ pc[t] # "walk")

\* How often the handlers of t have run, wherever t is.  Only a handler that pop
\* was calling when the thread was cancelled, outside the regions, runs twice.
RunsOf(t) ==
  /\ code[t] = "pop" => pc[t] = "run"
  /\ \A n \in 1 .. Len(p_cleanup[t]) :
       LET buffer == p_cleanup[t][n] IN
       /\ code[t] = "program" => buffer.runs = 0
       /\ code[t] = "pop" => buffer.runs = IF n = 1 THEN 1 ELSE 0
       /\ code[t] = "cleanup" /\ Called(t, n) =>
            buffer.runs >= 1 /\ (buffer.defer => buffer.runs = 1)
       /\ code[t] = "cleanup" /\ ~Called(t, n) =>
            (buffer.defer \/ n # c[t] => buffer.runs = 0)
       /\ code[t] \in {"destroy", "exited"} =>
            buffer.runs >= 1 /\ (buffer.defer => buffer.runs = 1)

RunsInv == \A t \in Threads : RunsOf(t)

\* The other threads do not matter.
LEMMA RunsFrame ==
  ASSUME NEW t \in Threads, RunsOf(t),
         code'[t] = code[t], pc'[t] = pc[t], c'[t] = c[t],
         p_cleanup'[t] = p_cleanup[t], p_canceled'[t] = p_canceled[t]
  PROVE  RunsOf(t)'
  BY Zenon DEF RunsOf, Called

\* Nor does where in its code a thread is, outside the loop of
\* __pthread_perform_cleanup.
LEMMA RunsMoves ==
  ASSUME NEW t \in Threads, RunsOf(t),
         code'[t] = code[t], pc[t] # "walk", pc'[t] # "walk", c'[t] = c[t],
         p_cleanup'[t] = p_cleanup[t], p_canceled'[t] = p_canceled[t], code[t] # "pop"
  PROVE  RunsOf(t)'
  BY Zenon DEF RunsOf, Called

\* pthread_exit, called by the program or out of a handler that pop calls.
LEMMA RunsExit ==
  ASSUME CancelInv, NEW t \in Threads, RunsOf(t), pthread_exit(t),
         code[t] \in {"program", "pop"},
         code[t] = "pop" => ~RegionFrom(p_cleanup[t], 1)
  PROVE  RunsOf(t)'
<1>1. /\ code'[t] = "cleanup" /\ pc'[t] = "walk" /\ c'[t] = 1
      /\ p_cleanup'[t] = p_cleanup[t] /\ p_canceled'[t] = FALSE
  BY Zenon DEF pthread_exit, Goto, CancelInv, Typed
<1>2. ASSUME NEW n \in 1 .. Len(p_cleanup[t])
      PROVE  /\ ~Called(t, n)'
             /\ p_cleanup[t][n].defer \/ n # 1 => p_cleanup[t][n].runs = 0
  <2>1. p_cleanup[t] \in Seq(Buffer) /\ p_cleanup[t][n] \in Buffer
    BY DEF CancelInv, Typed
  <2>2. code[t] = "pop" => ~p_cleanup[t][n].defer
    BY <2>1, Zenon DEF RegionFrom
  <2> QED
    BY <1>1, <2>1, <2>2 DEF Called, RunsOf
<1> QED
  BY <1>1, <1>2, Zenon DEF RunsOf

\* One more call of handler n.
LEMMA RunsCount ==
  ASSUME NEW s \in Seq(Buffer), NEW n \in 1 .. Len(s)
  PROVE  LET r == [s EXCEPT ![n].runs = @ + 1] IN
         /\ Len(r) = Len(s)
         /\ \A m \in 1 .. Len(s) : /\ r[m].defer = s[m].defer
                                   /\ r[m].runs = IF m = n THEN s[m].runs + 1 ELSE s[m].runs
                                   /\ s[m].runs \in Nat
<1> DEFINE b == [s[n] EXCEPT !.runs = @ + 1]
           r == [s EXCEPT ![n].runs = @ + 1]
<1>1. \A m \in 1 .. Len(s) : s[m] \in Buffer
  OBVIOUS
<1>2. b.defer = s[n].defer /\ b.runs = s[n].runs + 1
  BY <1>1, Zenon DEF Buffer
<1>3. r = [s EXCEPT ![n] = b]
  BY Zenon
<1>4. \A m \in 1 .. Len(s) : s[m].runs \in Nat
  BY <1>1, Zenon DEF Buffer
<1> HIDE DEF b
<1>5. Len(r) = Len(s) /\ \A m \in 1 .. Len(s) : r[m] = IF m = n THEN b ELSE s[m]
  BY <1>3
<1> HIDE DEF r
<1>6. \A m \in 1 .. Len(s) : /\ r[m].defer = s[m].defer
                             /\ r[m].runs = IF m = n THEN s[m].runs + 1 ELSE s[m].runs
  BY <1>2, <1>5, Zenon
<1> QED
  BY <1>4, <1>5, <1>6, Zenon DEF r

\* What the program calls, and the system calls.
LEMMA CallRuns ==
  ASSUME CancelInv, NEW self \in Threads, RunsOf(self), NotCanceled(self),
         "pop" \notin HandlerCalls, CancelCall(self)
  PROVE  RunsOf(self)'
<1> DEFINE s == p_cleanup[self]
<1>a. s \in Seq(Buffer) /\ \A n \in 1 .. Len(s) : s[n] \in Buffer
  BY DEF CancelInv, Typed
<1>1. ASSUME NEW state \in States, pthread_setcancelstate(self, state) PROVE RunsOf(self)'
  BY <1>1, RunsMoves, Zenon DEF pthread_setcancelstate, InProgram, Goto, requestVars, CancelInv, Typed
<1>2. ASSUME NEW type \in Types, pthread_setcanceltype(self, type) PROVE RunsOf(self)'
  BY <1>2, RunsMoves, Zenon DEF pthread_setcanceltype, InProgram, Goto, requestVars, CancelInv, Typed
<1>3. CASE pthread_testcancel(self)
  <2>1. code[self] = "program"
    <3>1. code[self] \notin Exiting
      BY <1>3, Zenon DEF pthread_testcancel, CancelDue, NotCanceled
    <3> QED
      BY <1>3, <3>1, CancelAssumption, Zenon DEF pthread_testcancel, Exiting
  <2> QED
    BY <1>3, <2>1, RunsExit, Zenon DEF pthread_testcancel
<1>4. ASSUME NEW defer \in BOOLEAN, InProgram(self),
             p_cleanup' = [p_cleanup EXCEPT ![self] = Pushed(self, defer)],
             UNCHANGED <<p_canceled, code, pc, c>>
      PROVE  RunsOf(self)'
  <2> DEFINE b == [defer |-> defer, canceltype |-> p_canceltype[self], runs |-> 0]
  <2>1. b \in Buffer /\ b.runs = 0
    BY Zenon DEF CancelInv, Typed, Buffer
  <2>2. p_cleanup'[self] = <<b>> \o s
    BY <1>4, Zenon DEF Pushed, CancelInv, Typed
  <2> HIDE DEF b
  <2>3. \A n \in 1 .. Len(s) : s[n].runs = 0
    BY <1>4, Zenon DEF RunsOf, InProgram
  <2>4. \A n \in 1 .. Len(<<b>> \o s) : (<<b>> \o s)[n].runs = 0
    <3>1. Len(<<b>> \o s) = Len(s) + 1
      BY <1>a, <2>1
    <3>2. ASSUME NEW n \in 1 .. Len(s) + 1 PROVE (<<b>> \o s)[n] = IF n = 1 THEN b ELSE s[n - 1]
      BY <1>a, <2>1
    <3> HIDE DEF s
    <3>3. ASSUME NEW n \in 1 .. Len(s) + 1 PROVE (<<b>> \o s)[n].runs = 0
      <4>1. CASE n = 1
        BY <2>1, <3>2, <4>1, Zenon
      <4>2. CASE n # 1
        <5>1. n - 1 \in 1 .. Len(s)
          BY <1>a, <4>2
        <5> QED
          BY <2>3, <3>2, <4>2, <5>1, Zenon
      <4> QED
        BY <4>1, <4>2, Zenon
    <3> QED
      BY <3>1, <3>3, Zenon
  <2> QED
    BY <1>4, <2>2, <2>4, Zenon DEF RunsOf, InProgram, Exiting
<1>5. CASE _pthread_cleanup_push(self) \/ _pthread_cleanup_push_defer(self)
  BY <1>4, <1>5, Zenon DEF _pthread_cleanup_push, _pthread_cleanup_push_defer, requestVars
<1>6. CASE _pthread_cleanup_pop(self)
  <2>1. /\ p_cleanup'[self] = Tail(s) /\ code'[self] = "program" /\ pc'[self] \in {"test", "run"}
    BY <1>6, Zenon DEF _pthread_cleanup_pop, Unlink, Goto, CancelInv, Typed
  <2>2. \A n \in 1 .. Len(s) : s[n].runs = 0
    BY <1>6, Zenon DEF RunsOf, InProgram, _pthread_cleanup_pop
  <2>3. \A n \in 1 .. Len(Tail(s)) : Tail(s)[n].runs = 0
    <3>1. s # <<>>
      BY <1>6, Zenon DEF _pthread_cleanup_pop
    <3>2. \A n \in 1 .. Len(Tail(s)) : Tail(s)[n] = s[n + 1] /\ n + 1 \in 1 .. Len(s)
      BY <1>a, <3>1
    <3> QED
      BY <2>2, <3>2, Zenon
  <2> QED
    BY <2>1, <2>3, Zenon DEF RunsOf, Exiting
<1>7. CASE _pthread_cleanup_pop_execute(self)
  <2>1. 1 \in 1 .. Len(s)
    BY <1>7, <1>a DEF _pthread_cleanup_pop_execute
  <2> DEFINE r == [s EXCEPT ![1].runs = @ + 1]
  <2>2. p_cleanup'[self] = r /\ code'[self] = "pop" /\ pc'[self] = "run"
    BY <1>7, Zenon DEF _pthread_cleanup_pop_execute, InProgram, CancelInv, Typed
  <2>3. /\ Len(r) = Len(s)
        /\ \A m \in 1 .. Len(s) : r[m].runs = IF m = 1 THEN s[m].runs + 1 ELSE s[m].runs
    BY <1>a, <2>1, RunsCount
  <2>4. \A n \in 1 .. Len(s) : s[n].runs = 0
    BY <1>7, Zenon DEF RunsOf, InProgram, _pthread_cleanup_pop_execute
  <2> HIDE DEF r
  <2> QED
    BY <2>2, <2>3, <2>4 DEF RunsOf, Exiting
<1>8. CASE syscall(self)
  BY <1>8, RunsMoves, CancelAssumption, Zenon DEF syscall, Goto, requestVars, CancelInv, Typed
<1> QED
  BY <1>1, <1>2, <1>3, <1>5, <1>6, <1>7, <1>8, Zenon DEF CancelCall

\* What the library does: the loop of __pthread_perform_cleanup, the tests and the
\* handler of PTHREAD_SIG_CANCEL.
LEMMA StepRuns ==
  ASSUME CancelInv, NEW self \in Threads, RunsOf(self), NotCanceled(self), CancelStep(self)
  PROVE  RunsOf(self)'
<1> DEFINE s == p_cleanup[self]
<1>a. /\ s \in Seq(Buffer) /\ \A n \in 1 .. Len(s) : s[n] \in Buffer
      /\ c[self] \in Nat \ {0}
  BY DEF CancelInv, Typed
<1>1. CASE __pthread_perform_cleanup(self)
  <2>1. code[self] = "cleanup" /\ pc[self] = "walk"
    BY <1>1, Zenon DEF __pthread_perform_cleanup
  <2>2. CASE c[self] <= Len(s)
    <3> DEFINE n == c[self]
               r == [s EXCEPT ![n].runs = @ + 1]
    <3>1. n \in 1 .. Len(s)
      BY <1>a, <2>2
    <3>2. /\ p_cleanup'[self] = r /\ pc'[self] = "run" /\ code'[self] = "cleanup"
          /\ c'[self] = n /\ p_canceled'[self] = p_canceled[self]
      BY <1>1, <2>1, <2>2, Zenon DEF __pthread_perform_cleanup, Goto, requestVars, CancelInv, Typed
    <3>3. /\ Len(r) = Len(s)
          /\ \A m \in 1 .. Len(s) : /\ r[m].defer = s[m].defer
                                    /\ r[m].runs = IF m = n THEN s[m].runs + 1 ELSE s[m].runs
                                    /\ s[m].runs \in Nat
      BY <1>a, <3>1, RunsCount, Zenon
    <3> HIDE DEF r
    <3>4. ASSUME NEW m \in 1 .. Len(s)
          PROVE  /\ Called(self, m)' => r[m].runs >= 1 /\ (r[m].defer => r[m].runs = 1)
                 /\ ~Called(self, m)' => (r[m].defer \/ m # n => r[m].runs = 0)
      <4>1. CASE m = n
        <5>1. ~Called(self, m) /\ Called(self, m)'
          BY <2>1, <3>2, <4>1 DEF Called
        <5>2. s[m].defer => s[m].runs = 0
          BY <2>1, <5>1, Zenon DEF RunsOf
        <5> QED
          BY <3>3, <4>1, <5>1, <5>2
      <4>2. CASE m # n
        <5>1. Called(self, m)' <=> Called(self, m)
          BY <3>2, <4>2, Zenon DEF Called
        <5> QED
          BY <2>1, <3>3, <4>2, <5>1, Zenon DEF RunsOf
      <4> QED
        BY <4>1, <4>2, Zenon
    <3> QED
      BY <3>2, <3>3, <3>4, Zenon DEF RunsOf
  <2>3. CASE ~(c[self] <= Len(s))
    <3>1. /\ p_cleanup'[self] = s /\ code'[self] = "destroy" /\ p_canceled'[self] = p_canceled[self]
      BY <1>1, <2>1, <2>3, Zenon DEF __pthread_perform_cleanup, requestVars, CancelInv, Typed
    <3>2. \A n \in 1 .. Len(s) : Called(self, n)
      BY <1>a, <2>3 DEF Called
    <3> QED
      BY <2>1, <3>1, <3>2, Zenon DEF RunsOf, Exiting
  <2> QED
    BY <2>2, <2>3, Zenon
<1>2. CASE handler_returns(self)
  <2>1. /\ code[self] = "cleanup" /\ pc[self] = "run" /\ c'[self] = c[self] + 1 /\ pc'[self] = "walk"
        /\ p_cleanup'[self] = s /\ code'[self] = "cleanup" /\ p_canceled'[self] = p_canceled[self]
    BY <1>2, Zenon DEF handler_returns, Goto, requestVars, CancelInv, Typed
  <2>2. \A n \in 1 .. Len(s) : Called(self, n)' <=> Called(self, n)
    BY <1>a, <2>1 DEF Called
  <2>3. \A n \in 1 .. Len(s) : ~Called(self, n) => n # c[self]
    BY <1>a, <2>1, Zenon DEF Called
  <2> QED
    BY <2>1, <2>2, <2>3, Zenon DEF RunsOf
<1>3. CASE pop_unlinks(self)
  <2>1. /\ p_cleanup'[self] = Tail(s) /\ code'[self] = "program" /\ pc'[self] \in {"test", "run"}
    BY <1>3, Zenon DEF pop_unlinks, Unlink, Goto, CancelInv, Typed
  <2>2. s # <<>> /\ \A n \in 1 .. Len(s) : s[n].runs = IF n = 1 THEN 1 ELSE 0
    BY <1>3, Zenon DEF RunsOf, pop_unlinks, CancelInv, RestoredInv, Restored
  <2>3. \A n \in 1 .. Len(Tail(s)) : Tail(s)[n].runs = 0
    <3>1. \A n \in 1 .. Len(Tail(s)) : Tail(s)[n] = s[n + 1] /\ n + 1 \in 1 .. Len(s) /\ n + 1 # 1
      BY <1>a, <2>2
    <3> QED
      BY <2>2, <3>1, Zenon
  <2> QED
    BY <2>1, <2>3, Zenon DEF RunsOf, Exiting
<1>4. CASE test_async(self)
  <2>1. pc[self] \in {"test", "enter", "leave"} /\ code[self] # "pop"
    BY <1>4, Zenon DEF test_async, RunsOf
  <2>2. CASE AsyncDue(self) /\ pthread_exit(self)
    <3>1. code[self] = "program"
      BY <2>1, <2>2, Zenon DEF AsyncDue, CancelDue, NotCanceled, Exiting, CancelInv, Typed
    <3> QED
      BY <2>2, <3>1, RunsExit, Zenon
  <2>3. CASE /\ Goto(self, IF pc[self] = "enter" THEN "syscall" ELSE "run")
             /\ UNCHANGED <<requestVars, modeVars, p_cleanup, blocked, code, oldtype, c>>
    BY <2>1, <2>3, RunsMoves, Zenon DEF Goto, requestVars, CancelInv, Typed
  <2> QED
    BY <1>4, <2>2, <2>3, Zenon DEF test_async
<1>5. CASE pthread_cancel_kill(self)
  BY <1>5, RunsFrame, Zenon DEF pthread_cancel_kill
<1>6. CASE pthread_handle_sigcancel(self)
  <2>1. CASE AsyncDue(self) /\ pthread_exit(self)
    <3>1. code[self] \in {"program", "pop"}
      BY <2>1, Zenon DEF AsyncDue, CancelDue, NotCanceled, Exiting, CancelInv, Typed
    <3>2. code[self] = "pop" => ~RegionFrom(p_cleanup[self], 1)
      BY <2>1, Zenon DEF AsyncDue, RunsOf, CancelInv, RestoredInv, Restored, Effective,
         PTHREAD_CANCEL_DEFERRED, PTHREAD_CANCEL_ASYNCHRONOUS
    <3> QED
      BY <2>1, <3>1, <3>2, RunsExit, Zenon
  <2>2. CASE UNCHANGED <<p_canceled, modeVars, p_cleanup, blocked, code, pc, oldtype, c>>
    BY <2>2, RunsFrame, Zenon
  <2> QED
    BY <1>6, <2>1, <2>2, Zenon DEF pthread_handle_sigcancel
<1> QED
  BY <1>1, <1>2, <1>3, <1>4, <1>5, <1>6, Zenon DEF CancelStep

\* A step of self changes nothing that RunsOf says of another thread.
LEMMA OthersKeep ==
  ASSUME CancelInv, NEW self \in Threads,
         ProgramCall(self) \/ Request(self) \/ Ends(self) \/ LibraryStep(self)
  PROVE  \A t \in Threads \ {self} :
           /\ code'[t] = code[t] /\ pc'[t] = pc[t] /\ c'[t] = c[t]
           /\ p_cleanup'[t] = p_cleanup[t] /\ p_canceled'[t] = p_canceled[t]
<1> USE DEF CancelInv, Typed, Goto, requestVars, cancelVars
<1>1. CASE ProgramCall(self)
  BY <1>1, Zenon DEF ProgramCall, CancelCall, __pthread_setspecific, pthread_setcancelstate,
     pthread_setcanceltype, pthread_testcancel, pthread_exit, _pthread_cleanup_push,
     _pthread_cleanup_push_defer, _pthread_cleanup_pop, Unlink, _pthread_cleanup_pop_execute, syscall
<1>2. CASE Request(self) \/ Ends(self)
  BY <1>2, Zenon DEF Request, Ends, pthread_cancel, syscall_return, call_pthread_exit, pthread_exit
<1>3. CASE LibraryStep(self)
  BY <1>3, Zenon DEF LibraryStep, CancelStep, __pthread_perform_cleanup, handler_returns, pop_unlinks,
     Unlink, test_async, pthread_exit, pthread_cancel_kill, pthread_handle_sigcancel,
     __pthread_destroy_specifics, destructor_returns
<1> QED
  BY <1>1, <1>2, <1>3, Zenon

LEMMA ExitInvInit == Init => ExitInv
  BY Zenon DEF Init, CancelInit, ExitInv, NotCanceled

LEMMA ExitInvNext ==
  ASSUME ~CancelsExiting, CancelInv, ExitInv, [Next]_vars
  PROVE  ExitInv'
<1> USE DEF CancelInv, Typed, Goto, requestVars, cancelVars, ExitInv, NotCanceled
<1>1. ASSUME UNCHANGED cancelVars PROVE ExitInv'
  BY <1>1, Zenon
<1>2. ASSUME NEW self \in Threads,
             ProgramCall(self) \/ Request(self) \/ Ends(self) \/ LibraryStep(self)
      PROVE  ExitInv'
  <2>1. NotCanceled(self)'
    <3>1. CASE ProgramCall(self)
      BY <3>1, Zenon DEF ProgramCall, CancelCall, __pthread_setspecific, pthread_setcancelstate,
         pthread_setcanceltype, pthread_testcancel, pthread_exit, _pthread_cleanup_push,
         _pthread_cleanup_push_defer, _pthread_cleanup_pop, Unlink, _pthread_cleanup_pop_execute,
         syscall, Exiting
    <3>2. CASE Request(self) \/ Ends(self)
      BY <3>2, Zenon DEF Request, Ends, pthread_cancel, syscall_return, call_pthread_exit, pthread_exit
    <3>3. CASE __pthread_perform_cleanup(self) \/ handler_returns(self)
      BY <3>3, Zenon DEF __pthread_perform_cleanup, handler_returns, Exiting
    <3>4. CASE pop_unlinks(self) \/ test_async(self)
      BY <3>4, Zenon DEF pop_unlinks, Unlink, test_async, pthread_exit, Exiting
    <3>5. CASE pthread_cancel_kill(self) \/ pthread_handle_sigcancel(self)
      BY <3>5, Zenon DEF pthread_cancel_kill, pthread_handle_sigcancel, pthread_exit
    <3>6. CASE __pthread_destroy_specifics(self) \/ destructor_returns(self)
      BY <3>6, Zenon DEF __pthread_destroy_specifics, destructor_returns, Exiting
    <3> QED
      BY <1>2, <3>1, <3>2, <3>3, <3>4, <3>5, <3>6, Zenon DEF LibraryStep, CancelStep
  <2> QED
    BY <1>2, <2>1, OthersKeep, Zenon
<1> QED
  BY <1>1, <1>2, Zenon DEF Next, KeyCall, __pthread_key_create, pthread_key_delete, vars

LEMMA RunsInvNext ==
  ASSUME "pop" \notin HandlerCalls, CancelInv, ExitInv, RunsInv, [Next]_vars
  PROVE  RunsInv'
<1>1. ASSUME UNCHANGED cancelVars PROVE RunsInv'
  BY <1>1, RunsFrame, Zenon DEF RunsInv, cancelVars, requestVars
<1>2. ASSUME NEW self \in Threads,
             ProgramCall(self) \/ Request(self) \/ Ends(self) \/ LibraryStep(self)
      PROVE  RunsInv'
  <2>1. RunsOf(self)'
    <3>1. RunsOf(self) /\ NotCanceled(self)
      BY Zenon DEF RunsInv, ExitInv
    <3>2. CASE ProgramCall(self)
      BY <3>1, <3>2, CallRuns, RunsFrame, Zenon DEF ProgramCall, __pthread_setspecific, cancelVars, requestVars
    <3>3. CASE Request(self)
      BY <3>1, <3>3, Zenon DEF Request, pthread_cancel, RunsOf, Called
    <3>4. CASE Ends(self)
      <4>1. CASE syscall_return(self)
        BY <3>1, <4>1, RunsMoves, Zenon DEF syscall_return, Goto, requestVars, RunsOf, CancelInv, Typed
      <4>2. CASE call_pthread_exit(self)
        BY <3>1, <4>2, RunsExit, Zenon DEF call_pthread_exit, InProgram
      <4> QED
        BY <3>4, <4>1, <4>2, Zenon DEF Ends
    <3>5. CASE LibraryStep(self)
      <4>1. CASE __pthread_destroy_specifics(self) \/ destructor_returns(self)
        <5>1. /\ code[self] = "destroy" /\ code'[self] \in {"destroy", "exited"}
              /\ p_cleanup' = p_cleanup /\ p_canceled' = p_canceled
          BY <4>1, Zenon DEF __pthread_destroy_specifics, destructor_returns, requestVars, CancelInv, Typed
        <5> QED
          BY <3>1, <5>1, Zenon DEF RunsOf, Exiting
      <4> QED
        BY <3>1, <3>5, <4>1, StepRuns, Zenon DEF LibraryStep
    <3> QED
      BY <1>2, <3>2, <3>3, <3>4, <3>5, Zenon
  <2>2. ASSUME NEW t \in Threads \ {self} PROVE RunsOf(t)'
    BY <1>2, OthersKeep, RunsFrame, Zenon DEF RunsInv
  <2> QED
    BY <2>1, <2>2, Zenon DEF RunsInv
<1> QED
  BY <1>1, <1>2, Zenon DEF Next, KeyCall, __pthread_key_create, pthread_key_delete, vars

\* The handlers of a thread that exits run from the last one pushed to the first,
\* those of the regions once, for any number of handlers and of threads; as long
\* as threads are not cancelled in pthread_exit or at cancellation points of
\* handlers that _pthread_cleanup_pop calls.
THEOREM HandlersRunOnceHolds ==
  ASSUME ~CancelsExiting, "pop" \notin HandlerCalls
  PROVE  Spec => []HandlersRunOnce
<1>1. Init => RunsInv
  <2> SUFFICES ASSUME Init, NEW t \in Threads PROVE RunsOf(t)
    BY Zenon DEF RunsInv
  <2>1. code[t] = "program" /\ p_cleanup[t] = <<>>
    BY Zenon DEF Init, CancelInit
  <2>2. 1 .. Len(p_cleanup[t]) = {}
    BY <2>1
  <2> QED
    BY <2>1, <2>2, Zenon DEF RunsOf
<1>2. CancelInv /\ RunsInv => HandlersRunOnce
  <2> SUFFICES ASSUME CancelInv, RunsInv, NEW t \in Threads, NEW n \in DOMAIN p_cleanup[t]
               PROVE  LET buffer == p_cleanup[t][n] IN
                      /\ buffer.defer => buffer.runs <= 1
                      /\ code[t] \in {"destroy", "exited"} => buffer.runs >= 1
                      /\ code[t] = "cleanup" /\ n < c[t] => buffer.runs >= 1
                      /\ code[t] = "cleanup" /\ n > c[t] => buffer.runs = 0
    BY Zenon DEF HandlersRunOnce
  <2>1. n \in 1 .. Len(p_cleanup[t]) /\ p_cleanup[t][n] \in Buffer /\ c[t] \in Nat
        /\ code[t] \in {"program", "pop", "cleanup", "destroy", "exited"}
    BY DEF CancelInv, Typed, Exiting
  <2> QED
    BY <2>1 DEF RunsInv, RunsOf, Called
<1>3. CancelInv /\ ExitInv /\ RunsInv /\ [Next]_vars => CancelInv' /\ ExitInv' /\ RunsInv'
  BY CancelInvNext, ExitInvNext, RunsInvNext, Zenon
<1> QED
  BY <1>1, <1>2, <1>3, CancelInvInit, ExitInvInit, PTL DEF Spec
-----------------------------------------------------------------------------
(***************************************************************************)
(* The thread-specific values of a thread that exits.  Keys are not        *)
(* deleted while threads that have not exited have values for them.        *)
(***************************************************************************)
DataTyped ==
  /\ pthread_keys \in [Keys -> [in_use : BOOLEAN, destr : Destructors \cup {NULL}]]
  /\ p_specific \in [Threads -> [Keys -> Value \cup {NULL}]]
  /\ i \in [Threads -> Nat]

\* __pthread_destroy_specifics is past the call for key.
Past(t, key) ==
  \/ code[t] = "exited"
  \/ code[t] = "destroy" /\ (key < i[t] \/ (key = i[t] /\ pc[t] # "walk"))

\* Every value belongs to a key in use, and its destructor has been called as
\* often as the loop of its thread has come to it.
ValuesOf(t) ==
  \A key \in Keys :
    LET v == p_specific[t][key] IN
    v # NULL =>
      /\ code[t] # "exited" => pthread_keys[key].in_use /\ v.destr = pthread_keys[key].destr
      /\ v.by = IF Past(t, key) /\ v.destr # NULL THEN <<v.destr>> ELSE <<>>

ValuesInv == DataTyped /\ \A t \in Threads : ValuesOf(t)

LEMMA ValuesInvInit == Init => ValuesInv
<1> SUFFICES ASSUME Init PROVE ValuesInv
  BY Zenon
<1>1. DataTyped
  BY Zenon DEF Init, SpecificInit, DataTyped
<1>2. \A t \in Threads : ValuesOf(t)
  BY Zenon DEF Init, SpecificInit, ValuesOf
<1> QED
  BY <1>1, <1>2, Zenon DEF ValuesInv

\* The values of a thread whose loop stands still.
LEMMA ValuesFrame ==
  ASSUME NEW t \in Threads, ValuesOf(t), pthread_keys' = pthread_keys,
         p_specific'[t] = p_specific[t], code'[t] = "exited" <=> code[t] = "exited",
         \A key \in Keys : Past(t, key)' <=> Past(t, key)
  PROVE  ValuesOf(t)'
  BY Zenon DEF ValuesOf, Keys

\* How far the loop of a thread is, after a step that is not one of the loop:
\* nothing of Cancel takes a thread out of it.
LEMMA LoopKept ==
  ASSUME CancelInv, NEW self \in Threads, NotCanceled(self),
         CancelCall(self) \/ pthread_cancel(self) \/ syscall_return(self)
           \/ call_pthread_exit(self) \/ CancelStep(self)
  PROVE  \/ code[self] \notin {"destroy", "exited"} /\ code'[self] \notin {"destroy", "exited"}
         \/ code[self] = code'[self] /\ (pc[self] = "walk" <=> pc'[self] = "walk")
         \/ code[self] = "cleanup" /\ code'[self] = "destroy" /\ pc'[self] = "walk"
<1> USE DEF CancelInv, Typed, Goto, NotCanceled, CancelDue, AsyncDue, Exiting
<1>1. CASE CancelCall(self)
  BY <1>1, Zenon DEF CancelCall, pthread_setcancelstate, InProgram,
     pthread_setcanceltype, pthread_testcancel, pthread_exit, _pthread_cleanup_push,
     _pthread_cleanup_push_defer, _pthread_cleanup_pop, Unlink, _pthread_cleanup_pop_execute, syscall
<1>2. CASE pthread_cancel(self) \/ syscall_return(self) \/ call_pthread_exit(self)
  BY <1>2, Zenon DEF pthread_cancel, syscall_return, call_pthread_exit, pthread_exit, InProgram
<1>3. CASE __pthread_perform_cleanup(self) \/ handler_returns(self) \/ pop_unlinks(self)
  BY <1>3, Zenon DEF __pthread_perform_cleanup, handler_returns, pop_unlinks, Unlink
<1>4. CASE test_async(self)
  BY <1>4, Zenon DEF test_async, pthread_exit
<1>5. CASE pthread_cancel_kill(self) \/ pthread_handle_sigcancel(self)
  BY <1>5, Zenon DEF pthread_cancel_kill, pthread_handle_sigcancel, pthread_exit
<1> QED
  BY <1>1, <1>2, <1>3, <1>4, <1>5, Zenon DEF CancelStep

LEMMA KeysValues ==
  ASSUME CancelInv, ~Reuses, ValuesInv, KeyCall
  PROVE  ValuesInv'
<1>1. \A t \in Threads, key \in Keys : Past(t, key)' <=> Past(t, key)
  BY Zenon DEF KeyCall, __pthread_key_create, pthread_key_delete, cancelVars, dataVars, Past
<1>2. ASSUME NEW destr_function \in Destructors \cup {NULL}, NEW key \in Keys,
             ~pthread_keys[key].in_use, UNCHANGED <<dataVars, cancelVars>>,
             pthread_keys' = [pthread_keys EXCEPT ![key] = [in_use |-> TRUE, destr |-> destr_function]]
      PROVE  ValuesInv'
  <2>1. DataTyped'
    BY <1>2, Zenon DEF ValuesInv, DataTyped, dataVars
  <2>2. ASSUME NEW t \in Threads, NEW k \in Keys, p_specific[t][k] # NULL, code[t] # "exited"
        PROVE  pthread_keys'[k] = pthread_keys[k]
    BY <1>2, <2>2, Zenon DEF ValuesInv, ValuesOf, DataTyped
  <2> QED
    BY <1>1, <1>2, <2>1, <2>2 DEF ValuesInv, ValuesOf, dataVars, cancelVars
<1>3. ASSUME NEW key \in Keys, pthread_key_delete(key) PROVE ValuesInv'
  <2>1. DataTyped'
    BY <1>3, Zenon DEF ValuesInv, DataTyped, dataVars, pthread_key_delete
  <2>2. ASSUME NEW t \in Threads, NEW k \in Keys, p_specific[t][k] # NULL, code[t] # "exited"
        PROVE  pthread_keys'[k] = pthread_keys[k]
    BY <1>3, <2>2, Zenon DEF pthread_key_delete, ValuesInv, DataTyped
  <2> QED
    BY <1>1, <1>3, <2>1, <2>2 DEF ValuesInv, ValuesOf, dataVars, cancelVars, pthread_key_delete
<1> QED
  BY <1>2, <1>3, Zenon DEF KeyCall, __pthread_key_create

\* A step of Cancel.
LEMMA CancelValues ==
  ASSUME CancelInv, ValuesInv, NEW self \in Threads, NotCanceled(self),
         \/ /\ CancelCall(self) \/ pthread_cancel(self) \/ syscall_return(self)
                 \/ call_pthread_exit(self)
            /\ UNCHANGED specificVars
         \/ /\ CancelStep(self)
            /\ IF code[self] # "destroy" /\ code'[self] = "destroy"
               THEN destroy_begin(self) ELSE UNCHANGED specificVars
  PROVE  DataTyped' /\ ValuesOf(self)'
<1>1. /\ pthread_keys' = pthread_keys /\ p_specific' = p_specific
      /\ i' = i \/ (code[self] # "destroy" /\ code'[self] = "destroy" /\ i' = [i EXCEPT ![self] = 0])
  BY Zenon DEF specificVars, keyVars, dataVars, destroy_begin
<1>2. DataTyped'
  BY <1>1 DEF ValuesInv, DataTyped
<1>3. ValuesOf(self)
  BY Zenon DEF ValuesInv
<1>4. CASE code[self] \notin {"destroy", "exited"} /\ code'[self] \notin {"destroy", "exited"}
  <2>1. \A key \in Keys : ~Past(self, key)' /\ ~Past(self, key)
    BY <1>4, Zenon DEF Past
  <2>2. code'[self] = "exited" <=> code[self] = "exited"
    BY <1>4, Zenon
  <2> QED
    BY <1>1, <1>2, <1>3, <2>1, <2>2, ValuesFrame, Zenon
<1>5. CASE code[self] = code'[self] /\ (pc[self] = "walk" <=> pc'[self] = "walk")
  <2>1. i'[self] = i[self]
    BY <1>1, <1>5, Zenon
  <2>2. \A key \in Keys : Past(self, key)' <=> Past(self, key)
    BY <1>5, <2>1, Zenon DEF Past
  <2>3. code'[self] = "exited" <=> code[self] = "exited"
    BY <1>5, Zenon
  <2> QED
    BY <1>1, <1>2, <1>3, <2>2, <2>3, ValuesFrame, Zenon
<1>6. CASE code[self] = "cleanup" /\ code'[self] = "destroy" /\ pc'[self] = "walk"
  <2>1. i'[self] = 0
    <3>1. CASE IF code[self] # "destroy" /\ code'[self] = "destroy"
               THEN destroy_begin(self) ELSE UNCHANGED specificVars
      BY <1>6, <3>1, Zenon DEF ValuesInv, DataTyped, destroy_begin
    <3>2. CASE CancelCall(self) \/ pthread_cancel(self) \/ syscall_return(self)
                 \/ call_pthread_exit(self)
      BY <1>6, <3>2, Zenon DEF CancelInv, Typed, Goto, Exiting, NotCanceled, CancelDue, AsyncDue,
         CancelCall, pthread_setcancelstate, InProgram,
         pthread_setcanceltype, pthread_testcancel, pthread_exit, _pthread_cleanup_push,
         _pthread_cleanup_push_defer, _pthread_cleanup_pop, Unlink, _pthread_cleanup_pop_execute,
         syscall, pthread_cancel, syscall_return, call_pthread_exit
    <3> QED
      BY <3>1, <3>2, Zenon
  <2>2. \A key \in Keys : ~Past(self, key)' /\ ~Past(self, key)
    BY <1>6, <2>1, SpecificAssumption DEF Past, Keys
  <2> QED
    <3>1. code'[self] = "exited" <=> code[self] = "exited"
      BY <1>6, Zenon
    <3> QED
      BY <1>1, <1>2, <1>3, <2>2, <3>1, ValuesFrame, Zenon
<1> QED
  BY <1>2, <1>4, <1>5, <1>6, LoopKept, Zenon

LEMMA SetValues ==
  ASSUME CancelInv, ValuesInv, NEW self \in Threads, NEW key \in Keys, NEW null \in BOOLEAN,
         __pthread_setspecific(self, key, null)
  PROVE  DataTyped' /\ ValuesOf(self)'
<1> DEFINE new == IF null THEN NULL ELSE [destr |-> pthread_keys[key].destr, by |-> <<>>]
<1>1. /\ p_specific' = [p_specific EXCEPT ![self][key] = new]
      /\ pthread_keys' = pthread_keys /\ i' = i /\ code' = code /\ pc' = pc
      /\ pthread_keys[key].in_use /\ code[self] \in {"program", "cleanup"}
  BY Zenon DEF __pthread_setspecific, cancelVars
<1>2. <<>> \in Seq(Destructors)
  OBVIOUS
<1>3. new \in Value \cup {NULL}
  BY <1>2, Zenon DEF ValuesInv, DataTyped, Value
<1>4. new # NULL => new.destr = pthread_keys[key].destr /\ new.by = <<>>
  BY Zenon
<1> HIDE DEF new
<1>5. p_specific' \in [Threads -> [Keys -> Value \cup {NULL}]]
  BY <1>1, <1>3, Zenon DEF ValuesInv, DataTyped
<1>6. DataTyped'
  BY <1>1, <1>5, Zenon DEF ValuesInv, DataTyped
<1>7. \A k \in Keys : p_specific'[self][k] = IF k = key THEN new ELSE p_specific[self][k]
  BY <1>1, Zenon DEF ValuesInv, DataTyped
<1>8. \A k \in Keys : ~Past(self, k)' /\ ~Past(self, k)
  BY <1>1, Zenon DEF Past
<1>9. ValuesOf(self)
  BY Zenon DEF ValuesInv
<1>10. ValuesOf(self)'
  BY <1>1, <1>4, <1>7, <1>8, <1>9 DEF ValuesOf
<1> QED
  BY <1>6, <1>10, Zenon

LEMMA ByTyped ==
  ASSUME NEW v \in Value, NEW x \in Seq(Destructors)
  PROVE  [v EXCEPT !.by = x] \in Value
  BY Zenon DEF Value

LEMMA ValueTyped ==
  ASSUME NEW values \in [Threads -> [Keys -> Value \cup {NULL}]],
         NEW self \in Threads, NEW key \in Keys, NEW w \in Value \cup {NULL}
  PROVE  [values EXCEPT ![self][key] = w] \in [Threads -> [Keys -> Value \cup {NULL}]]
  BY Zenon

\* A step of the loop.
LEMMA LoopValues ==
  ASSUME CancelInv, ValuesInv, NEW self \in Threads,
         __pthread_destroy_specifics(self) \/ destructor_returns(self)
  PROVE  DataTyped' /\ ValuesOf(self)'
<1> USE DEF Goto
<1>1. ValuesOf(self) /\ i[self] \in Nat /\ code[self] = "destroy" /\ pthread_keys' = pthread_keys
  BY Zenon DEF ValuesInv, DataTyped, __pthread_destroy_specifics, destructor_returns, keyVars
<1>2. CASE /\ pc[self] = "walk" /\ i[self] \in Keys /\ destr(self) # NULL
           /\ p_specific' = [p_specific EXCEPT ![self][i[self]].by = Append(@, destr(self))]
           /\ Goto(self, "run") /\ UNCHANGED <<code, i>>
  <2> DEFINE v == p_specific[self][i[self]]
             w == [v EXCEPT !.by = Append(@, destr(self))]
  <2>1. v # NULL /\ v \in Value /\ destr(self) = pthread_keys[i[self]].destr
    BY <1>2 DEF destr, ValuesInv, DataTyped
  <2>2. ~Past(self, i[self])
    BY <1>1, <1>2 DEF Past
  <2>3. v.by = <<>> /\ v.destr = destr(self)
    BY <1>1, <1>2, <2>1, <2>2, Zenon DEF ValuesOf
  <2>4. destr(self) \in Destructors
    BY <1>2, <2>1, Zenon DEF ValuesInv, DataTyped
  <2>5. w.by = <<v.destr>> /\ w.destr = v.destr
    BY <2>1, <2>3 DEF Value
  <2>6. w \in Value
    <3>1. Append(v.by, destr(self)) \in Seq(Destructors)
      BY <2>1, <2>4 DEF Value
    <3> QED
      BY <2>1, <3>1, ByTyped, Zenon
  <2>7. p_specific' = [p_specific EXCEPT ![self][i[self]] = w]
    BY <1>2, Zenon DEF ValuesInv, DataTyped
  <2> HIDE DEF w
  <2>8. p_specific' \in [Threads -> [Keys -> Value \cup {NULL}]]
    <3>1. /\ p_specific \in [Threads -> [Keys -> Value \cup {NULL}]]
          /\ i[self] \in Keys /\ w \in Value \cup {NULL}
      BY <1>2, <2>6, Zenon DEF ValuesInv, DataTyped
    <3> HIDE DEF v
    <3>2. [p_specific EXCEPT ![self][i[self]] = w] \in [Threads -> [Keys -> Value \cup {NULL}]]
      BY <3>1, ValueTyped, Zenon
    <3> QED
      BY <2>7, <3>2, Zenon
  <2>9. DataTyped'
    BY <1>1, <1>2, <2>8, Zenon DEF ValuesInv, DataTyped
  <2>10. \A k \in Keys : p_specific'[self][k] = IF k = i[self] THEN w ELSE p_specific[self][k]
    <3>1. p_specific \in [Threads -> [Keys -> Value \cup {NULL}]]
      BY Zenon DEF ValuesInv, DataTyped
    <3> HIDE DEF v
    <3>2. p_specific'[self] = [p_specific[self] EXCEPT ![i[self]] = w]
      BY <1>2, <2>7, <3>1, Zenon
    <3> QED
      BY <1>2, <3>1, <3>2, Zenon
  <2>11. pc'[self] = "run" /\ code' = code /\ i' = i
    BY <1>2, Zenon DEF CancelInv, Typed
  <2>12. \A k \in Keys : IF k = i[self] THEN Past(self, k)' ELSE Past(self, k)' <=> Past(self, k)
    BY <1>1, <2>11, Zenon DEF Past
  <2>13. ASSUME NEW k \in Keys, p_specific'[self][k] # NULL
         PROVE  /\ pthread_keys'[k].in_use /\ p_specific'[self][k].destr = pthread_keys'[k].destr
                /\ p_specific'[self][k].by = IF Past(self, k)' /\ p_specific'[self][k].destr # NULL
                                             THEN <<p_specific'[self][k].destr>> ELSE <<>>
    <3>1. CASE k = i[self]
      BY <1>1, <1>2, <2>1, <2>3, <2>5, <2>10, <2>12, <3>1 DEF ValuesOf
    <3>2. CASE k # i[self]
      BY <1>1, <2>10, <2>12, <2>13, <3>2, Zenon DEF ValuesOf
    <3> QED
      BY <3>1, <3>2, Zenon
  <2> QED
    BY <2>9, <2>13, Zenon DEF ValuesOf
<1>3. CASE /\ pc[self] = "walk" /\ i[self] \in Keys /\ destr(self) = NULL
           /\ i' = [i EXCEPT ![self] = @ + 1] /\ UNCHANGED <<code, pc, p_specific>>
  <2>1. DataTyped' /\ i'[self] = i[self] + 1
    BY <1>1, <1>3 DEF ValuesInv, DataTyped
  <2>2. \A k \in Keys : k # i[self] => (Past(self, k)' <=> Past(self, k))
    BY <1>1, <1>3, <2>1 DEF Past, Keys
  <2>3. p_specific[self][i[self]] # NULL => p_specific[self][i[self]].destr = NULL
    BY <1>1, <1>3, Zenon DEF destr, ValuesOf
  <2> QED
    BY <1>1, <1>3, <2>1, <2>2, <2>3, Zenon DEF ValuesOf
<1>4. CASE /\ pc[self] = "walk" /\ i[self] \notin Keys
           /\ code' = [code EXCEPT ![self] = "exited"] /\ UNCHANGED <<pc, p_specific, i>>
  <2>1. DataTyped' /\ code'[self] = "exited"
    BY <1>1, <1>4, Zenon DEF ValuesInv, DataTyped, CancelInv, Typed
  <2>2. \A k \in Keys : Past(self, k)' /\ Past(self, k)
    BY <1>1, <1>4, <2>1, SpecificAssumption DEF Past, Keys
  <2> QED
    BY <1>1, <1>4, <2>1, <2>2, Zenon DEF ValuesOf
<1>5. CASE destructor_returns(self)
  <2>1. DataTyped' /\ i'[self] = i[self] + 1 /\ pc'[self] = "walk" /\ pc[self] = "run"
    BY <1>1, <1>5 DEF ValuesInv, DataTyped, CancelInv, Typed, destructor_returns, keyVars
  <2>2. \A k \in Keys : Past(self, k)' <=> Past(self, k)
    BY <1>1, <1>5, <2>1 DEF Past, Keys, destructor_returns
  <2> QED
    BY <1>1, <1>5, <2>1, <2>2, ValuesFrame, Zenon DEF destructor_returns
<1> QED
  BY <1>2, <1>3, <1>4, <1>5, Zenon DEF __pthread_destroy_specifics

LEMMA ValuesInvNext ==
  ASSUME ~Reuses, CancelInv, ExitInv, ValuesInv, [Next]_vars
  PROVE  ValuesInv'
<1>1. ASSUME UNCHANGED vars PROVE ValuesInv'
  BY <1>1 DEF vars, cancelVars, specificVars, keyVars, dataVars, ValuesInv, DataTyped, ValuesOf, Past
<1>2. ASSUME NEW self \in Threads,
             ProgramCall(self) \/ Request(self) \/ Ends(self) \/ LibraryStep(self)
      PROVE  ValuesInv'
  <2>1. NotCanceled(self)
    BY Zenon DEF ExitInv
  <2>2. DataTyped' /\ ValuesOf(self)'
    <3>1. CASE \E key \in Keys, null \in BOOLEAN : __pthread_setspecific(self, key, null)
      BY <3>1, SetValues, Zenon
    <3>2. CASE __pthread_destroy_specifics(self) \/ destructor_returns(self)
      BY <3>2, LoopValues, Zenon
    <3> QED
      BY <1>2, <2>1, <3>1, <3>2, CancelValues, Zenon DEF ProgramCall, Request, Ends, LibraryStep
  <2>3. ASSUME NEW t \in Threads \ {self} PROVE ValuesOf(t)'
    <3>1. pthread_keys' = pthread_keys /\ p_specific'[t] = p_specific[t] /\ i'[t] = i[t]
      BY <1>2, Zenon DEF ProgramCall, Request, Ends, LibraryStep, __pthread_setspecific, destroy_begin,
         __pthread_destroy_specifics, destructor_returns, specificVars, keyVars, dataVars,
         ValuesInv, DataTyped
    <3>2. code'[t] = code[t] /\ pc'[t] = pc[t]
      BY <1>2, OthersKeep, Zenon
    <3> QED
      BY <3>1, <3>2, ValuesFrame, Zenon DEF ValuesInv, Past
  <2> QED
    BY <2>2, <2>3, Zenon DEF ValuesInv
<1> QED
  BY <1>1, <1>2, KeysValues, Zenon DEF Next

\* Every value a thread leaves is given to the destructor of its key, once, for
\* any number of keys and of threads; as long as threads are not cancelled in
\* pthread_exit, and keys are not deleted that threads have values for.
THEOREM DestroyedOnceHolds ==
  ASSUME ~CancelsExiting, ~Reuses
  PROVE  Spec => []DestroyedOnce
<1>1. ValuesInv => DestroyedOnce
  BY Zenon DEF ValuesInv, ValuesOf, DestroyedOnce, Past
<1> QED
  BY <1>1, CancelInvInit, CancelInvNext, ExitInvInit, ExitInvNext, ValuesInvInit, ValuesInvNext, PTL
     DEF Spec
=============================================================================
