-------------------------- MODULE LifecycleProofs --------------------------
(***************************************************************************)
(* Stack segments outlive the threads that run on them, and dead children  *)
(* are reaped, for every set of threads and whatever the program does:     *)
(* detaching, joining twice, cancelling, forking, dying by signals.  Then, *)
(* for Cautious programs: restarts end the suspends they are meant for,    *)
(* joins wait, descriptors in use are mapped, the main thread ends last.   *)
(***************************************************************************)
EXTENDS Lifecycle, TLAPS

\* The types the argument needs, and what the manager has when it reads.
Typed ==
  /\ main_thread \in Threads
  /\ desc \in [Threads -> Descriptor]
  /\ pc \in [Threads -> Labels]
  /\ th \in [Threads -> Pointer]
  /\ requests \in Seq(RequestType)
  /\ manager = "request" \/ (manager = "reap" /\ readable) => requests # <<>>

LEMMA SendTyped ==
  ASSUME Typed, NEW request \in RequestType, Send(request)
  PROVE  requests' \in Seq(RequestType) /\ requests' # <<>>
  BY DEF Typed, Send

LEMMA FreshTyped ==
  ASSUME NEW detachstate \in BOOLEAN
  PROVE  /\ FreshDescriptor(detachstate) \in Descriptor
         /\ ~FreshDescriptor(detachstate).p_exited
  BY Zenon DEF FreshDescriptor, Descriptor, Pointer

LEMMA TypedInit == Init => Typed
<1> SUFFICES ASSUME Init PROVE Typed
  BY Zenon
<1>1. FreshDescriptor(FALSE) \in Descriptor
  BY FreshTyped, Zenon
<1> QED
  <2>1. desc \in [Threads -> Descriptor]
    BY <1>1, Zenon DEF Init
  <2>2. pc \in [Threads -> Labels]
    BY Zenon DEF Init, Labels, Gone
  <2>3. th \in [Threads -> Pointer] /\ main_thread \in Threads
    BY LifecycleAssumption, Zenon DEF Init, Pointer
  <2>4. requests \in Seq(RequestType)
    BY DEF Init
  <2> QED
    BY <2>1, <2>2, <2>3, <2>4, Zenon DEF Init, Typed

\* A request that the manager reads.
LEMMA HeadTyped ==
  ASSUME Typed, manager = "request"
  PROVE  /\ Head(requests) \in RequestType
         /\ Tail(requests) \in Seq(RequestType)
  BY DEF Typed

LEMMA ProgramTyped ==
  ASSUME Typed, NEW self \in Threads, ProgramCall(self)
  PROVE  Typed'
<1>1. ASSUME NEW detachstate \in DetachStates, pthread_create(self, detachstate),
             UNCHANGED familyVars
      PROVE  Typed'
  <2>1. Request("REQ_CREATE", self, detachstate) \in RequestType
    BY LifecycleAssumption, Zenon DEF Request, RequestType
  <2> QED
    BY <1>1, <2>1, SendTyped, Zenon DEF pthread_create, Typed, Goto, Labels, Gone, familyVars
<1>2. ASSUME NEW target \in Threads, pthread_join(self, target), UNCHANGED familyVars
      PROVE  Typed'
  BY <1>2 DEF pthread_join, Typed, Goto, Labels, Gone, familyVars, managerVars, Descriptor, Pointer
<1>3. ASSUME NEW target \in Threads, pthread_detach(self, target), UNCHANGED familyVars
      PROVE  Typed'
  <2>1. [desc EXCEPT ![target].p_detached = TRUE] \in [Threads -> Descriptor]
    BY Zenon DEF Typed, Descriptor
  <2> QED
    BY <1>3, <2>1, Zenon DEF pthread_detach, Typed, Goto, Labels, Gone, familyVars, managerVars,
       Pointer
<1>4. CASE pthread_exit_call(self) /\ UNCHANGED familyVars
  BY <1>4, Zenon DEF pthread_exit_call, Typed, Goto, Labels, Gone, familyVars, managerVars, localVars
<1>5. CASE pthread_exit_process(self) /\ UNCHANGED familyVars
  <2>1. Request("REQ_PROCESS_EXIT", self, self) \in RequestType
    BY Zenon DEF Request, RequestType, Pointer
  <2> QED
    BY <1>5, <2>1, SendTyped, Zenon
       DEF pthread_exit_process, Typed, Goto, Die, Dead, Labels, Gone, familyVars, managerVars, localVars
<1>6. CASE pthread_kill_other_threads_np(self) /\ UNCHANGED familyVars
  <2>1. Request("REQ_PROCESS_EXIT", self, self) \in RequestType
    BY Zenon DEF Request, RequestType, Pointer
  <2> QED
    BY <1>6, <2>1, SendTyped, Zenon
       DEF pthread_kill_other_threads_np, Typed, Goto, Labels, Gone, familyVars, managerVars, localVars
<1>7. ASSUME NEW thread \in Threads, CallCancel(self, thread), UNCHANGED familyVars
      PROVE  Typed'
  BY <1>7, Zenon DEF CallCancel, Typed, familyVars, managerVars, localVars
<1>8. CASE killed_by_signal(self) /\ UNCHANGED familyVars
  BY <1>8, Zenon DEF killed_by_signal, Typed, Die, Dead, Labels, Gone, familyVars, managerVars, localVars
<1>9. CASE fork(self)
  BY <1>9 DEF fork, __pthread_reset_main_thread, Typed, Labels, Gone, Pointer
<1> QED
  BY <1>1, <1>2, <1>3, <1>4, <1>5, <1>6, <1>7, <1>8, <1>9, Zenon DEF ProgramCall

LEMMA LibraryTyped ==
  ASSUME Typed, NEW self \in Threads, LibraryStep(self)
  PROVE  Typed'
<1>1. CASE (pthread_create_resume(self) \/ pthread_create_return(self)) /\ UNCHANGED familyVars
  BY <1>1 DEF pthread_create_resume, pthread_create_return, Typed, Goto, Labels, Gone, familyVars,
     managerVars, localVars
<1>2. CASE (pthread_join_suspend(self) \/ pthread_join_resume(self)) /\ UNCHANGED familyVars
  BY <1>2 DEF pthread_join_suspend, pthread_join_resume, Typed, Goto, Labels, Gone, familyVars,
     managerVars, localVars
<1>3. CASE pthread_join_check(self) /\ UNCHANGED familyVars
  BY <1>3 DEF pthread_join_check, Typed, Goto, Labels, Gone, familyVars, managerVars, Descriptor, Pointer
<1>4. CASE request_free(self) /\ UNCHANGED familyVars
  <2>1. Request("REQ_FREE", self, th[self]) \in RequestType
    BY Zenon DEF Request, RequestType, Typed
  <2> QED
    BY <1>4, <2>1, SendTyped, Zenon DEF request_free, Typed, Goto, Labels, Gone, familyVars, managerVars, Pointer
<1>5. CASE pthread_exit(self) /\ UNCHANGED familyVars
  <2> DEFINE d == [desc EXCEPT ![self].p_terminated = TRUE]
  <2>1. d \in [Threads -> Descriptor]
    BY Zenon DEF Typed, Descriptor
  <2>2. [d EXCEPT ![self].p_retval = NULL] \in [Threads -> Descriptor]
    <3> HIDE DEF d
    <3> QED
      BY <2>1, Zenon DEF Descriptor, Pointer
  <2>3. desc' = [d EXCEPT ![self].p_retval = NULL]
    BY <1>5, Zenon DEF pthread_exit
  <2> QED
    BY <1>5, <2>2, <2>3, Zenon DEF pthread_exit, Typed, Goto, Labels, Gone, familyVars, managerVars
<1>6. CASE pthread_exit_restart(self) /\ UNCHANGED familyVars
  BY <1>6, Zenon DEF pthread_exit_restart, Typed, Goto, Labels, Gone, familyVars, managerVars
<1>7. CASE pthread_exit_last(self) /\ UNCHANGED familyVars
  <2>1. Request("REQ_MAIN_THREAD_EXIT", self, self) \in RequestType
    BY Zenon DEF Request, RequestType, Pointer
  <2> QED
    BY <1>7, <2>1, SendTyped, Zenon
       DEF pthread_exit_last, Typed, Goto, Die, Dead, Labels, Gone, familyVars, managerVars, localVars
<1>8. CASE (exit_resume(self) \/ sigcancel_handled(self)) /\ UNCHANGED familyVars
  BY <1>8 DEF exit_resume, sigcancel_handled, Typed, Die, Dead, Labels, Gone, familyVars, managerVars,
     localVars
<1>9. CASE pthread_kill_other_threads_np_resume(self)
  BY <1>9 DEF pthread_kill_other_threads_np_resume, __pthread_reset_main_thread, Typed, Labels, Gone
<1> QED
  BY <1>1, <1>2, <1>3, <1>4, <1>5, <1>6, <1>7, <1>8, <1>9, Zenon DEF LibraryStep

LEMMA FreeTyped ==
  ASSUME Typed, NEW t, pthread_free(t)
  PROVE  desc' \in [Threads -> Descriptor]
  BY FreshTyped, Zenon DEF pthread_free, Typed

LEMMA ManagerTyped ==
  ASSUME Typed, Manager
  PROVE  Typed'
<1>1. CASE manager_select /\ UNCHANGED familyVars
  BY <1>1, Zenon DEF manager_select, Typed, Die, Dead, Labels, Gone, familyVars, localVars
<1>2. CASE pthread_reap_children /\ UNCHANGED familyVars
  <2>1. ASSUME NEW t \in Threads, pthread_exited(t)
        PROVE  desc' \in [Threads -> Descriptor]
    <3>1. [desc[t] EXCEPT !.p_exited = TRUE] \in Descriptor
      BY Zenon DEF Typed, Descriptor
    <3>2. CASE desc[t].p_detached
      BY <2>1, <3>2, FreeTyped, Zenon DEF pthread_exited
    <3>3. CASE ~desc[t].p_detached
      <4>1. desc' = [desc EXCEPT ![t] = [desc[t] EXCEPT !.p_exited = TRUE]]
        BY <2>1, <3>3, Zenon DEF pthread_exited
      <4> QED
        BY <3>1, <4>1, Zenon DEF Typed
    <3> QED
      BY <3>2, <3>3, Zenon
  <2> QED
    BY <1>2, <2>1, Zenon DEF pthread_reap_children, reap_last, reap_next, reap_signaled, Typed,
       Goto, Dead, Labels, Gone, Children, familyVars, localVars
<1>3. CASE manager_request /\ UNCHANGED familyVars
  <2> DEFINE request == Head(requests)
  <2>1. /\ request \in RequestType
        /\ requests' \in Seq(RequestType)
    BY <1>3, HeadTyped, Zenon DEF manager_request
  <2> HIDE DEF request
  <2>2. ASSUME request.req_kind = "REQ_CREATE",
               pthread_handle_create(request.req_thread, request.arg)
        PROVE  Typed'
    <3>1. request.arg \in BOOLEAN /\ request.req_thread \in Threads
      BY <2>1, <2>2, Zenon DEF RequestType
    <3>2. FreshDescriptor(request.arg) \in Descriptor
      BY <3>1, FreshTyped, Zenon
    <3>3. CASE create_fails(request.req_thread)
      BY <1>3, <2>1, <2>2, <3>1, <3>3, Zenon DEF manager_request, pthread_handle_create,
         create_fails, Typed, familyVars, localVars, Descriptor
    <3>4. ASSUME NEW new \in Threads, create_succeeds(request.req_thread, request.arg, new)
          PROVE  Typed'
      <4>1. desc' \in [Threads -> Descriptor]
        <5> DEFINE d == [desc EXCEPT ![new] = FreshDescriptor(request.arg)]
                   e == [d EXCEPT ![request.req_thread].p_retcode = "0"]
        <5>1. d \in [Threads -> Descriptor]
          BY <3>2, Zenon DEF Typed
        <5>2. e \in [Threads -> Descriptor]
          <6> HIDE DEF d
          <6> QED
            BY <3>1, <5>1, Zenon DEF Descriptor
        <5>3. [e EXCEPT ![request.req_thread].p_retval = new] \in [Threads -> Descriptor]
          <6> HIDE DEF e
          <6> QED
            BY <3>1, <5>2, Zenon DEF Descriptor, Pointer
        <5> QED
          BY <3>4, <5>3, Zenon DEF create_succeeds
      <4> QED
        BY <1>3, <2>1, <2>2, <3>4, <4>1, Zenon DEF manager_request, pthread_handle_create,
           create_succeeds, Typed, Goto, Labels, Gone, familyVars, localVars
    <3> QED
      BY <2>2, <3>3, <3>4, Zenon DEF pthread_handle_create
  <2>3. CASE pthread_handle_free(request.arg)
    <3>1. desc' \in [Threads -> Descriptor]
      <4>1. [desc EXCEPT ![request.arg].p_detached = TRUE] \in [Threads -> Descriptor]
        BY Zenon DEF Typed, Descriptor
      <4> QED
        BY <2>3, <4>1, FreeTyped, Zenon DEF pthread_handle_free
    <3> QED
      BY <1>3, <2>1, <2>3, <3>1, Zenon DEF manager_request, pthread_handle_free, Typed,
         familyVars, localVars
  <2>4. CASE pthread_handle_exit(request.req_thread) \/ handle_main_thread_exit
    BY <1>3, <2>1, <2>4, Zenon DEF manager_request, pthread_handle_exit, handle_main_thread_exit,
       Typed, familyVars, localVars
  <2> QED
    BY <1>3, <2>2, <2>3, <2>4, Zenon DEF manager_request, request
<1> QED
  BY <1>1, <1>2, <1>3, Zenon DEF Manager

-----------------------------------------------------------------------------
(***************************************************************************)
(* The inductive invariant.  RunningMapped needs that p_exited, which lets *)
(* pthread_handle_free free a descriptor at once, is set only for a        *)
(* process that is gone; NoLostChild that no child is left over from the   *)
(* time before the manager, which starts with its flag down.               *)
(***************************************************************************)
ReapInv ==
  /\ Typed
  /\ \A t \in Threads : desc[t].p_exited => pc[t] \in {"none", "reaped"}
  /\ manager = "none" => \A t \in Children : pc[t] \in {"none", "reaped"}
  /\ RunningMapped
  /\ NoLostChild

LEMMA ReapInvInit == Init => ReapInv
<1> SUFFICES ASSUME Init PROVE ReapInv
  BY Zenon
<1>1. Typed
  BY TypedInit, Zenon
<1>2. \A t \in Threads : ~desc[t].p_exited
  BY FreshTyped, Zenon DEF Init
<1> QED
  BY <1>1, <1>2, Zenon DEF Init, ReapInv, Children, RunningMapped, Mapped, NoLostChild, ManagerRuns

\* A step that starts, ends and moves no process, and frees nothing.
LEMMA Keeps ==
  ASSUME ReapInv, Typed', UNCHANGED familyVars, UNCHANGED <<stack_segments, live>>,
         UNCHANGED terminated_children,
         \/ manager' = manager
         \/ manager = "none" /\ manager' = "select"
         \/ manager = "request" /\ manager' = "select"
         \/ manager' = "gone",
         \A t \in Threads : desc'[t].p_exited = desc[t].p_exited,
         \A t \in Threads : pc'[t] = pc[t] \/ (pc[t] \notin Gone /\ pc'[t] \notin Gone)
  PROVE  ReapInv'
<1>1. Children' = Children
  BY Zenon DEF Children, familyVars
<1>2. \A t \in Threads : desc'[t].p_exited => pc'[t] \in {"none", "reaped"}
  BY Zenon DEF ReapInv, Gone
<1>3. manager' = "none" => \A t \in Children' : pc'[t] \in {"none", "reaped"}
  BY <1>1, Zenon DEF ReapInv, Gone, Children
<1>4. RunningMapped'
  BY <1>1, Zenon DEF ReapInv, RunningMapped, Mapped, Gone
<1>5. NoLostChild'
  BY <1>1, Zenon DEF ReapInv, NoLostChild, ManagerRuns, Gone, Children
<1> QED
  BY <1>2, <1>3, <1>4, <1>5, Zenon DEF ReapInv

\* The processes of T die.
LEMMA Dies ==
  ASSUME ReapInv, Typed', UNCHANGED familyVars, UNCHANGED <<stack_segments, live, desc>>,
         manager' = manager \/ manager' = "gone",
         NEW T, \A t \in T : pc[t] \notin Gone,
         NEW bySignal, Die(T, bySignal)
  PROVE  ReapInv'
<1>1. Children' = Children
  BY Zenon DEF Children, familyVars
<1>2. \A t \in Threads : pc'[t] = IF t \notin T THEN pc[t]
                                  ELSE IF t \in orphans THEN "reaped" ELSE "zombie"
  BY Zenon DEF Die, Dead
<1>3. terminated_children' = (terminated_children \/ T \cap Children # {})
  BY Zenon DEF Die
<1>4. \A t \in Threads : desc'[t].p_exited => pc'[t] \in {"none", "reaped"}
  BY <1>2, Zenon DEF ReapInv, Gone
<1>5. manager' = "none" => \A t \in Children' : pc'[t] \in {"none", "reaped"}
  BY <1>1, <1>2, Zenon DEF ReapInv, Gone, Children
<1>6. RunningMapped'
  BY <1>1, <1>2, Zenon DEF ReapInv, RunningMapped, Mapped, Gone
<1>7. NoLostChild'
  BY <1>1, <1>2, <1>3, Zenon DEF ReapInv, NoLostChild, ManagerRuns, Gone, Children
<1> QED
  BY <1>4, <1>5, <1>6, <1>7, Zenon DEF ReapInv

\* Descriptors e are d, up to one p_joining or p_detached.
Marked(d, e) ==
  \/ e = d
  \/ \E t, v : e = [d EXCEPT ![t].p_joining = v] \/ e = [d EXCEPT ![t].p_detached = v]

\* Joining and detaching leave p_exited alone.
LEMMA ExitedKept ==
  ASSUME NEW d \in [Threads -> Descriptor], NEW e, Marked(d, e), NEW u \in Threads
  PROVE  e[u].p_exited = d[u].p_exited
<1>1. d[u] \in Descriptor /\ DOMAIN d = Threads
  BY Zenon
<1>2. ASSUME NEW v
      PROVE  /\ [d[u] EXCEPT !.p_joining = v].p_exited = d[u].p_exited
             /\ [d[u] EXCEPT !.p_detached = v].p_exited = d[u].p_exited
  BY <1>1 DEF Descriptor
<1>3. ASSUME NEW t, NEW v, e = [d EXCEPT ![t].p_joining = v] \/ e = [d EXCEPT ![t].p_detached = v]
      PROVE  e[u].p_exited = d[u].p_exited
  <2>1. CASE u = t
    <3>1. e[u] = [d[u] EXCEPT !.p_joining = v] \/ e[u] = [d[u] EXCEPT !.p_detached = v]
      BY <1>1, <1>3, <2>1, Zenon
    <3> QED
      BY <1>2, <3>1, Zenon
  <2>2. CASE u # t
    BY <1>1, <1>3, <2>2, Zenon
  <2> QED
    BY <2>1, <2>2, Zenon
<1> QED
  BY <1>3, Zenon DEF Marked

LEMMA ProgramKeeps ==
  ASSUME ReapInv, NEW self \in Threads, ProgramCall(self)
  PROVE  ReapInv'
<1>1. Typed /\ Typed'
  BY ProgramTyped, Zenon DEF ReapInv
<1>2. ASSUME NEW detachstate \in DetachStates, pthread_create(self, detachstate),
             UNCHANGED familyVars
      PROVE  ReapInv'
  BY <1>1, <1>2, Keeps, Zenon DEF pthread_create, Typed, Goto, Gone, segmentVars, deathVars
<1>3. ASSUME NEW target \in Threads, pthread_join(self, target), UNCHANGED familyVars
      PROVE  ReapInv'
  <2>1. \A t \in Threads : desc'[t].p_exited = desc[t].p_exited
    <3>1. desc' = desc \/ desc' = [desc EXCEPT ![target].p_joining = self]
      BY <1>3, Zenon DEF pthread_join
    <3>2. desc \in [Threads -> Descriptor]
      BY <1>1, Zenon DEF Typed
    <3>3. Marked(desc, desc')
      BY <3>1, Zenon DEF Marked
    <3> QED
      BY <3>2, <3>3, ExitedKept, Zenon
  <2>2. \A t \in Threads : pc'[t] = pc[t] \/ (pc[t] \notin Gone /\ pc'[t] \notin Gone)
    BY <1>1, <1>3, Zenon DEF pthread_join, Typed, Goto, Gone
  <2> QED
    BY <1>1, <1>3, <2>1, <2>2, Keeps, Zenon DEF pthread_join, segmentVars, deathVars, managerVars
<1>4. ASSUME NEW target \in Threads, pthread_detach(self, target), UNCHANGED familyVars
      PROVE  ReapInv'
  <2>1. \A t \in Threads : desc'[t].p_exited = desc[t].p_exited
    <3>1. desc' = desc \/ desc' = [desc EXCEPT ![target].p_detached = TRUE]
      BY <1>4, Zenon DEF pthread_detach
    <3>2. desc \in [Threads -> Descriptor]
      BY <1>1, Zenon DEF Typed
    <3>3. Marked(desc, desc')
      BY <3>1, Zenon DEF Marked
    <3> QED
      BY <3>2, <3>3, ExitedKept, Zenon
  <2>2. \A t \in Threads : pc'[t] = pc[t] \/ (pc[t] \notin Gone /\ pc'[t] \notin Gone)
    BY <1>1, <1>4, Zenon DEF pthread_detach, Typed, Goto, Gone
  <2> QED
    BY <1>1, <1>4, <2>1, <2>2, Keeps, Zenon DEF pthread_detach, segmentVars, deathVars, managerVars
<1>5. CASE pthread_exit_call(self) /\ UNCHANGED familyVars
  BY <1>1, <1>5, Keeps, Zenon DEF pthread_exit_call, Typed, Goto, Gone, segmentVars, deathVars,
     managerVars
<1>6. CASE pthread_exit_process(self) /\ UNCHANGED familyVars
  <2>1. CASE manager = "none"
    BY <1>1, <1>6, <2>1, Dies, Zenon DEF pthread_exit_process, Gone, segmentVars, managerVars
  <2>2. CASE manager # "none"
    BY <1>1, <1>6, <2>2, Keeps, Zenon DEF pthread_exit_process, Typed, Goto, Gone, segmentVars,
       deathVars, managerVars
  <2> QED
    BY <2>1, <2>2, Zenon
<1>7. CASE pthread_kill_other_threads_np(self) /\ UNCHANGED familyVars
  BY <1>1, <1>7, Keeps, Zenon DEF pthread_kill_other_threads_np, Typed, Goto, Gone, segmentVars,
     deathVars, managerVars
<1>8. ASSUME NEW thread \in Threads, CallCancel(self, thread), UNCHANGED familyVars
      PROVE  ReapInv'
  BY <1>1, <1>8, Keeps, Zenon DEF CallCancel, segmentVars, deathVars, managerVars
<1>9. CASE killed_by_signal(self) /\ UNCHANGED familyVars
  BY <1>1, <1>9, Dies, Zenon DEF killed_by_signal, Faulting, Gone, segmentVars, managerVars
<1>10. CASE fork(self)
  <2>1. /\ main_thread' = self
        /\ orphans' = {}
        /\ live' = {self}
        /\ stack_segments' = stack_segments
        /\ \A t \in Threads : pc'[t] = IF t = self THEN "idle" ELSE "none"
        /\ desc' = desc
        /\ manager' = "none"
        /\ pc[self] = "idle"
    BY <1>10, Zenon DEF fork, __pthread_reset_main_thread
  <2> QED
    BY <1>1, <2>1, Zenon DEF ReapInv, RunningMapped, NoLostChild, ManagerRuns, Children, Mapped
<1> QED
  BY <1>2, <1>3, <1>4, <1>5, <1>6, <1>7, <1>8, <1>9, <1>10, Zenon DEF ProgramCall

LEMMA LibraryKeeps ==
  ASSUME ReapInv, NEW self \in Threads, LibraryStep(self)
  PROVE  ReapInv'
<1>1. Typed /\ Typed'
  BY LibraryTyped, Zenon DEF ReapInv
<1>2. CASE (pthread_create_resume(self) \/ pthread_create_return(self)) /\ UNCHANGED familyVars
  BY <1>1, <1>2, Keeps, Zenon DEF pthread_create_resume, pthread_create_return, Typed, Goto, Gone,
     segmentVars, deathVars, managerVars
<1>3. CASE (pthread_join_suspend(self) \/ pthread_join_resume(self)) /\ UNCHANGED familyVars
  BY <1>1, <1>3, Keeps, Zenon DEF pthread_join_suspend, pthread_join_resume, Typed, Goto, Gone,
     segmentVars, deathVars, managerVars
<1>4. CASE pthread_join_check(self) /\ UNCHANGED familyVars
  <2>1. \A t \in Threads : desc'[t].p_exited = desc[t].p_exited
    <3>1. desc' = desc \/ desc' = [desc EXCEPT ![th[self]].p_joining = NULL]
      BY <1>4, Zenon DEF pthread_join_check
    <3>2. desc \in [Threads -> Descriptor]
      BY <1>1, Zenon DEF Typed
    <3>3. Marked(desc, desc')
      BY <3>1, Zenon DEF Marked
    <3> QED
      BY <3>2, <3>3, ExitedKept, Zenon
  <2>2. \A t \in Threads : pc'[t] = pc[t] \/ (pc[t] \notin Gone /\ pc'[t] \notin Gone)
    BY <1>1, <1>4, Zenon DEF pthread_join_check, Typed, Goto, Gone
  <2> QED
    BY <1>1, <1>4, <2>1, <2>2, Keeps, Zenon
       DEF pthread_join_check, segmentVars, deathVars, managerVars
<1>5. CASE request_free(self) /\ UNCHANGED familyVars
  BY <1>1, <1>5, Keeps, Zenon DEF request_free, Typed, Goto, Gone, segmentVars, deathVars, managerVars
<1>6. CASE pthread_exit(self) /\ UNCHANGED familyVars
  <2>1. \A t \in Threads : desc'[t].p_exited = desc[t].p_exited
    BY <1>1, <1>6, Zenon DEF pthread_exit, Typed, Descriptor
  <2>2. \A t \in Threads : pc'[t] = pc[t] \/ (pc[t] \notin Gone /\ pc'[t] \notin Gone)
    BY <1>1, <1>6, Zenon DEF pthread_exit, Typed, Goto, Gone
  <2> QED
    BY <1>1, <1>6, <2>1, <2>2, Keeps, Zenon DEF pthread_exit, segmentVars, deathVars, managerVars
<1>7. CASE pthread_exit_restart(self) /\ UNCHANGED familyVars
  BY <1>1, <1>7, Keeps, Zenon DEF pthread_exit_restart, Typed, Goto, Gone, segmentVars, deathVars,
     managerVars
<1>8. CASE pthread_exit_last(self) /\ UNCHANGED familyVars
  <2>1. CASE self = main_thread /\ manager # "none"
    BY <1>1, <1>8, <2>1, Keeps, Zenon DEF pthread_exit_last, Typed, Goto, Gone, segmentVars,
       deathVars, managerVars
  <2>2. CASE ~(self = main_thread /\ manager # "none")
    BY <1>1, <1>8, <2>2, Dies, Zenon DEF pthread_exit_last, Gone, segmentVars, managerVars
  <2> QED
    BY <2>1, <2>2, Zenon
<1>9. CASE exit_resume(self) /\ UNCHANGED familyVars
  BY <1>1, <1>9, Dies, Zenon DEF exit_resume, Gone, segmentVars, managerVars
<1>10. CASE sigcancel_handled(self) /\ UNCHANGED familyVars
  <2>1. CASE Die({self}, FALSE)
    BY <1>1, <1>10, <2>1, Dies, Zenon DEF sigcancel_handled, segmentVars, managerVars
  <2>2. CASE UNCHANGED <<pc, deathVars>>
    BY <1>1, <1>10, <2>2, Keeps, Zenon DEF sigcancel_handled, segmentVars, deathVars, managerVars
  <2> QED
    BY <1>10, <2>1, <2>2, Zenon DEF sigcancel_handled
<1>11. CASE pthread_kill_other_threads_np_resume(self)
  <2>1. /\ main_thread' = self
        /\ orphans' = {t \in Threads \ {self} : pc[t] \notin Gone}
        /\ stack_segments' = stack_segments
        /\ \A t \in Threads : pc'[t] = IF t = self THEN "idle"
                                       ELSE IF pc[t] = "zombie" THEN "reaped" ELSE pc[t]
        /\ desc' = desc
        /\ manager' = "none"
        /\ pc[self] = "kill_suspend"
    BY <1>11, Zenon DEF pthread_kill_other_threads_np_resume, __pthread_reset_main_thread
  <2>2. \A t \in Children' : pc'[t] \in {"none", "reaped"}
    BY <2>1, Zenon DEF Children, Gone
  <2>3. \A t \in Threads : desc'[t].p_exited => pc'[t] \in {"none", "reaped"}
    BY <2>1, Zenon DEF ReapInv
  <2>4. RunningMapped'
    BY <2>1, <2>2, Zenon DEF ReapInv, RunningMapped, Mapped
  <2> QED
    BY <1>1, <2>1, <2>2, <2>3, <2>4, Zenon DEF ReapInv, NoLostChild, ManagerRuns
<1> QED
  BY <1>2, <1>3, <1>4, <1>5, <1>6, <1>7, <1>8, <1>9, <1>10, <1>11, Zenon DEF LibraryStep

\* What the manager frees belongs to a process that is gone, or is just now reaped.
LEMMA FreeKeeps ==
  ASSUME Typed, NEW t, pthread_free(t)
  PROVE  \A u \in Threads \ {t} : /\ (Mapped(u)' <=> Mapped(u))
                                  /\ desc'[u].p_exited = desc[u].p_exited
<1> SUFFICES ASSUME NEW u \in Threads \ {t}
             PROVE  (Mapped(u)' <=> Mapped(u)) /\ desc'[u].p_exited = desc[u].p_exited
  BY Zenon
<1>1. Mapped(u)' <=> Mapped(u)
  BY Zenon DEF pthread_free, Mapped
<1>2. desc'[u] = desc[u]
  BY Zenon DEF pthread_free, Typed
<1> QED
  BY <1>1, <1>2, Zenon

LEMMA ReapKeeps ==
  ASSUME ReapInv, Typed', UNCHANGED familyVars, pthread_reap_children
  PROVE  ReapInv'
<1>1. Children' = Children
  BY Zenon DEF Children, familyVars
<1>2. ASSUME \A t \in Children : pc[t] # "zombie", UNCHANGED <<desc, pc, live, stack_segments>>
      PROVE  ReapInv'
  <2>1. manager' = "select" \/ manager' = "request"
    BY <1>2, Zenon DEF pthread_reap_children, reap_next, reap_signaled, reap_last
  <2> QED
    BY <1>1, <1>2, <2>1, Zenon DEF ReapInv, RunningMapped, Mapped, NoLostChild
<1>3. ASSUME NEW t \in Children, pc[t] = "zombie", pthread_exited(t),
             reap_last(t) \/ reap_signaled(t) \/ reap_next(t)
      PROVE  ReapInv'
  <2>1. t \in Threads /\ manager = "reap"
    BY Zenon DEF Children, pthread_reap_children
  <2>2. /\ pc'[t] = "reaped"
        /\ \A u \in Threads \ {t} :
             pc'[u] = pc[u] \/ (pc[u] \notin Gone /\ pc'[u] \in {"zombie", "reaped"})
    BY <1>3, <2>1, Zenon DEF reap_last, reap_signaled, reap_next, Goto, Dead, Running, ReapInv, Typed
  <2>3. \A u \in Threads \ {t} : /\ (Mapped(u)' <=> Mapped(u))
                                 /\ desc'[u].p_exited = desc[u].p_exited
    BY <1>3, <2>1, FreeKeeps, Zenon DEF pthread_exited, Mapped, ReapInv, Typed, Descriptor
  <2>4. live' = live \ {t}
    BY <1>3, Zenon DEF pthread_exited
  <2>5. \A u \in Threads : desc'[u].p_exited => pc'[u] \in {"none", "reaped"}
    BY <2>2, <2>3, Zenon DEF ReapInv, Gone
  <2>6. RunningMapped'
    BY <1>1, <2>2, <2>3, <2>4, Zenon DEF ReapInv, RunningMapped, Gone
  <2>7. manager' = "reap" \/ manager' = "gone"
    BY <1>3, <2>1, Zenon DEF reap_last, reap_signaled, reap_next
  <2> QED
    BY <2>5, <2>6, <2>7, Zenon DEF ReapInv, NoLostChild, ManagerRuns
<1> QED
  BY <1>2, <1>3, Zenon DEF pthread_reap_children

LEMMA CreateKeeps ==
  ASSUME ReapInv, Typed', UNCHANGED familyVars, manager = "request", manager' = "select",
         UNCHANGED terminated_children,
         NEW creator \in Threads, NEW detachstate \in BOOLEAN,
         NEW new \in Threads \ (stack_segments \cup {InitialThread}),
         create_succeeds(creator, detachstate, new)
  PROVE  ReapInv'
<1>1. Children' = Children
  BY Zenon DEF Children, familyVars
<1>2. pc[new] \in {"none", "reaped"}
  BY Zenon DEF ReapInv, RunningMapped, Mapped
<1>3. /\ stack_segments' = stack_segments \cup {new}
      /\ live' = live \cup {new}
      /\ \A t \in Threads : pc'[t] = IF t = new THEN "idle" ELSE pc[t]
  BY Zenon DEF create_succeeds, Goto, ReapInv, Typed
<1>4. /\ \A t \in Threads \ {new} : desc'[t].p_exited = desc[t].p_exited
      /\ ~desc'[new].p_exited
  <2> DEFINE d == [desc EXCEPT ![new] = FreshDescriptor(detachstate)]
             e == [d EXCEPT ![creator].p_retcode = "0"]
  <2>1. d \in [Threads -> Descriptor] /\ ~d[new].p_exited
    BY FreshTyped, Zenon DEF ReapInv, Typed
  <2>2. /\ e \in [Threads -> Descriptor]
        /\ \A t \in Threads : e[t].p_exited = d[t].p_exited
    <3> HIDE DEF d
    <3> QED
      BY <2>1, Zenon DEF Descriptor
  <2>3. /\ desc' = [e EXCEPT ![creator].p_retval = new]
        /\ \A t \in Threads : desc'[t].p_exited = e[t].p_exited
    <3>1. desc' = [e EXCEPT ![creator].p_retval = new]
      BY Zenon DEF create_succeeds
    <3> HIDE DEF e
    <3> QED
      BY <2>2, <3>1, Zenon DEF Descriptor
  <2>4. \A t \in Threads \ {new} : d[t] = desc[t]
    BY Zenon DEF ReapInv, Typed
  <2> QED
    BY <2>1, <2>2, <2>3, <2>4, Zenon
<1>5. \A t \in Threads : desc'[t].p_exited => pc'[t] \in {"none", "reaped"}
  BY <1>3, <1>4, Zenon DEF ReapInv
<1>6. RunningMapped'
  BY <1>1, <1>3, Zenon DEF ReapInv, RunningMapped, Mapped
<1>7. NoLostChild'
  BY <1>1, <1>3, Zenon DEF ReapInv, NoLostChild, ManagerRuns, Children
<1> QED
  BY <1>5, <1>6, <1>7, Zenon DEF ReapInv

LEMMA ManagerKeeps ==
  ASSUME ReapInv, Manager
  PROVE  ReapInv'
<1>1. Typed /\ Typed' /\ UNCHANGED familyVars
  BY ManagerTyped, Zenon DEF ReapInv, Manager
<1>2. CASE manager_select
  <2>1. CASE pc[main_thread] = "zombie"
    <3> DEFINE T == Running(live \ {main_thread})
    <3>1. Die(T, TRUE)
      BY <1>2, <2>1, Zenon DEF manager_select
    <3>2. \A t \in T : pc[t] \notin Gone
      BY Zenon DEF Running
    <3> HIDE DEF T
    <3> QED
      BY <1>1, <1>2, <2>1, <3>1, <3>2, Dies, Zenon DEF manager_select, segmentVars
  <2>2. CASE pc[main_thread] # "zombie"
    <3>1. /\ UNCHANGED <<desc, pc, stack_segments, live>>
          /\ manager = "select"
          /\ manager' = IF terminated_children THEN "reap"
                        ELSE IF readable' THEN "request" ELSE "select"
      BY <1>2, <2>2, Zenon DEF manager_select, segmentVars
    <3>2. Children' = Children
      BY <1>1, Zenon DEF Children, familyVars
    <3> QED
      BY <1>1, <3>1, <3>2, Zenon DEF ReapInv, RunningMapped, Mapped, NoLostChild, ManagerRuns
  <2> QED
    BY <2>1, <2>2, Zenon
<1>3. CASE pthread_reap_children
  BY <1>1, <1>3, ReapKeeps, Zenon
<1>4. CASE manager_request
  <2> DEFINE request == Head(requests)
  <2>1. request \in RequestType
    BY <1>1, <1>4, HeadTyped, Zenon DEF manager_request
  <2>2. UNCHANGED terminated_children /\ manager = "request"
    BY <1>4, Zenon DEF manager_request
  <2> HIDE DEF request
  <2>3. ASSUME request.req_kind = "REQ_CREATE",
               pthread_handle_create(request.req_thread, request.arg)
        PROVE  ReapInv'
    <3>1. request.arg \in BOOLEAN /\ request.req_thread \in Threads
      BY <2>1, <2>3, Zenon DEF RequestType
    <3>2. CASE create_fails(request.req_thread)
      <4>1. \A t \in Threads : desc'[t].p_exited = desc[t].p_exited
        BY <1>1, <3>1, <3>2, Zenon DEF create_fails, Typed, Descriptor
      <4> QED
        BY <1>1, <2>2, <2>3, <3>2, <4>1, Keeps, Zenon
           DEF create_fails, pthread_handle_create, segmentVars
    <3> QED
      BY <1>1, <2>2, <2>3, <3>1, <3>2, CreateKeeps, Zenon DEF pthread_handle_create
  <2>4. CASE pthread_handle_free(request.arg)
    <3>1. CASE ~desc[request.arg].p_exited
      <4>1. \A t \in Threads : desc'[t].p_exited = desc[t].p_exited
        <5>1. desc' = [desc EXCEPT ![request.arg].p_detached = TRUE]
          BY <2>4, <3>1, Zenon DEF pthread_handle_free
        <5>2. desc \in [Threads -> Descriptor]
          BY <1>1, Zenon DEF Typed
        <5>3. Marked(desc, desc')
          BY <5>1, Zenon DEF Marked
        <5> QED
          BY <5>2, <5>3, ExitedKept, Zenon
      <4> QED
        BY <1>1, <2>2, <2>4, <3>1, <4>1, Keeps, Zenon DEF pthread_handle_free
    <3>2. CASE desc[request.arg].p_exited
      <4> DEFINE target == request.arg
      <4>1. \A u \in Threads \ {target} : /\ (Mapped(u)' <=> Mapped(u))
                                          /\ desc'[u].p_exited = desc[u].p_exited
        BY <1>1, <2>4, <3>2, FreeKeeps, Zenon DEF pthread_handle_free
      <4>2. target \in Threads => pc[target] \in {"none", "reaped"}
        BY <3>2, Zenon DEF ReapInv
      <4>3. UNCHANGED <<pc, live>> /\ manager' = "select"
        BY <2>4, Zenon DEF pthread_handle_free
      <4> HIDE DEF target
      <4>4. Children' = Children
        BY <1>1, Zenon DEF Children, familyVars
      <4> QED
        BY <1>1, <2>2, <4>1, <4>2, <4>3, <4>4, Zenon
           DEF ReapInv, RunningMapped, NoLostChild, ManagerRuns
    <3> QED
      BY <3>1, <3>2, Zenon
  <2>5. CASE pthread_handle_exit(request.req_thread) \/ handle_main_thread_exit
    BY <1>1, <2>2, <2>5, Keeps, Zenon DEF pthread_handle_exit, handle_main_thread_exit, segmentVars
  <2> QED
    BY <1>4, <2>3, <2>4, <2>5, Zenon DEF manager_request, request
<1> QED
  BY <1>2, <1>3, <1>4, Zenon DEF Manager

LEMMA ReapInvNext == ReapInv /\ [Next]_vars => ReapInv'
<1> SUFFICES ASSUME ReapInv, [Next]_vars PROVE ReapInv'
  BY Zenon
<1>1. CASE UNCHANGED vars
  BY <1>1, Zenon DEF vars, localVars, segmentVars, managerVars, deathVars, familyVars, ReapInv,
     Typed, RunningMapped, Mapped, NoLostChild, ManagerRuns, Children
<1> QED
  BY <1>1, ManagerKeeps, ProgramKeeps, LibraryKeeps, Zenon DEF Next

\* A stack segment is unmapped only when the process on it has been waited for,
\* whatever requests the manager has been sent (pthread_free of src/manager.c).
THEOREM RunningMappedHolds == Spec => []RunningMapped
<1>1. ReapInv => RunningMapped
  BY Zenon DEF ReapInv
<1> QED
  BY <1>1, ReapInvInit, ReapInvNext, PTL DEF Spec

\* No dead child is overlooked by pthread_reap_children (src/manager.c), at
\* whatever point of the manager's loop its signal comes.
THEOREM NoLostChildHolds == Spec => []NoLostChild
<1>1. ReapInv => NoLostChild
  BY Zenon DEF ReapInv
<1> QED
  BY <1>1, ReapInvInit, ReapInvNext, PTL DEF Spec
-----------------------------------------------------------------------------
(***************************************************************************)
(* The program the other properties are about: it neither cancels threads  *)
(* nor has them handle signals, a thread is joined once, detached by       *)
(* nobody but itself, and nobody forks or kills the others after the main  *)
(* thread called pthread_exit.                                             *)
(***************************************************************************)
Cautious ==
  /\ Cancels = {} /\ ~Interrupts /\ ~Rejoins /\ ~LateResets
  /\ "others" \notin Detaches

\* The requests in the pipe, and what the manager will find in them: their
\* senders wait for the answers.
Pipe == {requests[i] : i \in DOMAIN requests}
SameKey(q, r) == q.req_kind = r.req_kind /\ Named(q) = Named(r)
OneEach == \A i, j \in DOMAIN requests : SameKey(requests[i], requests[j]) => i = j

Terminating == {"process_exit", "kill_suspend"}
Sleeping == {"join_suspend", "join_sleep"}
WaitsFor(t, kind) ==
  \/ kind = "REQ_CREATE" /\ pc[t] = "create_suspend"
  \/ kind = "REQ_PROCESS_EXIT" /\ pc[t] \in Terminating
  \/ kind = "REQ_MAIN_THREAD_EXIT" /\ pc[t] = "main_suspend"
RequestOK(r) == r.req_kind # "REQ_FREE" =>
  /\ r.req_thread \notin orphans
  /\ \/ WaitsFor(r.req_thread, r.req_kind)
     \/ pc[r.req_thread] \in Gone /\ manager = "gone"
  /\ r.req_kind = "REQ_CREATE" /\ pc[r.req_thread] \notin Gone =>
       r.req_thread \notin sigpending /\ r.arg = attr[r.req_thread]
  /\ r.req_kind = "REQ_MAIN_THREAD_EXIT" => r.req_thread = main_thread

\* What the thread waits for, on which a restart is pending, has happened.
Deserved(t) ==
  \/ pc[t] = "create_suspend"
  \/ pc[t] \in Sleeping /\ desc[th[t]].p_terminated
  \/ /\ pc[t] = "main_suspend" /\ t = main_thread /\ manager = "gone"
     /\ \A u \in Children : pc[u] \in Gone
  \/ pc[t] \in Terminating /\ exit_requested /\ manager = "gone" /\ t \notin sigcancel \cup orphans
  \/ pc[t] \in Gone

\* While a thread waits in pthread_kill_other_threads_np the manager hears of that
\* before it hears that the main thread waits in pthread_exit.
FirstExits == \E j \in DOMAIN requests :
  /\ requests[j].req_kind = "REQ_PROCESS_EXIT"
  /\ \A i \in 1 .. j : requests[i].req_kind # "REQ_MAIN_THREAD_EXIT"
KillsFirst ==
  /\ ~main_thread_exiting
  /\ pc[main_thread] = "main_suspend" => main_thread \notin sigpending
  /\ manager = "gone" \/ FirstExits

PipeInv ==
  /\ OneEach
  /\ \A r \in Pipe : RequestOK(r)
  /\ \A k \in Threads \ orphans : pc[k] = "kill_suspend" => KillsFirst
RestartInv ==
  /\ \A t \in sigpending : t \in Threads /\ Deserved(t)
  /\ \A t, u \in sigpending : pc[t] \in Terminating /\ pc[u] \in Terminating => t = u
CancelInv ==
  /\ DOMAIN p_canceled = Threads /\ \A t \in Threads : ~p_canceled[t]
  /\ sigcancel # {} => exit_requested
  /\ \A t \in Threads : t \in sigcancel => manager = "gone" \/ t \in orphans \/ pc[t] \in Gone
MainInv ==
  /\ main_thread \notin orphans
  /\ \A t \in Threads : pc[t] = "main_suspend" => t \in orphans \cup {main_thread}
  /\ main_thread_exiting => \/ pc[main_thread] = "main_suspend"
                            \/ pc[main_thread] \in Gone /\ manager = "gone"

\* Who is to free a thread that is not detached: the program, which may still
\* join it; the thread that joins it, or that has created it and not yet
\* returned; the manager, by a request.  It is one of them only.
Joiner == {"join_suspend", "join_sleep", "join_check", "join_free"}
Answered(t) ==
  /\ pc[t] = "create_return" \/ (pc[t] = "create_suspend" /\ t \in sigpending)
  /\ desc[t].p_retcode = "0" /\ ~attr[t]
Has(t, x) == \/ pc[t] \in Joiner /\ th[t] = x
             \/ Answered(t) /\ desc[t].p_retval = x
Freed(x) == \E r \in Pipe : r.req_kind = "REQ_FREE" /\ r.arg = x
Usable(x) == x \in Threads /\ Mapped(x) /\ ~desc[x].p_detached

OwnOK(x) ==
  /\ x \in joinable \/ Freed(x) \/ (\E t \in Threads : Has(t, x)) => Usable(x)
  /\ x \in joinable => ~Freed(x)
  /\ \A t \in Threads : Has(t, x) => x \notin joinable /\ ~Freed(x)
  /\ \A t, u \in Threads : Has(t, x) /\ Has(u, x) => t = u
OwnInv == DOMAIN attr = Threads /\ joinable \subseteq Threads /\ \A x \in Pointer : OwnOK(x)

\* x waits for y, or has died, and no manager will know: its descriptor stays.
Unseen(x) ==
  /\ pc[x] \in Gone /\ Mapped(x) /\ ~desc[x].p_exited
  /\ pc[x] = "zombie" => manager = "gone"
Awaits(x, y) == x \in Threads /\ ((pc[x] \in Sleeping /\ th[x] = y) \/ Unseen(x))

Terminated == {"exit_restart", "exit_last", "main_suspend"}
Placed(t) ==
  /\ pc[t] # "detach_free"
  /\ pc[t] \notin Gone \cup Terminated => ~desc[t].p_terminated
  /\ pc[t] \in {"join_check", "join_free"} => desc[th[t]].p_terminated
  /\ pc[t] = "exit_restart" =>
       /\ desc[t].p_terminated /\ Awaits(joining[t], t)
       /\ pc[joining[t]] \notin Gone => joining[t] \notin sigpending
JoinOK(t) ==
  /\ Placed(t)
  /\ pc[t] \notin Gone /\ ~desc[t].p_terminated /\ desc[t].p_joining # NULL =>
       Awaits(desc[t].p_joining, t)
JoinInv == DOMAIN joining = Threads /\ \A t \in Threads : JoinOK(t)

Safe == PipeInv /\ RestartInv /\ CancelInv /\ MainInv /\ OwnInv /\ JoinInv
LifeInv == ReapInv /\ Safe

LEMMA SendPipe ==
  ASSUME requests \in Seq(RequestType), OneEach, NEW r \in RequestType, Send(r),
         \A q \in Pipe : ~SameKey(q, r)
  PROVE  Pipe' = Pipe \cup {r} /\ OneEach'
<1>1. /\ requests' = Append(requests, r) /\ DOMAIN requests = 1 .. Len(requests)
      /\ DOMAIN requests' = 1 .. Len(requests) + 1 /\ Len(requests) \in Nat
  BY DEF Send
<1>2. /\ \A i \in 1 .. Len(requests) : requests'[i] = requests[i]
      /\ requests'[Len(requests) + 1] = r
  BY <1>1
<1>3. \A i \in 1 .. Len(requests) + 1 : i \in 1 .. Len(requests) \/ i = Len(requests) + 1
  BY <1>1
<1>4. \A i \in 1 .. Len(requests) : i \in 1 .. Len(requests) + 1
  BY <1>1
<1>5. Len(requests) + 1 \in 1 .. Len(requests) + 1
  BY <1>1
<1>6. Pipe' = Pipe \cup {r}
  BY <1>1, <1>2, <1>3, <1>4, <1>5, Zenon DEF Pipe
<1>7. \A i \in 1 .. Len(requests) : ~SameKey(requests[i], r) /\ ~SameKey(r, requests[i])
  BY <1>1, Zenon DEF Pipe, SameKey
<1>8. OneEach'
  <2> SUFFICES ASSUME NEW i \in 1 .. Len(requests) + 1, NEW j \in 1 .. Len(requests) + 1,
                      SameKey(requests'[i], requests'[j])
               PROVE  i = j
    BY <1>1, Zenon DEF OneEach, SameKey, Named
  <2>1. CASE i \in 1 .. Len(requests) /\ j \in 1 .. Len(requests)
    BY <1>1, <1>2, <2>1, Zenon DEF OneEach
  <2> QED
    BY <1>2, <1>3, <1>7, <2>1, Zenon
<1> QED
  BY <1>6, <1>8, Zenon

LEMMA ReadPipe ==
  ASSUME requests \in Seq(RequestType), requests # <<>>, OneEach, requests' = Tail(requests)
  PROVE  /\ Head(requests) \in Pipe /\ OneEach'
         /\ \A q \in Pipe' : q \in Pipe /\ ~SameKey(q, Head(requests))
<1>1. /\ DOMAIN requests = 1 .. Len(requests) /\ Len(requests) \in Nat /\ Len(requests) >= 1
      /\ DOMAIN requests' = 1 .. Len(requests) - 1 /\ Head(requests) = requests[1]
  OBVIOUS
<1>2. \A i \in 1 .. Len(requests) - 1 : requests'[i] = requests[i + 1]
  OBVIOUS
<1>3. \A i \in 1 .. Len(requests) - 1 : i + 1 \in 1 .. Len(requests) /\ i + 1 # 1
  BY <1>1
<1>4. 1 \in 1 .. Len(requests)
  BY <1>1
<1>5. OneEach'
  <2> SUFFICES ASSUME NEW i \in 1 .. Len(requests) - 1, NEW j \in 1 .. Len(requests) - 1,
                      SameKey(requests'[i], requests'[j])
               PROVE  i = j
    BY <1>1, Zenon DEF OneEach, SameKey, Named
  <2>1. i + 1 = j + 1
    BY <1>1, <1>2, <1>3, Zenon DEF OneEach
  <2> QED
    BY <2>1
<1>6. ASSUME NEW q \in Pipe' PROVE q \in Pipe /\ ~SameKey(q, Head(requests))
  <2>1. PICK i \in 1 .. Len(requests) - 1 : q = requests[i + 1]
    BY <1>1, <1>2, <1>6, Zenon DEF Pipe
  <2> QED
    BY <1>1, <1>3, <1>4, <2>1, Zenon DEF Pipe, OneEach
<1> QED
  BY <1>1, <1>4, <1>5, <1>6, Zenon DEF Pipe

LEMMA FirstExitsSent ==
  ASSUME requests \in Seq(RequestType), NEW r, Send(r), r \in RequestType,
         FirstExits \/ (r.req_kind = "REQ_PROCESS_EXIT"
                        /\ \A q \in Pipe : q.req_kind # "REQ_MAIN_THREAD_EXIT")
  PROVE  FirstExits'
<1>1. /\ requests' = Append(requests, r) /\ DOMAIN requests = 1 .. Len(requests)
      /\ DOMAIN requests' = 1 .. Len(requests) + 1 /\ Len(requests) \in Nat
  BY DEF Send
<1>2. /\ \A i \in 1 .. Len(requests) : requests'[i] = requests[i]
      /\ requests'[Len(requests) + 1] = r
  BY <1>1
<1>3. CASE FirstExits
  <2>1. PICK j \in 1 .. Len(requests) :
          /\ requests[j].req_kind = "REQ_PROCESS_EXIT"
          /\ \A i \in 1 .. j : requests[i].req_kind # "REQ_MAIN_THREAD_EXIT"
    BY <1>1, <1>3, Zenon DEF FirstExits
  <2>2. j \in 1 .. Len(requests) + 1 /\ \A i \in 1 .. j : i \in 1 .. Len(requests)
    BY <1>1
  <2> QED
    BY <1>1, <1>2, <2>1, <2>2, Zenon DEF FirstExits
<1>4. CASE r.req_kind = "REQ_PROCESS_EXIT" /\ \A q \in Pipe : q.req_kind # "REQ_MAIN_THREAD_EXIT"
  <2>1. /\ Len(requests) + 1 \in 1 .. Len(requests) + 1
        /\ \A i \in 1 .. Len(requests) + 1 : i \in 1 .. Len(requests) \/ i = Len(requests) + 1
    BY <1>1
  <2>2. \A i \in 1 .. Len(requests) + 1 : requests'[i].req_kind # "REQ_MAIN_THREAD_EXIT"
    BY <1>1, <1>2, <1>4, <2>1, Zenon DEF Pipe
  <2> QED
    BY <1>1, <1>2, <1>4, <2>1, <2>2, Zenon DEF FirstExits
<1> QED
  BY <1>3, <1>4, Zenon

LEMMA FirstExitsRead ==
  ASSUME requests \in Seq(RequestType), requests # <<>>, requests' = Tail(requests), FirstExits
  PROVE  /\ Head(requests).req_kind # "REQ_MAIN_THREAD_EXIT"
         /\ Head(requests).req_kind # "REQ_PROCESS_EXIT" => FirstExits'
<1>1. /\ DOMAIN requests = 1 .. Len(requests) /\ Len(requests) \in Nat /\ Len(requests) >= 1
      /\ DOMAIN requests' = 1 .. Len(requests) - 1 /\ Head(requests) = requests[1]
  OBVIOUS
<1>2. \A i \in 1 .. Len(requests) - 1 : requests'[i] = requests[i + 1]
  OBVIOUS
<1>3. PICK j \in 1 .. Len(requests) :
        /\ requests[j].req_kind = "REQ_PROCESS_EXIT"
        /\ \A i \in 1 .. j : requests[i].req_kind # "REQ_MAIN_THREAD_EXIT"
  BY <1>1, Zenon DEF FirstExits
<1>4. Head(requests).req_kind # "REQ_MAIN_THREAD_EXIT"
  <2>1. 1 \in 1 .. j
    BY <1>1
  <2> QED
    BY <1>1, <1>3, <2>1, Zenon
<1>5. ASSUME Head(requests).req_kind # "REQ_PROCESS_EXIT" PROVE FirstExits'
  <2>1. j # 1
    BY <1>1, <1>3, <1>5, Zenon
  <2>2. /\ j - 1 \in 1 .. Len(requests) - 1 /\ (j - 1) + 1 = j
        /\ \A i \in 1 .. j - 1 : i \in 1 .. Len(requests) - 1 /\ i + 1 \in 1 .. j
    BY <1>1, <2>1
  <2>3. requests'[j - 1].req_kind = "REQ_PROCESS_EXIT"
    BY <1>2, <1>3, <2>2, Zenon
  <2>4. \A i \in 1 .. j - 1 : requests'[i].req_kind # "REQ_MAIN_THREAD_EXIT"
    BY <1>2, <1>3, <2>2, Zenon
  <2> QED
    BY <1>1, <2>2, <2>3, <2>4, Zenon DEF FirstExits
<1> QED
  BY <1>4, <1>5, Zenon

\* Nothing but the restart signal ends a suspend.
LEMMA Restarted ==
  ASSUME Cautious, CancelInv, NEW self \in Threads,
         suspend_any(self) \/ suspend(self)
  PROVE  self \in sigpending /\ sigpending' = sigpending \ {self}
  BY Zenon DEF Cautious, CancelInv, suspend_any, suspend, suspend_restarted, suspend_interrupted, cancel_handled

LEMMA JoinRestarted ==
  ASSUME Cautious, CancelInv, NEW self \in Threads,
         suspend_with_cancellation(self), exit_requested => sigcancel' = sigcancel
  PROVE  /\ self \in sigpending /\ sigpending' = sigpending \ {self} /\ UNCHANGED cancelVars
         /\ ~CancelDue(self)
<1>1. ~CancelDue(self)
  BY Zenon DEF CancelInv, CancelDue
<1>2. ~cancel_handled(self)
  BY Zenon DEF CancelInv, cancel_handled
<1> QED
  BY <1>1, <1>2, Zenon DEF Cautious, suspend_with_cancellation, swc_restarted, swc_interrupted, swc_canceled,
     suspend_restarted

-----------------------------------------------------------------------------
\* A thread that moves, and puts at most one request into the pipe.
Moves(self) ==
  /\ pc[self] \notin Gone \cup {"main_suspend"} /\ pc'[self] \notin Gone
  /\ UNCHANGED <<orphans, main_thread, exit_requested, main_thread_exiting, sigcancel>>
  /\ \A t \in Threads \ {self} : pc'[t] = pc[t] /\ th'[t] = th[t] /\ attr'[t] = attr[t]
  /\ manager' = manager \/ (manager = "none" /\ manager' = "select")
  /\ \A r \in Pipe : r.req_kind # "REQ_FREE" => r.req_thread # self

\* The restart signals it leaves pending, or sends to one that waits in pthread_join.
Signals(self) ==
  /\ self \in sigpending' => Deserved(self)' /\ pc'[self] = "join_sleep"
  /\ \A t \in sigpending' \ {self} : t \in sigpending \/ (t \in Threads /\ pc[t] \in Gone \cup Sleeping)
  /\ \A t \in sigpending' \ {self} :
       pc[t] \in Sleeping /\ (t \in sigpending => desc[th[t]].p_terminated) => desc'[th[t]].p_terminated

LEMMA MovesRestart ==
  ASSUME RestartInv, NEW self \in Threads, Moves(self), Signals(self)
  PROVE  RestartInv'
<1>1. ASSUME NEW t \in sigpending', t # self PROVE t \in Threads /\ Deserved(t)'
  <2>1. t \in Threads /\ (t \in sigpending => Deserved(t)) /\ (t \in sigpending \/ pc[t] \in Gone \cup Sleeping)
    BY <1>1, Zenon DEF Signals, RestartInv
  <2>2. pc'[t] = pc[t] /\ th'[t] = th[t] /\ (manager = "gone" => manager' = "gone")
    BY <1>1, <2>1, Zenon DEF Moves
  <2>3. CASE pc[t] \in Gone
    BY <2>1, <2>2, <2>3, Zenon DEF Deserved
  <2>4. CASE pc[t] \in Sleeping
    <3>1. desc'[th'[t]].p_terminated
      BY <1>1, <2>1, <2>2, <2>4, Zenon DEF Signals, Deserved, Sleeping, Gone, Terminating
    <3> QED
      BY <2>1, <2>2, <2>4, <3>1, Zenon DEF Deserved
  <2>5. CASE pc[t] \notin Gone \cup Sleeping
    <3>1. Deserved(t)
      BY <2>1, <2>5, Zenon
    <3>2. CASE pc[t] = "main_suspend"
      <4>1. t = main_thread /\ manager = "gone" /\ \A u \in Children : pc[u] \in Gone
        BY <3>1, <3>2, <2>5, Zenon DEF Deserved, Terminating
      <4>2. \A u \in Children' : pc'[u] \in Gone
        BY <4>1, Zenon DEF Moves, Children
      <4>3. main_thread' = main_thread
        BY Zenon DEF Moves
      <4> QED
        BY <2>1, <2>2, <3>2, <4>1, <4>2, <4>3, Zenon DEF Deserved
    <3>3. CASE pc[t] \in Terminating
      <4>1. exit_requested /\ manager = "gone" /\ t \notin sigcancel \cup orphans
        BY <2>5, <3>1, <3>3, Zenon DEF Deserved, Terminating
      <4>2. exit_requested' = exit_requested /\ sigcancel' = sigcancel /\ orphans' = orphans
        BY Zenon DEF Moves
      <4> QED
        BY <2>1, <2>2, <3>3, <4>1, <4>2, Zenon DEF Deserved
    <3>4. CASE pc[t] = "create_suspend"
      BY <2>1, <2>2, <3>4, Zenon DEF Deserved
    <3> QED
      BY <2>5, <3>1, <3>2, <3>3, <3>4, Zenon DEF Deserved
  <2> QED
    BY <2>3, <2>4, <2>5, Zenon
<1>2. \A t \in sigpending' : pc'[t] \in Terminating =>
        t \in sigpending /\ t # self /\ pc[t] = pc'[t]
  <2> SUFFICES ASSUME NEW t \in sigpending', pc'[t] \in Terminating
               PROVE  t \in sigpending /\ t # self /\ pc[t] = pc'[t]
    BY Zenon
  <2>1. t # self
    BY Zenon DEF Signals, Terminating
  <2>2. t \in Threads
    BY <1>1, <2>1, Zenon
  <2> QED
    BY <2>1, <2>2, Zenon DEF Signals, Moves, Terminating, Gone, Sleeping
<1>3. ASSUME self \in sigpending' PROVE Deserved(self)'
  BY <1>3, Zenon DEF Signals
<1> QED
  BY <1>1, <1>2, <1>3, Zenon DEF RestartInv

LEMMA MovesCancel ==
  ASSUME CancelInv, NEW self \in Threads, Moves(self),
         DOMAIN p_canceled' = Threads, \A t \in Threads : ~p_canceled'[t]
  PROVE  CancelInv'
<1>1. \A t \in Threads : pc[t] \in Gone => pc'[t] \in Gone
  BY Zenon DEF Moves
<1>2. /\ sigcancel' = sigcancel /\ orphans' = orphans /\ exit_requested' = exit_requested
      /\ manager = "gone" => manager' = "gone"
  BY Zenon DEF Moves
<1> QED
  BY <1>1, <1>2, Zenon DEF CancelInv

LEMMA MovesMain ==
  ASSUME MainInv, NEW self \in Threads, Moves(self), main_thread \in Threads,
         pc'[self] = "main_suspend" => self = main_thread
  PROVE  MainInv'
  BY Zenon DEF MainInv, Moves

LEMMA PipeTyped ==
  ASSUME requests \in Seq(RequestType)
  PROVE  \A r \in Pipe : r \in RequestType /\ r.req_thread \in Threads
<1>1. \A i \in DOMAIN requests : requests[i] \in RequestType
  OBVIOUS
<1>2. \A r \in RequestType : r.req_thread \in Threads
  BY Zenon DEF RequestType
<1> QED
  BY <1>1, <1>2, Zenon DEF Pipe

LEMMA SamePipe ==
  ASSUME UNCHANGED requests
  PROVE  Pipe' = Pipe /\ (OneEach => OneEach') /\ (FirstExits => FirstExits')
  BY Zenon DEF Pipe, OneEach, SameKey, Named, FirstExits

LEMMA MovesPipe ==
  ASSUME PipeInv, NEW self \in Threads, Moves(self), Signals(self),
         requests \in Seq(RequestType), main_thread \in Threads,
         \/ UNCHANGED requests
         \/ \E r \in RequestType : /\ Send(r) /\ RequestOK(r)'
                                   /\ IF r.req_kind = "REQ_FREE" THEN ~Freed(r.arg) ELSE r.req_thread = self,
         pc'[self] = "kill_suspend" => /\ ~main_thread_exiting /\ pc[main_thread] # "main_suspend"
                                       /\ manager' = "gone" \/ FirstExits'
  PROVE  PipeInv'
<1>1. /\ OneEach' /\ (FirstExits => FirstExits')
      /\ \A q \in Pipe' : q \in Pipe \/ RequestOK(q)'
  <2>1. CASE UNCHANGED requests
    BY <2>1, SamePipe, Zenon DEF PipeInv
  <2>2. ASSUME NEW r \in RequestType, Send(r), RequestOK(r)',
               IF r.req_kind = "REQ_FREE" THEN ~Freed(r.arg) ELSE r.req_thread = self
        PROVE  /\ OneEach' /\ (FirstExits => FirstExits')
               /\ \A q \in Pipe' : q \in Pipe \/ RequestOK(q)'
    <3>1. \A q \in Pipe : ~SameKey(q, r)
      BY <2>2, Zenon DEF SameKey, Named, Freed, Moves
    <3>2. Pipe' = Pipe \cup {r} /\ OneEach'
      BY <2>2, <3>1, SendPipe, Zenon DEF PipeInv
    <3>3. FirstExits => FirstExits'
      BY <2>2, FirstExitsSent, Zenon
    <3> QED
      BY <2>2, <3>2, <3>3, Zenon
  <2> QED
    BY <2>1, <2>2, Zenon
<1>2. ASSUME NEW q \in Pipe PROVE RequestOK(q)'
  <2> DEFINE u == q.req_thread
  <2>1. RequestOK(q) /\ u \in Threads /\ (q.req_kind # "REQ_FREE" => u # self)
    BY PipeTyped, Zenon DEF PipeInv, Moves
  <2> HIDE DEF u
  <2>2. /\ orphans' = orphans /\ main_thread' = main_thread /\ (manager = "gone" => manager' = "gone")
        /\ u # self => pc'[u] = pc[u] /\ attr'[u] = attr[u]
    BY <2>1, Zenon DEF Moves
  <2>3. u # self /\ pc[u] = "create_suspend" /\ u \notin sigpending => u \notin sigpending'
    BY <2>1, Zenon DEF Signals, Gone, Sleeping
  <2>4. pc[u] \notin Gone /\ q.req_kind = "REQ_CREATE" => pc[u] = "create_suspend"
    BY <2>1, Zenon DEF RequestOK, WaitsFor, u
  <2> QED
    BY <2>1, <2>2, <2>3, <2>4, Zenon DEF RequestOK, WaitsFor, u
<1>3. ASSUME NEW k \in Threads \ orphans', pc'[k] = "kill_suspend" PROVE KillsFirst'
  <2>1. /\ ~main_thread_exiting /\ (manager = "gone" \/ FirstExits \/ manager' = "gone" \/ FirstExits')
        /\ pc[main_thread] = "main_suspend" => main_thread \notin sigpending
    BY <1>3, Zenon DEF PipeInv, KillsFirst, Moves
  <2>2. pc'[main_thread] = "main_suspend" => main_thread \notin sigpending'
    <3>1. CASE main_thread = self
      BY <3>1, Zenon DEF Signals
    <3>2. CASE main_thread # self
      BY <2>1, <3>2, Zenon DEF Signals, Moves, Gone, Sleeping
    <3> QED
      BY <3>1, <3>2, Zenon
  <2> QED
    BY <1>1, <2>1, <2>2, Zenon DEF KillsFirst, Moves
<1> QED
  BY <1>1, <1>2, <1>3, Zenon DEF PipeInv

\* Who holds a thread may change with such a step, if only one then holds it.
LEMMA MovesOwn ==
  ASSUME OwnInv, NEW self \in Threads, Moves(self), Signals(self),
         DOMAIN attr' = Threads, joinable' \subseteq Threads,
         \A t \in Threads \ {self} : /\ desc'[t].p_retcode = desc[t].p_retcode
                                     /\ desc'[t].p_retval = desc[t].p_retval,
         \A x \in Pointer :
           /\ x \in joinable' => x \in joinable \/ Has(self, x)
           /\ Freed(x)' => Freed(x) \/ Has(self, x)
           /\ Has(self, x)' => x \in joinable \/ Has(self, x)
           /\ x \in joinable' => ~Freed(x)'
           /\ Has(self, x)' => x \notin joinable' /\ ~Freed(x)'
           /\ x \in joinable' \/ Freed(x)' \/ (\E t \in Threads : Has(t, x)') => (Usable(x) => Usable(x)')
  PROVE  OwnInv'
<1> SUFFICES ASSUME NEW x \in Pointer PROVE OwnOK(x)'
  BY Zenon DEF OwnInv
<1>1. OwnOK(x)
  BY Zenon DEF OwnInv
<1>2. ASSUME NEW t \in Threads, t # self, Has(t, x)' PROVE Has(t, x)
  <2>1. /\ pc'[t] = pc[t] /\ th'[t] = th[t] /\ attr'[t] = attr[t]
        /\ desc'[t].p_retcode = desc[t].p_retcode /\ desc'[t].p_retval = desc[t].p_retval
    BY <1>2, Zenon DEF Moves
  <2>2. pc[t] = "create_suspend" /\ t \in sigpending' => t \in sigpending
    BY <1>2, Zenon DEF Signals, Gone, Sleeping
  <2> QED
    BY <1>2, <2>1, <2>2, Zenon DEF Has, Answered
<1>3. x \in joinable' \/ Freed(x)' \/ (\E t \in Threads : Has(t, x)') => Usable(x)'
  <2>1. x \in joinable' \/ Freed(x)' \/ (\E t \in Threads : Has(t, x)') => Usable(x)
    BY <1>1, <1>2, Zenon DEF OwnOK
  <2> QED
    BY <2>1, Zenon
<1>4. ASSUME NEW t \in Threads, Has(t, x)' PROVE x \notin joinable' /\ ~Freed(x)'
  BY <1>1, <1>2, <1>4, Zenon DEF OwnOK
<1>5. ASSUME NEW t \in Threads, NEW u \in Threads, Has(t, x)', Has(u, x)' PROVE t = u
  BY <1>1, <1>2, <1>5, Zenon DEF OwnOK
<1> QED
  BY <1>3, <1>4, <1>5, Zenon DEF OwnOK

LEMMA MovesJoin ==
  ASSUME JoinInv, RestartInv, NEW self \in Threads, Moves(self), Placed(self)',
         DOMAIN joining' = Threads, UNCHANGED stack_segments,
         \A t \in Threads : /\ desc'[t].p_exited = desc[t].p_exited
                            /\ desc[t].p_terminated => desc'[t].p_terminated
                            /\ t # self => desc'[t].p_terminated = desc[t].p_terminated
                            /\ t # self => joining'[t] = joining[t]
                            /\ \/ desc'[t].p_joining = desc[t].p_joining
                               \/ desc'[t].p_joining = self /\ pc'[self] \in Sleeping /\ th'[self] = t,
         \A x \in sigpending' \ sigpending : x # self /\ (pc[x] \in Gone \/ th[x] = self),
         \/ pc[self] \in Sleeping => self \in sigpending
         \/ pc[self] \in Sleeping => pc'[self] \in Sleeping /\ th'[self] = th[self],
         \A t \in Threads : th[t] \in Pointer /\ (pc[t] \in Joiner => th[t] \in Threads)
  PROVE  JoinInv'
<1> SUFFICES ASSUME NEW t \in Threads PROVE JoinOK(t)'
  BY Zenon DEF JoinInv
<1>1. /\ JoinOK(t)
      /\ t # self => /\ pc'[t] = pc[t] /\ th'[t] = th[t] /\ joining'[t] = joining[t]
                     /\ desc'[t].p_terminated = desc[t].p_terminated
      /\ ~desc'[t].p_terminated => ~desc[t].p_terminated
      /\ pc'[t] \notin Gone => pc[t] \notin Gone
  BY Zenon DEF JoinInv, Moves
<1>2. ASSUME NEW x, Unseen(x), x \in Threads PROVE Unseen(x)'
  <2>1. x # self /\ pc'[x] = pc[x] /\ desc'[x].p_exited = desc[x].p_exited /\ (manager = "gone" => manager' = "gone")
    BY <1>2, Zenon DEF Unseen, Moves
  <2> QED
    BY <1>2, <2>1, Zenon DEF Unseen, Mapped
<1>3. ASSUME NEW x, Awaits(x, t), x = self => self \notin sigpending \/ ~desc[t].p_terminated
      PROVE  Awaits(x, t)'
  <2>1. CASE x # self
    BY <1>2, <1>3, <2>1, Zenon DEF Awaits, Moves
  <2>2. CASE x = self
    <3>1. pc[self] \in Sleeping /\ th[self] = t
      BY <1>3, <2>2, Zenon DEF Awaits, Unseen, Moves
    <3>2. self \notin sigpending
      BY <1>3, <2>2, <3>1, Zenon DEF RestartInv, Deserved, Sleeping, Gone, Terminating
    <3> QED
      BY <1>3, <2>2, <3>1, <3>2, Zenon DEF Awaits
  <2> QED
    BY <2>1, <2>2, Zenon
<1>4. pc[t] \in {"join_check", "join_free"} => desc'[th[t]].p_terminated
  BY <1>1, Zenon DEF JoinOK, Placed, Joiner
<1>5. ASSUME pc[t] \notin Gone, ~desc[t].p_terminated, desc'[t].p_joining # NULL
      PROVE  Awaits(desc[t].p_joining, t)'
  <2>1. PICK y : y = desc'[t].p_joining
    BY Zenon
  <2>2. y = desc[t].p_joining \/ (y = self /\ pc'[self] \in Sleeping /\ th'[self] = t)
    BY <2>1, Zenon
  <2>3. CASE y = self /\ pc'[self] \in Sleeping /\ th'[self] = t
    <3>1. Awaits(y, t)'
      BY <2>3, Zenon DEF Awaits
    <3> QED
      BY <2>1, <3>1, Zenon
  <2>4. CASE y = desc[t].p_joining
    <3>1. Awaits(y, t)
      <4>1. desc[t].p_joining # NULL
        BY <1>5, <2>1, <2>4, Zenon
      <4>2. Awaits(desc[t].p_joining, t)
        BY <1>1, <1>5, <4>1, Zenon DEF JoinOK
      <4> QED
        BY <2>4, <4>2, Zenon
    <3>2. Awaits(y, t)'
      BY <1>3, <1>5, <3>1, Zenon
    <3> QED
      BY <2>1, <3>2, Zenon
  <2> QED
    BY <2>2, <2>3, <2>4, Zenon
<1>6. ASSUME pc[t] = "exit_restart", t # self
      PROVE  /\ desc[t].p_terminated /\ Awaits(joining[t], t)'
             /\ (pc[joining[t]])' \notin Gone => joining'[t] \notin sigpending'
  <2>1. PICK x : x = joining[t]
    BY Zenon
  <2>2. desc[t].p_terminated /\ Awaits(x, t) /\ (pc[x] \notin Gone => x \notin sigpending)
    BY <1>1, <1>6, <2>1, Zenon DEF JoinOK, Placed
  <2>3. x \in Threads /\ (pc[x] \in Gone \/ (pc[x] \in Sleeping /\ th[x] = t))
    BY <2>2, Zenon DEF Awaits, Unseen
  <2>4. Awaits(x, t)'
    <3>1. x = self => self \notin sigpending
      BY <2>2, Zenon DEF Moves
    <3> QED
      BY <1>3, <2>2, <3>1, Zenon
  <2>5. pc[x] \in Gone => pc'[x] \in Gone
    BY <2>3, Zenon DEF Moves
  <2>6. pc'[x] \notin Gone => x \notin sigpending'
    BY <1>6, <2>2, <2>3, <2>5, Zenon
  <2> QED
    BY <1>1, <1>6, <2>1, <2>2, <2>4, <2>6, Zenon
<1>7. t # self => Placed(t)'
  BY <1>1, <1>4, <1>6, Zenon DEF JoinOK, Placed
<1> QED
  BY <1>1, <1>5, <1>7, Zenon DEF JoinOK

LEMMA SendFrees ==
  ASSUME requests \in Seq(RequestType), NEW r \in RequestType, Send(r), NEW x, Freed(x)'
  PROVE  Freed(x) \/ (r.req_kind = "REQ_FREE" /\ r.arg = x)
<1>1. /\ requests' = Append(requests, r) /\ DOMAIN requests = 1 .. Len(requests)
      /\ DOMAIN requests' = 1 .. Len(requests) + 1 /\ Len(requests) \in Nat
  BY DEF Send
<1>2. /\ \A i \in 1 .. Len(requests) : requests'[i] = requests[i]
      /\ requests'[Len(requests) + 1] = r
  BY <1>1
<1>3. \A i \in 1 .. Len(requests) + 1 : i \in 1 .. Len(requests) \/ i = Len(requests) + 1
  BY <1>1
<1> QED
  BY <1>1, <1>2, <1>3, Zenon DEF Freed, Pipe

LEMMA JoinNotNull ==
  ASSUME Typed, OwnInv
  PROVE  \A t \in Threads : th[t] \in Pointer /\ (pc[t] \in Joiner => th[t] \in Threads)
<1> SUFFICES ASSUME NEW t \in Threads PROVE th[t] \in Pointer /\ (pc[t] \in Joiner => th[t] \in Threads)
  BY Zenon
<1>1. th[t] \in Pointer
  BY Zenon DEF Typed
<1>2. OwnOK(th[t])
  BY <1>1, Zenon DEF OwnInv
<1> QED
  BY <1>1, <1>2, Zenon DEF OwnOK, Has, Usable

\* The thread waits for no answer: none of its requests is in the pipe.
Waiting == {"create_suspend", "main_suspend"} \cup Terminating
LEMMA NothingQueued ==
  ASSUME PipeInv, NEW self \in Threads, pc[self] \notin Gone,
         pc[self] \notin Waiting \/ (pc[self] = "create_suspend" /\ self \in sigpending)
  PROVE  \A r \in Pipe : r.req_kind # "REQ_FREE" => r.req_thread # self
<1> SUFFICES ASSUME NEW r \in Pipe, r.req_kind # "REQ_FREE", r.req_thread = self PROVE FALSE
  BY Zenon
<1>1. RequestOK(r)
  BY Zenon DEF PipeInv
<1>2. WaitsFor(self, r.req_kind) /\ (r.req_kind = "REQ_CREATE" => self \notin sigpending)
  BY <1>1, Zenon DEF RequestOK
<1> QED
  BY <1>2, Zenon DEF WaitsFor, Waiting, Terminating

LEMMA NotPending ==
  ASSUME RestartInv, NEW self \in Threads, pc[self] \notin Gone \cup Sleeping \cup Waiting
  PROVE  self \notin sigpending
  BY Zenon DEF RestartInv, Deserved, Waiting

\* The steps of a thread that touch no descriptor.
Step(self) ==
  \/ pc[self] = "idle" /\ pc'[self] \in {"create_suspend", "exit"} \cup Terminating /\ UNCHANGED sigpending
  \/ pc[self] = "join_suspend" /\ pc'[self] = "join_sleep" /\ UNCHANGED sigpending
  \/ pc[self] = "join_check" /\ pc'[self] = "join_free" /\ UNCHANGED sigpending
  \/ pc[self] = "exit_last" /\ pc'[self] = "main_suspend" /\ self = main_thread /\ UNCHANGED sigpending
  \/ /\ self \in sigpending /\ sigpending' = sigpending \ {self}
     /\ \/ pc[self] = "create_suspend" /\ pc'[self] = "create_return"
        \/ pc[self] = "join_sleep" /\ pc'[self] = "join_check"

LEMMA StepKeeps ==
  ASSUME Typed, Safe, NEW self \in Threads, Step(self),
         UNCHANGED <<desc, th, joining, joinable, stack_segments, orphans, main_thread, exit_requested,
                     main_thread_exiting, p_canceled, sigcancel>>,
         \A t \in Threads \ {self} : pc'[t] = pc[t] /\ attr'[t] = attr[t],
         pc[self] = "idle" \/ attr' = attr, DOMAIN attr' = Threads,
         manager' = manager \/ (manager = "none" /\ manager' = "select"),
         \/ UNCHANGED requests
         \/ \E r \in RequestType : Send(r) /\ r.req_kind # "REQ_FREE" /\ r.req_thread = self /\ RequestOK(r)',
         pc'[self] = "kill_suspend" => ~MainExits /\ (manager' = "gone" \/ FirstExits')
  PROVE  Safe'
<1>1. PipeInv /\ RestartInv /\ CancelInv /\ MainInv /\ OwnInv /\ JoinInv /\ JoinOK(self)
  BY Zenon DEF Safe, JoinInv
<1>2. pc[self] \notin Gone \cup {"main_suspend"} /\ pc'[self] \notin Gone
  BY Zenon DEF Step, Gone, Terminating
<1>3. Moves(self)
  <2>1. \A r \in Pipe : r.req_kind # "REQ_FREE" => r.req_thread # self
    <3>1. pc[self] \notin Waiting \/ (pc[self] = "create_suspend" /\ self \in sigpending)
      BY Zenon DEF Step, Waiting, Terminating
    <3> QED
      BY <1>1, <1>2, <3>1, NothingQueued, Zenon
  <2> QED
    BY <1>2, <2>1, Zenon DEF Moves
<1>4. Signals(self)
  <2>1. self \in sigpending' => pc[self] = "join_suspend" /\ pc'[self] = "join_sleep" /\ self \in sigpending
    <3>1. pc[self] \in {"idle", "join_check", "exit_last"} => self \notin sigpending
      BY <1>1, NotPending, Zenon DEF Gone, Sleeping, Waiting, Terminating
    <3> QED
      BY <3>1, Zenon DEF Step
  <2>2. pc[self] = "join_suspend" /\ self \in sigpending => desc[th[self]].p_terminated
    BY <1>1, Zenon DEF RestartInv, Deserved, Gone, Terminating
  <2>3. pc'[self] = "join_sleep" => pc'[self] \in Sleeping
    BY Zenon DEF Sleeping
  <2>4. self \in sigpending' => Deserved(self)' /\ pc'[self] = "join_sleep"
    BY <2>1, <2>2, <2>3, Zenon DEF Deserved
  <2> QED
    BY <2>4, Zenon DEF Signals, Step
<1>5. PipeInv'
  <2>1. requests \in Seq(RequestType) /\ main_thread \in Threads
    BY Zenon DEF Typed
  <2>2. pc'[self] = "kill_suspend" => ~main_thread_exiting /\ pc[main_thread] # "main_suspend"
    BY Zenon DEF MainExits
  <2>3. \/ UNCHANGED requests
        \/ \E r \in RequestType : /\ Send(r) /\ RequestOK(r)'
                                  /\ IF r.req_kind = "REQ_FREE" THEN ~Freed(r.arg) ELSE r.req_thread = self
    BY Zenon
  <2> QED
    BY <1>1, <1>3, <1>4, <2>1, <2>2, <2>3, MovesPipe, Zenon
<1>6. RestartInv'
  BY <1>1, <1>3, <1>4, MovesRestart, Zenon
<1>7. CancelInv'
  BY <1>1, <1>3, MovesCancel, Zenon DEF CancelInv
<1>8. MainInv'
  <2>1. main_thread \in Threads /\ (pc'[self] = "main_suspend" => self = main_thread)
    BY Zenon DEF Typed, Step, Terminating
  <2> QED
    BY <1>1, <1>3, <2>1, MovesMain, Zenon
<1>9. OwnInv'
  <2>1. ASSUME NEW x \in Pointer PROVE (Freed(x)' => Freed(x)) /\ (Has(self, x)' => Has(self, x)) /\ (Usable(x) => Usable(x)')
    <3>1. Freed(x)' => Freed(x)
      BY SamePipe, SendFrees, Zenon DEF Typed, Freed
    <3>2. Has(self, x)' => Has(self, x)
      <4>1. pc'[self] \in Joiner => pc[self] \in Joiner
        BY Zenon DEF Step, Joiner, Terminating
      <4>2. Answered(self)' => pc[self] = "create_suspend" /\ self \in sigpending
        <5>1. self \in sigpending' => pc'[self] = "join_sleep"
          BY <1>4, Zenon DEF Signals
        <5> QED
          BY <5>1, Zenon DEF Answered, Step, Terminating
      <4> QED
        BY <4>1, <4>2, Zenon DEF Has, Answered
    <3>3. Usable(x) => Usable(x)'
      BY Zenon DEF Usable, Mapped
    <3> QED
      BY <3>1, <3>2, <3>3, Zenon
  <2>2. ASSUME NEW x \in Pointer PROVE OwnOK(x)
    BY <1>1, Zenon DEF OwnInv
  <2>3. joinable' \subseteq Threads
    BY <1>1, Zenon DEF OwnInv
  <2> QED
    BY <1>1, <1>3, <1>4, <2>1, <2>2, <2>3, MovesOwn, Zenon DEF OwnOK
<1>10. JoinInv'
  <2>1. Placed(self)'
    <3>1. pc'[self] \notin {"detach_free", "exit_restart"} /\ (pc'[self] \notin Terminated => pc[self] \notin Terminated)
      BY Zenon DEF Step, Terminating, Terminated
    <3>2. pc'[self] \in {"join_check", "join_free"} => desc[th[self]].p_terminated
      <4>1. CASE pc[self] = "join_check"
        BY <1>1, <4>1, Zenon DEF JoinOK, Placed
      <4>2. CASE pc[self] = "join_sleep" /\ self \in sigpending
        BY <1>1, <4>2, Zenon DEF RestartInv, Deserved, Gone, Terminating, Sleeping
      <4> QED
        BY <4>1, <4>2, Zenon DEF Step, Terminating
    <3> QED
      BY <1>1, <1>2, <3>1, <3>2, Zenon DEF JoinOK, Placed
  <2>2. \/ pc[self] \in Sleeping => self \in sigpending
        \/ pc[self] \in Sleeping => pc'[self] \in Sleeping /\ th'[self] = th[self]
    BY Zenon DEF Step, Sleeping
  <2>3. \A x \in sigpending' \ sigpending : x # self /\ (pc[x] \in Gone \/ th[x] = self)
    BY Zenon DEF Step
  <2> QED
    BY <1>1, <1>3, <2>1, <2>2, <2>3, MovesJoin, JoinNotNull, Zenon DEF JoinInv
<1> QED
  BY <1>5, <1>6, <1>7, <1>8, <1>9, <1>10, Zenon DEF Safe

LEMMA CreateSafe ==
  ASSUME LifeInv, NEW self \in Threads \ orphans, NEW detachstate \in DetachStates,
         pthread_create(self, detachstate), UNCHANGED familyVars
  PROVE  Safe'
<1> DEFINE r == Request("REQ_CREATE", self, detachstate)
<1>1. /\ r \in RequestType /\ r.req_kind = "REQ_CREATE" /\ r.req_thread = self /\ r.arg = detachstate
  BY LifecycleAssumption, Zenon DEF Request, RequestType
<1>2. Typed /\ Safe /\ RestartInv /\ DOMAIN attr = Threads
  BY Zenon DEF LifeInv, ReapInv, Safe, OwnInv
<1>3. /\ pc[self] = "idle" /\ pc'[self] = "create_suspend" /\ Send(r) /\ attr'[self] = detachstate
      /\ \A t \in Threads \ {self} : pc'[t] = pc[t] /\ attr'[t] = attr[t]
      /\ DOMAIN attr' = Threads
  BY <1>2, Zenon DEF pthread_create, Goto, Typed
<1>4. /\ UNCHANGED <<desc, th, joining, joinable, stack_segments, orphans, main_thread, exit_requested,
                     main_thread_exiting, p_canceled, sigcancel, sigpending>>
      /\ manager' = manager \/ (manager = "none" /\ manager' = "select")
  BY Zenon DEF pthread_create, familyVars, segmentVars, cancelVars, signalVars
<1> HIDE DEF r
<1>5. self \notin sigpending'
  BY <1>2, <1>3, <1>4, NotPending, Zenon DEF Gone, Sleeping, Waiting, Terminating
<1>6. RequestOK(r)'
  <2>1. WaitsFor(self, "REQ_CREATE")' /\ self \notin orphans'
    BY <1>3, <1>4, Zenon DEF WaitsFor
  <2> QED
    BY <1>1, <1>3, <1>5, <2>1, Zenon DEF RequestOK, r, Request
<1>7. Step(self) /\ pc'[self] # "kill_suspend"
  BY <1>3, <1>4, Zenon DEF Step
<1> QED
  BY <1>1, <1>2, <1>3, <1>4, <1>6, <1>7, StepKeeps, Zenon

LEMMA ExitRequestSafe ==
  ASSUME Cautious, LifeInv, NEW self \in Threads \ orphans, UNCHANGED familyVars,
         \/ pthread_exit_process(self) /\ manager # "none"
         \/ pthread_kill_other_threads_np(self)
  PROVE  Safe'
<1> DEFINE r == Request("REQ_PROCESS_EXIT", self, self)
<1>1. /\ r \in RequestType /\ r.req_kind = "REQ_PROCESS_EXIT" /\ r.req_thread = self
  BY Zenon DEF Request, RequestType, Pointer
<1>2. Typed /\ Safe /\ PipeInv /\ DOMAIN attr = Threads
  BY Zenon DEF LifeInv, ReapInv, Safe, OwnInv
<1>3. /\ pc[self] = "idle" /\ pc'[self] \in Terminating /\ Send(r)
      /\ \A t \in Threads \ {self} : pc'[t] = pc[t]
      /\ pc'[self] = "kill_suspend" => ~MainExits
  BY <1>2, Zenon DEF pthread_exit_process, pthread_kill_other_threads_np, Goto, Typed, Terminating, Cautious
<1>4. UNCHANGED <<desc, th, joining, attr, joinable, stack_segments, orphans, main_thread, exit_requested,
                  main_thread_exiting, p_canceled, sigcancel, sigpending, manager>>
  BY Zenon DEF pthread_exit_process, pthread_kill_other_threads_np, familyVars, segmentVars, cancelVars,
     signalVars, localVars, managerVars
<1> HIDE DEF r
<1>5. RequestOK(r)'
  <2>1. WaitsFor(self, "REQ_PROCESS_EXIT")' /\ self \notin orphans'
    BY <1>3, <1>4, Zenon DEF WaitsFor
  <2> QED
    BY <1>1, <2>1, Zenon DEF RequestOK, r, Request
<1>6. pc'[self] = "kill_suspend" => manager' = "gone" \/ FirstExits'
  <2> SUFFICES ASSUME pc'[self] = "kill_suspend", manager # "gone" PROVE FirstExits'
    BY <1>4, Zenon
  <2>1. \A q \in Pipe : q.req_kind # "REQ_MAIN_THREAD_EXIT"
    <3> SUFFICES ASSUME NEW q \in Pipe, q.req_kind = "REQ_MAIN_THREAD_EXIT" PROVE FALSE
      BY Zenon
    <3>1. RequestOK(q)
      BY <1>2, Zenon DEF PipeInv
    <3>2. pc[main_thread] = "main_suspend"
      BY <3>1, Zenon DEF RequestOK, WaitsFor
    <3> QED
      BY <1>3, <3>2, Zenon DEF MainExits
  <2> QED
    BY <1>1, <1>2, <1>3, <2>1, FirstExitsSent, Zenon DEF Typed
<1>7. Step(self)
  BY <1>3, <1>4, Zenon DEF Step
<1>8. r.req_kind # "REQ_FREE"
  BY <1>1, Zenon
<1> QED
  BY <1>1, <1>2, <1>3, <1>4, <1>5, <1>6, <1>7, <1>8, StepKeeps, Zenon

LEMMA ExitMainSafe ==
  ASSUME LifeInv, NEW self \in Threads, pthread_exit_last(self), self = main_thread, manager # "none",
         UNCHANGED familyVars
  PROVE  Safe'
<1> DEFINE r == Request("REQ_MAIN_THREAD_EXIT", self, self)
<1>1. /\ r \in RequestType /\ r.req_kind = "REQ_MAIN_THREAD_EXIT" /\ r.req_thread = self
  BY Zenon DEF Request, RequestType, Pointer
<1>2. Typed /\ Safe /\ DOMAIN attr = Threads /\ self \notin orphans
  BY Zenon DEF LifeInv, ReapInv, Safe, OwnInv, MainInv
<1>3. /\ pc[self] = "exit_last" /\ pc'[self] = "main_suspend" /\ Send(r)
      /\ \A t \in Threads \ {self} : pc'[t] = pc[t]
  BY <1>2, Zenon DEF pthread_exit_last, Goto, Typed
<1>4. UNCHANGED <<desc, th, joining, attr, joinable, stack_segments, orphans, main_thread, exit_requested,
                  main_thread_exiting, p_canceled, sigcancel, sigpending, manager>>
  BY Zenon DEF pthread_exit_last, familyVars, segmentVars, cancelVars, signalVars, localVars, managerVars
<1> HIDE DEF r
<1>5. RequestOK(r)'
  <2>1. WaitsFor(self, "REQ_MAIN_THREAD_EXIT")' /\ self \notin orphans' /\ self = main_thread'
    BY <1>2, <1>3, <1>4, Zenon DEF WaitsFor
  <2> QED
    BY <1>1, <2>1, Zenon DEF RequestOK, r, Request
<1>6. Step(self) /\ pc'[self] # "kill_suspend"
  BY <1>3, <1>4, Zenon DEF Step
<1>7. r.req_kind # "REQ_FREE"
  BY <1>1, Zenon
<1> QED
  BY <1>1, <1>2, <1>3, <1>4, <1>5, <1>6, <1>7, StepKeeps, Zenon

LEMMA StepSafe ==
  ASSUME Cautious, LifeInv, NEW self \in Threads, UNCHANGED familyVars,
         \/ pthread_exit_call(self)
         \/ pthread_create_resume(self)
         \/ pthread_join_suspend(self)
         \/ pthread_join_resume(self)
         \/ pthread_join_check(self)
  PROVE  Safe'
<1>1. Typed /\ Safe /\ DOMAIN attr = Threads /\ CancelInv /\ ~CancelDue(self)
  BY Zenon DEF LifeInv, ReapInv, Safe, OwnInv, CancelInv, CancelDue
<1>2. /\ UNCHANGED <<desc, th, joining, attr, joinable, stack_segments, orphans, main_thread, exit_requested,
                     main_thread_exiting, requests, manager>>
      /\ \A t \in Threads \ {self} : pc'[t] = pc[t]
  BY <1>1, Zenon DEF pthread_exit_call, pthread_create_resume, pthread_join_suspend, pthread_join_resume,
     pthread_join_check, familyVars, segmentVars, localVars, managerVars, Goto, Typed
<1>3. UNCHANGED <<p_canceled, sigcancel>> /\ Step(self) /\ pc'[self] # "kill_suspend"
  <2>1. CASE pthread_exit_call(self)
    BY <1>1, <2>1, Zenon DEF pthread_exit_call, Goto, Typed, Step, signalVars, cancelVars
  <2>2. CASE pthread_create_resume(self)
    <3>1. self \in sigpending /\ sigpending' = sigpending \ {self}
      BY <1>1, <2>2, Restarted, Zenon DEF pthread_create_resume
    <3>2. UNCHANGED <<p_canceled, sigcancel>>
      BY <1>1, <2>2, Zenon DEF pthread_create_resume, suspend_any, CancelInv, cancel_handled, cancelVars
    <3> QED
      BY <1>1, <2>2, <3>1, <3>2, Zenon DEF pthread_create_resume, Goto, Typed, Step
  <2>3. CASE pthread_join_suspend(self)
    BY <1>1, <2>3, Zenon DEF pthread_join_suspend, Goto, Typed, Step, signalVars, cancelVars
  <2>4. CASE pthread_join_resume(self)
    <3>1. self \in sigpending /\ sigpending' = sigpending \ {self} /\ UNCHANGED cancelVars
      BY <1>1, <2>4, JoinRestarted, Zenon DEF pthread_join_resume
    <3> QED
      BY <1>1, <2>4, <3>1, Zenon DEF pthread_join_resume, Goto, Typed, Step, cancelVars
  <2>5. CASE pthread_join_check(self)
    BY <1>1, <2>5, Zenon DEF pthread_join_check, Goto, Typed, Step, signalVars, cancelVars
  <2> QED
    BY <2>1, <2>2, <2>3, <2>4, <2>5, Zenon
<1> QED
  BY <1>1, <1>2, <1>3, StepKeeps, Zenon

\* The other steps of a thread.
LEMMA MoveKeeps ==
  ASSUME Typed, Safe, NEW self \in Threads, Placed(self)',
         pc[self] \notin Gone \cup Sleeping \cup Waiting, pc'[self] \notin Gone \cup Waiting,
         UNCHANGED <<orphans, main_thread, exit_requested, main_thread_exiting, stack_segments, manager,
                     sigcancel>>,
         DOMAIN attr' = Threads, DOMAIN joining' = Threads, joinable' \subseteq Threads,
         DOMAIN p_canceled' = Threads, \A t \in Threads : ~p_canceled'[t],
         \A t \in Threads \ {self} :
           /\ pc'[t] = pc[t] /\ th'[t] = th[t] /\ attr'[t] = attr[t] /\ joining'[t] = joining[t]
           /\ desc'[t].p_retcode = desc[t].p_retcode /\ desc'[t].p_retval = desc[t].p_retval
           /\ desc'[t].p_terminated = desc[t].p_terminated,
         desc[self].p_terminated => desc'[self].p_terminated,
         \A t \in Threads : /\ desc'[t].p_exited = desc[t].p_exited
                            /\ \/ desc'[t].p_joining = desc[t].p_joining
                               \/ desc'[t].p_joining = self /\ pc'[self] \in Sleeping /\ th'[self] = t,
         \/ UNCHANGED requests
         \/ \E r \in RequestType : Send(r) /\ r.req_kind = "REQ_FREE" /\ ~Freed(r.arg),
         \A t \in sigpending' \ sigpending :
           t \in Threads \ {self} /\ (pc[t] \in Gone \/ (pc[t] \in Sleeping /\ th[t] = self /\ desc'[self].p_terminated)),
         \A x \in Pointer :
           /\ x \in joinable' => x \in joinable \/ Has(self, x)
           /\ Freed(x)' => Freed(x) \/ Has(self, x)
           /\ Has(self, x)' => x \in joinable \/ Has(self, x)
           /\ x \in joinable' => ~Freed(x)'
           /\ Has(self, x)' => x \notin joinable' /\ ~Freed(x)'
           /\ x \in joinable' \/ Freed(x)' \/ (\E t \in Threads : Has(t, x)') => (Usable(x) => Usable(x)')
  PROVE  Safe'
<1>1. PipeInv /\ RestartInv /\ CancelInv /\ MainInv /\ OwnInv /\ JoinInv
  BY Zenon DEF Safe
<1>2. self \notin sigpending /\ pc[self] # "main_suspend" /\ pc'[self] \notin {"main_suspend", "kill_suspend"}
  BY <1>1, NotPending, Zenon DEF Waiting, Terminating
<1>3. Moves(self)
  <2>1. \A r \in Pipe : r.req_kind # "REQ_FREE" => r.req_thread # self
    BY <1>1, NothingQueued, Zenon
  <2> QED
    BY <1>2, <2>1, Zenon DEF Moves
<1>4. Signals(self)
  <2>1. self \notin sigpending'
    BY <1>2, Zenon
  <2>2. ASSUME NEW t \in sigpending', pc[t] \in Sleeping
        PROVE  (t \in sigpending => desc[th[t]].p_terminated) => desc'[th[t]].p_terminated
    <3>1. t \in Threads
      BY <1>1, <2>2, Zenon DEF RestartInv
    <3>2. th[t] \in Threads
      BY <1>1, <2>2, <3>1, JoinNotNull, Zenon DEF Sleeping, Joiner
    <3>3. pc[t] \notin Gone
      BY <2>2, Zenon DEF Sleeping, Gone
    <3> QED
      BY <2>2, <3>1, <3>2, <3>3, Zenon
  <2> QED
    BY <2>1, <2>2, Zenon DEF Signals
<1>5. PipeInv'
  <2>1. requests \in Seq(RequestType) /\ main_thread \in Threads
    BY Zenon DEF Typed
  <2>2. \A r \in RequestType : r.req_kind = "REQ_FREE" => RequestOK(r)'
    BY Zenon DEF RequestOK
  <2>3. \/ UNCHANGED requests
        \/ \E r \in RequestType : /\ Send(r) /\ RequestOK(r)'
                                  /\ IF r.req_kind = "REQ_FREE" THEN ~Freed(r.arg) ELSE r.req_thread = self
    BY <2>2, Zenon
  <2>4. pc'[self] # "kill_suspend"
    BY <1>2, Zenon
  <2> QED
    BY <1>1, <1>3, <1>4, <2>1, <2>3, <2>4, MovesPipe, Zenon
<1>6. RestartInv'
  BY <1>1, <1>3, <1>4, MovesRestart, Zenon
<1>7. CancelInv'
  BY <1>1, <1>3, MovesCancel, Zenon
<1>8. MainInv'
  <2>1. main_thread \in Threads /\ pc'[self] # "main_suspend"
    BY <1>2, Zenon DEF Typed
  <2> QED
    BY <1>1, <1>3, <2>1, MovesMain, Zenon
<1>9. OwnInv'
  BY <1>1, <1>3, <1>4, MovesOwn, Zenon
<1>10. JoinInv'
  <2>1. \A t \in Threads : desc[t].p_terminated => desc'[t].p_terminated
    BY Zenon
  <2>2. \A x \in sigpending' \ sigpending : x # self /\ (pc[x] \in Gone \/ th[x] = self)
    BY Zenon
  <2>3. pc[self] \in Sleeping => self \in sigpending
    BY Zenon
  <2> QED
    BY <1>1, <1>3, <2>1, <2>2, <2>3, MovesJoin, JoinNotNull, Zenon DEF JoinInv
<1> QED
  BY <1>5, <1>6, <1>7, <1>8, <1>9, <1>10, Zenon DEF Safe

LEMMA JoinSafe ==
  ASSUME Cautious, LifeInv, NEW self \in Threads, NEW target \in Threads, pthread_join(self, target),
         UNCHANGED familyVars
  PROVE  Safe'
<1>1. Typed /\ Safe /\ CancelInv /\ OwnInv /\ JoinInv /\ DOMAIN attr = Threads /\ DOMAIN joining = Threads /\ Placed(self)
  BY Zenon DEF LifeInv, ReapInv, Safe, OwnInv, JoinInv, JoinOK
<1>2. UNCHANGED <<orphans, main_thread, exit_requested, main_thread_exiting, stack_segments, manager,
                  sigcancel, p_canceled, attr, joining, requests, sigpending>>
  BY Zenon DEF pthread_join, familyVars, segmentVars, cancelVars, signalVars, managerVars
<1>3. pc[self] = "idle" /\ target \in joinable /\ joinable' = joinable \ {target}
  BY Zenon DEF pthread_join, Cautious
<1>4. /\ \A t \in Threads \ {self} : pc'[t] = pc[t] /\ th'[t] = th[t]
      /\ \A t \in Threads : /\ desc'[t].p_exited = desc[t].p_exited
                            /\ desc'[t].p_terminated = desc[t].p_terminated
                            /\ desc'[t].p_detached = desc[t].p_detached
                            /\ desc'[t].p_retcode = desc[t].p_retcode
                            /\ desc'[t].p_retval = desc[t].p_retval
      /\ \A t \in Threads \ {target} : desc'[t].p_joining = desc[t].p_joining
  <2>1. \A t \in Threads \ {self} : pc'[t] = pc[t] /\ th'[t] = th[t]
    BY <1>1, Zenon DEF pthread_join, Typed, Goto
  <2>2. CASE desc' = desc
    BY <2>1, <2>2, Zenon
  <2>3. CASE desc' = [desc EXCEPT ![target].p_joining = self]
    BY <1>1, <2>1, <2>3, Zenon DEF Typed, Descriptor
  <2> QED
    BY <2>2, <2>3, Zenon DEF pthread_join
<1>5. \/ pc'[self] = "idle" /\ desc' = desc
      \/ pc'[self] = "join_free" /\ th'[self] = target /\ desc[target].p_terminated /\ desc' = desc
      \/ pc'[self] = "join_suspend" /\ th'[self] = target /\ desc'[target].p_joining = self
  BY <1>1 DEF pthread_join, Typed, Goto, Descriptor
<1>6. \A t \in Threads : \/ desc'[t].p_joining = desc[t].p_joining
                         \/ desc'[t].p_joining = self /\ pc'[self] \in Sleeping /\ th'[self] = t
  BY <1>4, <1>5, Zenon DEF Sleeping
<1>7. Placed(self)'
  <2>1. ~desc'[self].p_terminated
    BY <1>1, <1>3, <1>4, Zenon DEF Placed, Gone, Terminated
  <2>2. pc'[self] \in {"join_check", "join_free"} => desc'[th'[self]].p_terminated
    BY <1>5, Zenon
  <2>3. pc'[self] \notin {"detach_free", "exit_restart"}
    BY <1>5, Zenon
  <2> QED
    BY <2>1, <2>2, <2>3, Zenon DEF Placed
<1>8. ASSUME NEW x \in Pointer
      PROVE  /\ x \in joinable' => x \in joinable \/ Has(self, x)
             /\ Freed(x)' => Freed(x) \/ Has(self, x)
             /\ Has(self, x)' => x \in joinable \/ Has(self, x)
             /\ x \in joinable' => ~Freed(x)'
             /\ Has(self, x)' => x \notin joinable' /\ ~Freed(x)'
             /\ Usable(x) => Usable(x)'
  <2>1. OwnOK(x) /\ (Freed(x)' <=> Freed(x))
    BY <1>1, <1>2, SamePipe, Zenon DEF OwnInv, Freed
  <2>2. Has(self, x)' => x = target
    BY <1>5, Zenon DEF Has, Joiner, Answered
  <2>3. Usable(x) => Usable(x)'
    BY <1>2, <1>4, Zenon DEF Usable, Mapped
  <2> QED
    BY <1>3, <2>1, <2>2, <2>3, Zenon DEF OwnOK
<1>9. pc[self] \notin Gone \cup Sleeping \cup Waiting /\ pc'[self] \notin Gone \cup Waiting
  BY <1>3, <1>5, Zenon DEF Gone, Sleeping, Waiting, Terminating
<1>10. joinable' \subseteq Threads
  BY <1>1, <1>3, Zenon DEF OwnInv
<1> QED
  BY <1>1, <1>2, <1>4, <1>6, <1>7, <1>8, <1>9, <1>10, MoveKeeps, Zenon DEF CancelInv

LEMMA DetachSafe ==
  ASSUME LifeInv, NEW self \in Threads, pthread_detach(self, self), UNCHANGED familyVars
  PROVE  Safe'
<1>1. Typed /\ Safe /\ CancelInv /\ OwnInv /\ JoinInv /\ DOMAIN attr = Threads /\ DOMAIN joining = Threads /\ Placed(self)
  BY Zenon DEF LifeInv, ReapInv, Safe, OwnInv, JoinInv, JoinOK
<1>2. UNCHANGED <<orphans, main_thread, exit_requested, main_thread_exiting, stack_segments, manager,
                  sigcancel, p_canceled, attr, joining, requests, sigpending>>
  BY Zenon DEF pthread_detach, familyVars, segmentVars, cancelVars, signalVars, managerVars
<1>3. /\ pc[self] = "idle" /\ self \in joinable /\ joinable' = joinable \ {self} /\ ~desc[self].p_terminated
      /\ UNCHANGED <<pc, th>>
  <2>1. pc[self] = "idle"
    BY Zenon DEF pthread_detach
  <2>2. ~desc[self].p_terminated
    BY <1>1, <2>1, Zenon DEF Placed, Gone, Terminated
  <2> QED
    BY <2>1, <2>2, Zenon DEF pthread_detach
<1>4. /\ \A t \in Threads : /\ desc'[t].p_exited = desc[t].p_exited
                            /\ desc'[t].p_terminated = desc[t].p_terminated
                            /\ desc'[t].p_joining = desc[t].p_joining
                            /\ desc'[t].p_retcode = desc[t].p_retcode
                            /\ desc'[t].p_retval = desc[t].p_retval
      /\ \A t \in Threads \ {self} : desc'[t].p_detached = desc[t].p_detached
  <2>1. CASE desc' = desc
    BY <2>1, Zenon
  <2>2. CASE desc' = [desc EXCEPT ![self].p_detached = TRUE]
    BY <1>1, <2>2, Zenon DEF Typed, Descriptor
  <2> QED
    BY <2>1, <2>2, Zenon DEF pthread_detach
<1>5. Placed(self)'
  BY <1>3, <1>4, Zenon DEF Placed
<1>6. ASSUME NEW x \in Pointer
      PROVE  /\ x \in joinable' => x \in joinable \/ Has(self, x)
             /\ Freed(x)' => Freed(x) \/ Has(self, x)
             /\ Has(self, x)' => x \in joinable \/ Has(self, x)
             /\ x \in joinable' => ~Freed(x)'
             /\ Has(self, x)' => x \notin joinable' /\ ~Freed(x)'
             /\ x \in joinable' \/ Freed(x)' \/ (\E t \in Threads : Has(t, x)') => (Usable(x) => Usable(x)')
  <2>1. OwnOK(x) /\ (Freed(x)' <=> Freed(x)) /\ x \in Threads \cup {NULL}
    BY <1>1, <1>2, SamePipe, Zenon DEF OwnInv, Freed, Pointer
  <2>2. ASSUME NEW t \in Threads PROVE Has(t, x)' <=> Has(t, x)
    BY <1>2, <1>3, <1>4, Zenon DEF Has, Answered
  <2>3. x # self => (Usable(x) => Usable(x)')
    BY <1>2, <1>4, Zenon DEF Usable, Mapped
  <2>4. x = self => ~(x \in joinable' \/ Freed(x)' \/ (\E t \in Threads : Has(t, x)'))
    BY <1>3, <2>1, <2>2, Zenon DEF OwnOK
  <2> QED
    BY <1>3, <2>1, <2>2, <2>3, <2>4, Zenon DEF OwnOK
<1>7. pc[self] \notin Gone \cup Sleeping \cup Waiting /\ pc'[self] \notin Gone \cup Waiting
  BY <1>3, Zenon DEF Gone, Sleeping, Waiting, Terminating
<1>8. joinable' \subseteq Threads
  BY <1>1, <1>3, Zenon DEF OwnInv
<1> QED
  BY <1>1, <1>2, <1>3, <1>4, <1>5, <1>6, <1>7, <1>8, MoveKeeps, Zenon DEF CancelInv

LEMMA ReturnSafe ==
  ASSUME LifeInv, NEW self \in Threads, pthread_create_return(self), UNCHANGED familyVars
  PROVE  Safe'
<1>1. Typed /\ Safe /\ CancelInv /\ OwnInv /\ JoinInv /\ DOMAIN attr = Threads /\ DOMAIN joining = Threads /\ Placed(self)
  BY Zenon DEF LifeInv, ReapInv, Safe, OwnInv, JoinInv, JoinOK
<1>2. UNCHANGED <<orphans, main_thread, exit_requested, main_thread_exiting, stack_segments, manager,
                  sigcancel, p_canceled, th, joining, requests, sigpending, desc>>
  BY Zenon DEF pthread_create_return, familyVars, segmentVars, cancelVars, signalVars, managerVars
<1>3. /\ pc[self] = "create_return" /\ pc'[self] = "idle"
      /\ \A t \in Threads \ {self} : pc'[t] = pc[t] /\ attr'[t] = attr[t]
      /\ DOMAIN attr' = Threads
  BY <1>1, Zenon DEF pthread_create_return, Goto, Typed
<1>4. \A x \in joinable' : x \in joinable \/ Has(self, x)
  BY <1>3, Zenon DEF pthread_create_return, Has, Answered
<1>5. Placed(self)'
  <2>1. ~desc[self].p_terminated
    BY <1>1, <1>3, Zenon DEF Placed, Gone, Terminated
  <2> QED
    BY <1>2, <1>3, <2>1, Zenon DEF Placed
<1>6. ASSUME NEW x \in Pointer
      PROVE  /\ x \in joinable' => x \in joinable \/ Has(self, x)
             /\ Freed(x)' => Freed(x) \/ Has(self, x)
             /\ Has(self, x)' => x \in joinable \/ Has(self, x)
             /\ x \in joinable' => ~Freed(x)'
             /\ Has(self, x)' => x \notin joinable' /\ ~Freed(x)'
             /\ Usable(x) => Usable(x)'
  <2>1. OwnOK(x) /\ (Freed(x)' <=> Freed(x))
    BY <1>1, <1>2, SamePipe, Zenon DEF OwnInv, Freed
  <2>2. ~Has(self, x)'
    BY <1>3, Zenon DEF Has, Joiner, Answered
  <2>3. Usable(x) => Usable(x)'
    BY <1>2, Zenon DEF Usable, Mapped
  <2> QED
    BY <1>4, <2>1, <2>2, <2>3, Zenon DEF OwnOK
<1>7. pc[self] \notin Gone \cup Sleeping \cup Waiting /\ pc'[self] \notin Gone \cup Waiting
  BY <1>3, Zenon DEF Gone, Sleeping, Waiting, Terminating
<1>8. joinable' \subseteq Threads
  <2>1. desc[self].p_retval \in Pointer
    BY <1>1, Zenon DEF Typed, Descriptor
  <2> QED
    BY <1>1, <2>1, Zenon DEF pthread_create_return, OwnInv, Pointer
<1> QED
  BY <1>1, <1>2, <1>3, <1>5, <1>6, <1>7, <1>8, MoveKeeps, Zenon DEF CancelInv

LEMMA FreeSafe ==
  ASSUME LifeInv, NEW self \in Threads, request_free(self), UNCHANGED familyVars
  PROVE  Safe'
<1>1. Typed /\ Safe /\ CancelInv /\ OwnInv /\ JoinInv /\ DOMAIN attr = Threads /\ DOMAIN joining = Threads /\ Placed(self)
  BY Zenon DEF LifeInv, ReapInv, Safe, OwnInv, JoinInv, JoinOK
<1>2. UNCHANGED <<orphans, main_thread, exit_requested, main_thread_exiting, stack_segments, manager,
                  sigcancel, p_canceled, attr, joining, sigpending, desc>>
  BY Zenon DEF request_free, familyVars, segmentVars, cancelVars, signalVars, managerVars
<1>3. /\ pc[self] = "join_free" /\ pc'[self] = "idle" /\ joinable' = joinable \ {th[self]}
      /\ \A t \in Threads \ {self} : pc'[t] = pc[t] /\ th'[t] = th[t]
  BY <1>1, Zenon DEF request_free, Goto, Typed, Placed
<1>4. Has(self, th[self]) /\ th[self] \in Pointer /\ ~Freed(th[self])
  <2>1. Has(self, th[self]) /\ th[self] \in Pointer
    BY <1>1, <1>3, Zenon DEF Has, Joiner, Typed
  <2> QED
    BY <1>1, <2>1, Zenon DEF OwnInv, OwnOK
<1>5. \/ UNCHANGED requests
      \/ \E r \in RequestType : Send(r) /\ r.req_kind = "REQ_FREE" /\ r.arg = th[self]
  <2> DEFINE r == Request("REQ_FREE", self, th[self])
  <2>1. r \in RequestType /\ r.req_kind = "REQ_FREE" /\ r.arg = th[self]
    BY <1>4, Zenon DEF Request, RequestType
  <2> HIDE DEF r
  <2> QED
    BY <2>1, Zenon DEF request_free, r
<1>6. Placed(self)'
  <2>1. ~desc[self].p_terminated
    BY <1>1, <1>3, Zenon DEF Placed, Gone, Terminated
  <2> QED
    BY <1>2, <1>3, <2>1, Zenon DEF Placed
<1>7. ASSUME NEW x \in Pointer
      PROVE  /\ x \in joinable' => x \in joinable \/ Has(self, x)
             /\ Freed(x)' => Freed(x) \/ Has(self, x)
             /\ Has(self, x)' => x \in joinable \/ Has(self, x)
             /\ x \in joinable' => ~Freed(x)'
             /\ Has(self, x)' => x \notin joinable' /\ ~Freed(x)'
             /\ Usable(x) => Usable(x)'
  <2>1. OwnOK(x)
    BY <1>1, Zenon DEF OwnInv
  <2>2. ~Has(self, x)'
    BY <1>3, Zenon DEF Has, Joiner, Answered
  <2>3. Usable(x) => Usable(x)'
    BY <1>2, Zenon DEF Usable, Mapped
  <2>4. Freed(x)' => Freed(x) \/ x = th[self]
    <3>1. CASE UNCHANGED requests
      BY <3>1, SamePipe, Zenon DEF Freed
    <3>2. CASE \E r \in RequestType : Send(r) /\ r.req_kind = "REQ_FREE" /\ r.arg = th[self]
      BY <1>1, <3>2, SendFrees, Zenon DEF Typed
    <3> QED
      BY <1>5, <3>1, <3>2, Zenon
  <2> QED
    BY <1>3, <1>4, <2>1, <2>2, <2>3, <2>4, Zenon DEF OwnOK
<1>8. pc[self] \notin Gone \cup Sleeping \cup Waiting /\ pc'[self] \notin Gone \cup Waiting
  BY <1>3, Zenon DEF Gone, Sleeping, Waiting, Terminating
<1>9. joinable' \subseteq Threads
  BY <1>1, <1>3, Zenon DEF OwnInv
<1>10. UNCHANGED requests \/ \E r \in RequestType : Send(r) /\ r.req_kind = "REQ_FREE" /\ ~Freed(r.arg)
  BY <1>4, <1>5, Zenon
<1> QED
  BY <1>1, <1>2, <1>3, <1>6, <1>7, <1>8, <1>9, <1>10, MoveKeeps, Zenon DEF CancelInv

LEMMA ExitSafe ==
  ASSUME LifeInv, NEW self \in Threads, pthread_exit(self) \/ pthread_exit_restart(self), UNCHANGED familyVars
  PROVE  Safe'
<1>1. /\ Typed /\ Safe /\ CancelInv /\ OwnInv /\ JoinInv /\ DOMAIN attr = Threads /\ DOMAIN joining = Threads
      /\ Placed(self) /\ JoinOK(self) /\ RestartInv
  BY Zenon DEF LifeInv, ReapInv, Safe, OwnInv, JoinInv, JoinOK
<1>2. UNCHANGED <<orphans, main_thread, exit_requested, main_thread_exiting, stack_segments, manager,
                  sigcancel, attr, th, requests, joinable>>
  BY Zenon DEF pthread_exit, pthread_exit_restart, familyVars, segmentVars, cancelVars, managerVars
<1>3. /\ pc[self] \in {"exit", "exit_restart"} /\ pc'[self] \in {"exit_restart", "exit_last"}
      /\ \A t \in Threads \ {self} : pc'[t] = pc[t] /\ joining'[t] = joining[t]
      /\ DOMAIN joining' = Threads
  BY <1>1, Zenon DEF pthread_exit, pthread_exit_restart, Goto, Typed
<1>4. DOMAIN p_canceled' = Threads /\ \A t \in Threads : ~p_canceled'[t]
  BY <1>1, Zenon DEF pthread_exit, pthread_exit_restart, CancelInv, cancelVars
<1>5. /\ \A t \in Threads : /\ desc'[t].p_exited = desc[t].p_exited
                            /\ desc'[t].p_joining = desc[t].p_joining
                            /\ desc'[t].p_detached = desc[t].p_detached
      /\ \A t \in Threads \ {self} : desc'[t] = desc[t]
      /\ desc'[self].p_terminated
  <2>1. CASE pthread_exit_restart(self)
    BY <1>1, <2>1, Zenon DEF pthread_exit_restart, Placed
  <2>2. CASE pthread_exit(self)
    <3>1. DOMAIN desc = Threads /\ desc[self] \in Descriptor
      BY <1>1, Zenon DEF Typed
    <3>2. desc' = [desc EXCEPT ![self].p_terminated = TRUE, ![self].p_retval = NULL]
      BY <2>2, Zenon DEF pthread_exit
    <3>3. \A t \in Threads \ {self} : desc'[t] = desc[t]
      BY <3>1, <3>2
    <3>4. desc'[self] = [desc[self] EXCEPT !.p_terminated = TRUE, !.p_retval = NULL]
      BY <3>1, <3>2
    <3>5. /\ desc'[self].p_exited = desc[self].p_exited /\ desc'[self].p_joining = desc[self].p_joining
          /\ desc'[self].p_detached = desc[self].p_detached /\ desc'[self].p_terminated
      BY <3>1, <3>4 DEF Descriptor
    <3> QED
      BY <3>3, <3>5, Zenon
  <2> QED
    BY <2>1, <2>2, Zenon
<1>6. /\ \A t \in sigpending' \ sigpending :
           t \in Threads \ {self} /\ (pc[t] \in Gone \/ (pc[t] \in Sleeping /\ th[t] = self /\ desc'[self].p_terminated))
      /\ Placed(self)'
  <2>1. CASE pthread_exit_restart(self)
    <3>1. pc[self] = "exit_restart" /\ pc'[self] = "exit_last" /\ sigpending' = sigpending \cup {joining[self]}
      BY <1>1, <2>1, Zenon DEF pthread_exit_restart, restart, Goto, Typed
    <3>2. Awaits(joining[self], self)
      BY <1>1, <3>1, Zenon DEF Placed
    <3>3. pc[self] \notin Gone \cup Sleeping
      BY <3>1, Zenon DEF Gone, Sleeping
    <3>4. joining[self] \in Threads \ {self} /\ (pc[joining[self]] \in Gone \/ (pc[joining[self]] \in Sleeping /\ th[joining[self]] = self))
      BY <3>2, <3>3, Zenon DEF Awaits, Unseen
    <3>5. Placed(self)'
      BY <3>1, <1>5, Zenon DEF Placed, Terminated
    <3> QED
      BY <1>5, <3>1, <3>4, <3>5, Zenon
  <2>2. CASE pthread_exit(self)
    <3>1. /\ pc[self] = "exit" /\ sigpending' = sigpending /\ joining'[self] = desc[self].p_joining
          /\ pc'[self] = "exit_restart" => desc[self].p_joining # NULL
      BY <1>1, <2>2, Zenon DEF pthread_exit, Goto, Typed, signalVars
    <3>2. ~desc[self].p_terminated /\ pc[self] \notin Gone \cup Sleeping
      BY <1>1, <3>1, Zenon DEF Placed, Gone, Terminated, Sleeping
    <3>3. ASSUME pc'[self] = "exit_restart"
          PROVE  /\ Awaits(joining[self], self)'
                 /\ (pc[joining[self]])' \notin Gone => joining'[self] \notin sigpending'
      <4>1. PICK y : y = desc[self].p_joining
        BY Zenon
      <4>2. Awaits(y, self)
        BY <1>1, <3>1, <3>2, <3>3, <4>1, Zenon DEF JoinOK
      <4>3. y \in Threads /\ y # self /\ (Unseen(y) \/ (pc[y] \in Sleeping /\ th[y] = self))
        BY <3>2, <4>2, Zenon DEF Awaits, Unseen
      <4>4. pc'[y] = pc[y] /\ Awaits(y, self)'
        BY <1>2, <1>3, <1>5, <4>2, <4>3, Zenon DEF Awaits, Unseen, Mapped
      <4>5. pc'[y] \notin Gone => y \notin sigpending'
        <5> SUFFICES ASSUME y \in sigpending, pc[y] \notin Gone PROVE FALSE
          BY <3>1, <4>4, Zenon
        <5>1. Deserved(y) /\ pc[y] \in Sleeping /\ th[y] = self
          BY <1>1, <4>3, Zenon DEF RestartInv, Unseen
        <5> QED
          BY <3>2, <5>1, Zenon DEF Deserved, Sleeping, Terminating
      <4> QED
        BY <3>1, <4>1, <4>4, <4>5, Zenon
    <3>4. Placed(self)'
      <4>1. pc'[self] \in Terminated /\ pc'[self] \notin {"detach_free", "join_check", "join_free"}
        BY <1>3, Zenon DEF Terminated
      <4> QED
        BY <1>5, <3>3, <4>1, Zenon DEF Placed
    <3> QED
      BY <3>1, <3>4, Zenon
  <2> QED
    BY <2>1, <2>2, Zenon
<1>7. ASSUME NEW x \in Pointer
      PROVE  /\ x \in joinable' => x \in joinable \/ Has(self, x)
             /\ Freed(x)' => Freed(x) \/ Has(self, x)
             /\ Has(self, x)' => x \in joinable \/ Has(self, x)
             /\ x \in joinable' => ~Freed(x)'
             /\ Has(self, x)' => x \notin joinable' /\ ~Freed(x)'
             /\ Usable(x) => Usable(x)'
  <2>1. OwnOK(x) /\ (Freed(x)' <=> Freed(x))
    BY <1>1, <1>2, SamePipe, Zenon DEF OwnInv, Freed
  <2>2. ~Has(self, x)'
    BY <1>3, Zenon DEF Has, Joiner, Answered
  <2>3. Usable(x) => Usable(x)'
    BY <1>2, <1>5, Zenon DEF Usable, Mapped
  <2> QED
    BY <1>2, <2>1, <2>2, <2>3, Zenon DEF OwnOK
<1>8. pc[self] \notin Gone \cup Sleeping \cup Waiting /\ pc'[self] \notin Gone \cup Waiting
  BY <1>3, Zenon DEF Gone, Sleeping, Waiting, Terminating
<1>9. joinable' \subseteq Threads
  BY <1>1, <1>2, Zenon DEF OwnInv
<1> QED
  BY <1>1, <1>2, <1>3, <1>4, <1>5, <1>6, <1>7, <1>8, <1>9, MoveKeeps, Zenon

-----------------------------------------------------------------------------
\* Threads die, and dead children are waited for: a detached one is freed then.
Left(t) ==
  /\ (Mapped(t)' <=> Mapped(t)) /\ desc'[t].p_detached = desc[t].p_detached
  /\ desc'[t].p_terminated = desc[t].p_terminated
Deaths ==
  /\ UNCHANGED <<requests, attr, th, joining, joinable, orphans, main_thread, exit_requested,
                 main_thread_exiting, p_canceled>>
  /\ manager = "gone" => manager' = "gone"
  /\ \A t \in Threads : pc'[t] = pc[t] \/ pc'[t] \in Gone
  /\ \A t \in Threads : pc[t] \in Gone => pc'[t] \in Gone
  /\ \A t \in Threads : pc[t] \in Gone \ {"zombie"} => pc'[t] = pc[t]
  /\ \A t \in Threads : pc[t] \in Sleeping \cup Waiting /\ pc'[t] \in Gone =>
       manager' = "gone" \/ (t \in orphans /\ pc'[t] = "reaped")
  /\ \A t \in sigcancel' : t \in sigcancel
  /\ \A t \in sigpending' : t \in sigpending
       \/ (t = main_thread /\ main_thread_exiting /\ Deserved(t)' /\ pc'[t] \in Gone \cup {"main_suspend"})
  /\ \A t \in Threads :
       \/ Left(t) /\ desc'[t] = desc[t]
       \/ pc[t] = "zombie" /\ manager # "gone" /\ (Left(t) \/ desc[t].p_detached)

LEMMA DeathsPipe ==
  ASSUME Typed, PipeInv, Deaths
  PROVE  PipeInv'
<1>1. Pipe' = Pipe /\ OneEach' /\ (FirstExits => FirstExits')
  BY SamePipe, Zenon DEF PipeInv, Deaths
<1>2. ASSUME NEW r \in Pipe PROVE RequestOK(r)'
  <2> SUFFICES ASSUME r.req_kind # "REQ_FREE" PROVE RequestOK(r)'
    BY Zenon DEF RequestOK
  <2>1. RequestOK(r) /\ r.req_thread \in Threads
    BY PipeTyped, Zenon DEF PipeInv, Typed
  <2>2. PICK u \in Threads : u = r.req_thread
    BY <2>1, Zenon
  <2>3. /\ orphans' = orphans /\ main_thread' = main_thread /\ attr' = attr
        /\ manager = "gone" => manager' = "gone"
        /\ pc'[u] = pc[u] \/ pc'[u] \in Gone
        /\ pc[u] \in Waiting /\ pc'[u] \in Gone => manager' = "gone" \/ u \in orphans
    BY Zenon DEF Deaths
  <2>4. u \notin orphans /\ (WaitsFor(u, r.req_kind) \/ (pc[u] \in Gone /\ manager = "gone"))
    BY <2>1, <2>2, Zenon DEF RequestOK
  <2>5. WaitsFor(u, r.req_kind) => pc[u] \in Waiting
    BY Zenon DEF WaitsFor, Waiting, Terminating
  <2>6. WaitsFor(u, r.req_kind)' \/ (pc'[u] \in Gone /\ manager' = "gone")
    <3>1. CASE pc'[u] = pc[u]
      BY <2>3, <2>4, <3>1, Zenon DEF WaitsFor
    <3>2. CASE pc'[u] \in Gone
      BY <2>3, <2>4, <2>5, <3>2, Zenon
    <3> QED
      BY <2>3, <3>1, <3>2, Zenon
  <2>7. ASSUME r.req_kind = "REQ_CREATE", pc'[u] \notin Gone
        PROVE  u \notin sigpending' /\ r.arg = attr'[u]
    <3>1. pc[u] \notin Gone /\ pc'[u] = pc[u] /\ pc[u] = "create_suspend"
      BY <2>3, <2>4, <2>7, Zenon DEF Deaths, WaitsFor
    <3>2. u \notin sigpending /\ r.arg = attr[u]
      BY <2>1, <2>2, <2>7, <3>1, Zenon DEF RequestOK
    <3>3. pc'[u] # "main_suspend"
      BY <3>1, Zenon
    <3> QED
      BY <2>3, <2>7, <3>2, <3>3, Zenon DEF Deaths
  <2>8. r.req_kind = "REQ_MAIN_THREAD_EXIT" => u = main_thread
    BY <2>1, <2>2, Zenon DEF RequestOK
  <2> QED
    BY <2>2, <2>3, <2>4, <2>6, <2>7, <2>8, Zenon DEF RequestOK
<1>3. ASSUME NEW k \in Threads \ orphans', pc'[k] = "kill_suspend" PROVE KillsFirst'
  <2>1. "kill_suspend" \notin Gone /\ "main_suspend" \notin Gone
    BY Zenon DEF Gone
  <2>2. KillsFirst /\ main_thread \in Threads
    BY <1>3, <2>1, Zenon DEF PipeInv, Deaths, Typed
  <2>3. pc'[main_thread] = "main_suspend" => pc[main_thread] = "main_suspend"
    BY <2>1, <2>2, Zenon DEF Deaths
  <2> QED
    BY <1>1, <2>2, <2>3, Zenon DEF KillsFirst, Deaths
<1> QED
  BY <1>1, <1>2, <1>3, Zenon DEF PipeInv

\* A thread that somebody holds is not freed.
LEMMA DeathsLeave ==
  ASSUME Typed, OwnInv, Deaths, NEW t \in Threads, pc[t] \in Joiner
  PROVE  th[t] \in Threads /\ Left(th[t])
<1>1. th[t] \in Threads /\ th[t] \in Pointer
  BY JoinNotNull, Zenon
<1>2. ~desc[th[t]].p_detached
  BY <1>1, Zenon DEF OwnInv, OwnOK, Has, Usable
<1> QED
  BY <1>1, <1>2, Zenon DEF Deaths

LEMMA DeathsRestart ==
  ASSUME Typed, OwnInv, RestartInv, Deaths
  PROVE  RestartInv'
<1>1. ASSUME NEW t \in sigpending' PROVE t \in Threads /\ Deserved(t)'
  <2>1. CASE t \in sigpending
    <3>1. t \in Threads /\ Deserved(t) /\ (pc'[t] \in Gone \/ pc'[t] = pc[t])
      BY <2>1, Zenon DEF RestartInv, Deaths
    <3>2. /\ main_thread' = main_thread /\ exit_requested' = exit_requested /\ th' = th
          /\ manager = "gone" => manager' = "gone"
      BY Zenon DEF Deaths
    <3>3. CASE pc'[t] \in Gone
      BY <3>1, <3>3, Zenon DEF Deserved
    <3>4. CASE pc'[t] = pc[t] /\ pc[t] = "create_suspend"
      BY <3>1, <3>4, Zenon DEF Deserved
    <3>5. CASE pc'[t] = pc[t] /\ pc[t] \in Sleeping /\ desc[th[t]].p_terminated
      <4>1. desc'[th[t]].p_terminated
        BY <3>1, <3>5, DeathsLeave, Zenon DEF Sleeping, Joiner, Left
      <4> QED
        BY <3>1, <3>2, <3>5, <4>1, Zenon DEF Deserved
    <3>6. CASE pc'[t] = pc[t] /\ pc[t] = "main_suspend" /\ t = main_thread /\ manager = "gone"
               /\ \A u \in Children : pc[u] \in Gone
      <4>1. \A u \in Children' : pc'[u] \in Gone
        BY <3>6, Zenon DEF Deaths, Children
      <4> QED
        BY <3>1, <3>2, <3>6, <4>1, Zenon DEF Deserved
    <3>7. CASE pc'[t] = pc[t] /\ pc[t] \in Terminating /\ exit_requested /\ manager = "gone"
               /\ t \notin sigcancel \cup orphans
      <4>1. t \notin sigcancel' \cup orphans'
        BY <3>7, Zenon DEF Deaths
      <4> QED
        BY <3>1, <3>2, <3>7, <4>1, Zenon DEF Deserved
    <3> QED
      BY <3>1, <3>3, <3>4, <3>5, <3>6, <3>7, Zenon DEF Deserved
  <2>2. CASE t \notin sigpending
    BY <2>2, Zenon DEF Deaths, Typed
  <2> QED
    BY <2>1, <2>2, Zenon
<1>2. ASSUME NEW t \in sigpending', pc'[t] \in Terminating PROVE t \in sigpending /\ pc[t] \in Terminating
  <2>1. pc'[t] \notin Gone \cup {"main_suspend"}
    BY <1>2, Zenon DEF Terminating, Gone
  <2>2. t \in sigpending /\ t \in Threads
    BY <1>1, <2>1, Zenon DEF Deaths
  <2> QED
    BY <1>2, <2>1, <2>2, Zenon DEF Deaths
<1> QED
  BY <1>1, <1>2, Zenon DEF RestartInv

LEMMA DeathsKeep ==
  ASSUME ReapInv, Safe, Deaths
  PROVE  Safe'
<1>1. Typed /\ PipeInv /\ RestartInv /\ CancelInv /\ MainInv /\ OwnInv /\ JoinInv
  BY Zenon DEF Safe, ReapInv
<1>2. PipeInv' /\ RestartInv'
  BY <1>1, DeathsPipe, DeathsRestart, Zenon
<1>3. CancelInv'
  BY <1>1, Zenon DEF CancelInv, Deaths
<1>4. MainInv'
  <2>1. main_thread \in Threads /\ "main_suspend" \in Waiting /\ "main_suspend" \notin Gone
    BY <1>1, Zenon DEF Typed, Waiting, Gone
  <2>2. main_thread' = main_thread /\ orphans' = orphans /\ main_thread \notin orphans
    BY <1>1, Zenon DEF Deaths, MainInv
  <2>3. \A t \in Threads : pc'[t] = "main_suspend" => t \in orphans \cup {main_thread}
    BY <1>1, <2>1, Zenon DEF MainInv, Deaths
  <2>4. main_thread_exiting' => \/ pc'[main_thread] = "main_suspend"
                                \/ pc'[main_thread] \in Gone /\ manager' = "gone"
    BY <1>1, <2>1, <2>2, Zenon DEF MainInv, Deaths
  <2> QED
    BY <2>2, <2>3, <2>4, Zenon DEF MainInv
<1>5. \A t \in Threads : pc'[t] \notin Gone => pc'[t] = pc[t] /\ pc[t] \notin Gone /\ desc'[t] = desc[t]
  <2>1. "zombie" \in Gone
    BY Zenon DEF Gone
  <2> QED
    BY <2>1, Zenon DEF Deaths
<1>6. OwnInv'
  <2> SUFFICES ASSUME NEW x \in Pointer PROVE OwnOK(x)'
    BY <1>1, Zenon DEF OwnInv, Deaths
  <2>1. OwnOK(x) /\ joinable' = joinable
    BY <1>1, Zenon DEF OwnInv, Deaths
  <2>2. Freed(x)' <=> Freed(x)
    BY SamePipe, Zenon DEF Freed, Deaths
  <2>3. ASSUME NEW t \in Threads, Has(t, x)' PROVE Has(t, x)
    <3>1. pc'[t] \notin Gone
      BY <2>3, Zenon DEF Has, Joiner, Answered, Gone
    <3>2. pc'[t] = pc[t] /\ desc'[t] = desc[t] /\ th' = th /\ attr' = attr
      BY <1>5, <3>1, Zenon DEF Deaths
    <3>3. pc[t] = "create_suspend" /\ t \in sigpending' => t \in sigpending
      <4>1. pc[t] = "create_suspend" => pc[t] # "main_suspend"
        BY Zenon
      <4> QED
        BY <3>1, <3>2, <4>1, Zenon DEF Deaths
    <3> QED
      BY <2>3, <3>2, <3>3, Zenon DEF Has, Answered
  <2>4. Usable(x) => Usable(x)'
    BY Zenon DEF Usable, Deaths, Left
  <2> QED
    BY <2>1, <2>2, <2>3, <2>4, Zenon DEF OwnOK
<1>7. JoinInv'
  <2> SUFFICES ASSUME NEW t \in Threads, pc'[t] \notin Gone PROVE JoinOK(t)'
    <3>1. Gone \cap {"detach_free", "join_check", "join_free", "exit_restart"} = {}
      BY Zenon DEF Gone
    <3>2. \A t \in Threads : pc'[t] \in Gone => JoinOK(t)'
      BY <3>1, Zenon DEF JoinOK, Placed
    <3> QED
      BY <1>1, <3>2, Zenon DEF JoinInv, Deaths
  <2>1. /\ JoinOK(t) /\ pc'[t] = pc[t] /\ pc[t] \notin Gone /\ desc'[t] = desc[t]
        /\ th' = th /\ joining' = joining
    BY <1>1, <1>5, Zenon DEF JoinInv, Deaths
  <2>2. ASSUME NEW x, Awaits(x, t) PROVE Awaits(x, t)'
    <3>1. CASE pc[x] \in Sleeping /\ th[x] = t /\ x \in Threads
      <4>1. CASE pc'[x] = pc[x]
        BY <2>1, <3>1, <4>1, Zenon DEF Awaits
      <4>2. CASE pc'[x] \in Gone
        <5>1. pc[x] \notin Gone
          BY <3>1, Zenon DEF Sleeping, Gone
        <5>2. Mapped(x) /\ ~desc[x].p_exited
          BY <3>1, <5>1, Zenon DEF ReapInv, RunningMapped, Gone
        <5>3. Left(x) /\ desc'[x] = desc[x]
          BY <3>1, <5>1, Zenon DEF Deaths, Gone
        <5>4. pc'[x] = "zombie" => manager' = "gone"
          BY <3>1, <4>2, Zenon DEF Deaths
        <5> QED
          BY <3>1, <4>2, <5>2, <5>3, <5>4, Zenon DEF Awaits, Unseen, Left
      <4> QED
        BY <3>1, <4>1, <4>2, Zenon DEF Deaths
    <3>2. CASE Unseen(x) /\ x \in Threads
      <4>1. pc[x] = "zombie" => manager = "gone" /\ manager' = "gone"
        BY <3>2, Zenon DEF Unseen, Deaths
      <4>2. Left(x) /\ desc'[x] = desc[x] /\ pc'[x] \in Gone
        BY <3>2, <4>1, Zenon DEF Deaths, Unseen
      <4>3. pc'[x] = "zombie" => manager' = "gone"
        BY <3>2, <4>1, Zenon DEF Deaths, Unseen
      <4> QED
        BY <3>2, <4>2, <4>3, Zenon DEF Awaits, Unseen, Left
    <3> QED
      BY <2>2, <3>1, <3>2, Zenon DEF Awaits
  <2>3. pc[t] \in {"join_check", "join_free"} => desc'[th[t]].p_terminated
    BY <1>1, <2>1, DeathsLeave, Zenon DEF JoinOK, Placed, Joiner, Left
  <2>4. ASSUME pc[t] = "exit_restart"
        PROVE  /\ desc[t].p_terminated /\ Awaits(joining[t], t)'
               /\ (pc[joining[t]])' \notin Gone => joining'[t] \notin sigpending'
    <3>1. PICK x : x = joining[t]
      BY Zenon
    <3>2. desc[t].p_terminated /\ Awaits(x, t) /\ (pc[x] \notin Gone => x \notin sigpending)
      BY <2>1, <2>4, <3>1, Zenon DEF JoinOK, Placed
    <3>3. Awaits(x, t)' /\ x \in Threads
      BY <2>2, <3>2, Zenon DEF Awaits
    <3>4. ASSUME pc'[x] \notin Gone PROVE x \notin sigpending'
      <4>1. pc[x] \notin Gone /\ pc'[x] # "main_suspend"
        BY <1>5, <3>3, <3>4, Zenon DEF Awaits, Unseen, Sleeping
      <4> QED
        BY <3>2, <3>4, <4>1, Zenon DEF Deaths
    <3> QED
      BY <2>1, <3>1, <3>2, <3>3, <3>4, Zenon
  <2>5. ASSUME ~desc[t].p_terminated, desc[t].p_joining # NULL PROVE Awaits(desc[t].p_joining, t)'
    <3>1. PICK x : x = desc[t].p_joining
      BY Zenon
    <3>2. Awaits(x, t)
      BY <2>1, <2>5, <3>1, Zenon DEF JoinOK
    <3>3. Awaits(x, t)'
      BY <2>2, <3>2, Zenon
    <3> QED
      BY <2>1, <3>1, <3>3, Zenon
  <2>6. Placed(t)'
    BY <2>1, <2>3, <2>4, Zenon DEF JoinOK, Placed
  <2> QED
    BY <2>1, <2>5, <2>6, Zenon DEF JoinOK
<1> QED
  BY <1>2, <1>3, <1>4, <1>6, <1>7, Zenon DEF Safe

LEMMA DieKeeps ==
  ASSUME LifeInv, NEW self \in Threads, pc[self] \notin Gone, NEW bySignal, Die({self}, bySignal),
         UNCHANGED <<desc, th, joining, attr, joinable, stack_segments, orphans, main_thread, exit_requested,
                     main_thread_exiting, manager, requests, p_canceled>>,
         \A t \in sigcancel' : t \in sigcancel, \A t \in sigpending' : t \in sigpending,
         pc[self] \in Sleeping \cup Waiting => manager = "gone" \/ self \in orphans
  PROVE  Safe'
<1>1. /\ \A t \in Threads \ {self} : pc'[t] = pc[t]
      /\ pc'[self] \in Gone /\ (self \in orphans => pc'[self] = "reaped")
  BY Zenon DEF Die, Dead, Gone
<1>2. \A t \in Threads : Left(t) /\ desc'[t] = desc[t]
  BY Zenon DEF Left, Mapped
<1>3. Sleeping \cap Gone = {} /\ Waiting \cap Gone = {}
  BY Zenon DEF Sleeping, Waiting, Terminating, Gone
<1>4. Deaths
  BY <1>1, <1>2, <1>3, Zenon DEF Deaths
<1> QED
  BY <1>4, DeathsKeep, Zenon DEF LifeInv

LEMMA DieSafe ==
  ASSUME Cautious, LifeInv, NEW self \in Threads, UNCHANGED familyVars,
         \/ pthread_exit_process(self) /\ manager = "none"
         \/ pthread_exit_last(self) /\ ~(self = main_thread /\ manager # "none")
         \/ exit_resume(self)
         \/ sigcancel_handled(self)
         \/ killed_by_signal(self)
  PROVE  Safe'
<1>1. RestartInv /\ CancelInv
  BY Zenon DEF LifeInv, Safe
<1>2. UNCHANGED <<desc, th, joining, attr, joinable, stack_segments, orphans, main_thread, exit_requested,
                  main_thread_exiting, manager, requests>>
  BY Zenon DEF pthread_exit_process, pthread_exit_last, exit_resume, sigcancel_handled, killed_by_signal,
     familyVars, localVars, segmentVars, managerVars
<1>3. CASE \/ pthread_exit_process(self) /\ manager = "none"
           \/ pthread_exit_last(self) /\ ~(self = main_thread /\ manager # "none")
           \/ killed_by_signal(self)
  <2>1. pc[self] \in {"idle", "exit_last", "join_check", "exit_restart"}
    BY <1>3, Zenon DEF pthread_exit_process, pthread_exit_last, killed_by_signal, Faulting
  <2>2. pc[self] \notin Gone \cup Sleeping \cup Waiting
    BY <2>1, Zenon DEF Gone, Sleeping, Waiting, Terminating
  <2>3. UNCHANGED <<p_canceled, sigcancel, sigpending>>
    BY <1>3, Zenon DEF pthread_exit_process, pthread_exit_last, killed_by_signal, cancelVars, signalVars
  <2>4. Die({self}, FALSE) \/ Die({self}, TRUE)
    BY <1>3, Zenon DEF pthread_exit_process, pthread_exit_last, killed_by_signal
  <2> QED
    BY <1>2, <2>2, <2>3, <2>4, DieKeeps, Zenon
<1>4. CASE exit_resume(self)
  <2>1. self \in sigpending /\ sigpending' = sigpending \ {self}
    BY <1>1, <1>4, Restarted, Zenon DEF exit_resume
  <2>2. UNCHANGED <<p_canceled, sigcancel>>
    BY <1>1, <1>4, Zenon DEF exit_resume, suspend_any, CancelInv, cancel_handled, cancelVars
  <2>3. pc[self] \in {"main_suspend", "process_exit"} /\ Die({self}, FALSE)
    BY <1>4, Zenon DEF exit_resume
  <2>4. pc[self] \notin Gone
    BY <2>3, Zenon DEF Gone
  <2>5. manager = "gone"
    BY <1>1, <2>1, <2>3, Zenon DEF RestartInv, Deserved, Sleeping, Gone, Terminating
  <2> QED
    BY <1>2, <2>1, <2>2, <2>3, <2>4, <2>5, DieKeeps, Zenon
<1>5. CASE sigcancel_handled(self)
  <2>1. /\ self \in sigcancel /\ sigcancel' = sigcancel \ {self} /\ pc[self] \notin Gone
        /\ UNCHANGED <<p_canceled, sigpending>>
    BY <1>5, Zenon DEF sigcancel_handled, cancel_handled, signalVars
  <2>2. exit_requested /\ (manager = "gone" \/ self \in orphans)
    BY <1>1, <2>1, Zenon DEF CancelInv
  <2>3. Die({self}, FALSE)
    BY <1>5, <2>2, Zenon DEF sigcancel_handled
  <2> QED
    BY <1>2, <2>1, <2>2, <2>3, DieKeeps, Zenon
<1> QED
  BY <1>3, <1>4, <1>5, Zenon

LEMMA SelectSafe ==
  ASSUME LifeInv, manager_select, UNCHANGED familyVars
  PROVE  Safe'
<1>1. UNCHANGED <<desc, th, joining, attr, joinable, stack_segments, orphans, main_thread, exit_requested,
                  main_thread_exiting, requests, p_canceled, sigcancel, sigpending>>
  BY Zenon DEF manager_select, familyVars, localVars, segmentVars, cancelVars, signalVars
<1>2. \A t \in Threads : Left(t) /\ desc'[t] = desc[t]
  BY <1>1, Zenon DEF Left, Mapped
<1>3. manager # "gone"
  BY Zenon DEF manager_select
<1>4. CASE pc[main_thread] = "zombie"
  <2>1. manager' = "gone" /\ pc' = Dead(Running(live \ {main_thread}))
    BY <1>4, Zenon DEF manager_select, Die
  <2>2. \A t \in Threads : pc'[t] = pc[t] \/ (pc[t] \notin Gone /\ pc'[t] \in Gone)
    BY <2>1, Zenon DEF Dead, Running, Gone
  <2>3. Deaths
    BY <1>1, <1>2, <2>1, <2>2, Zenon DEF Deaths
  <2> QED
    BY <2>3, DeathsKeep, Zenon DEF LifeInv
<1>5. CASE pc[main_thread] # "zombie"
  <2>1. pc' = pc
    BY <1>5, Zenon DEF manager_select
  <2>2. Sleeping \cap Gone = {} /\ Waiting \cap Gone = {}
    BY Zenon DEF Sleeping, Waiting, Terminating, Gone
  <2>3. Deaths
    BY <1>1, <1>2, <1>3, <2>1, <2>2, Zenon DEF Deaths
  <2> QED
    BY <2>3, DeathsKeep, Zenon DEF LifeInv
<1> QED
  BY <1>4, <1>5, Zenon

LEMMA ReapSafe ==
  ASSUME LifeInv, ReapInv', pthread_reap_children, UNCHANGED familyVars
  PROVE  Safe'
<1>1. UNCHANGED <<th, joining, attr, joinable, orphans, main_thread, exit_requested,
                  main_thread_exiting, requests, p_canceled, sigcancel>>
  BY Zenon DEF pthread_reap_children, familyVars, localVars, cancelVars
<1>2. manager = "reap" /\ manager # "gone" /\ Typed /\ MainInv /\ main_thread \in Threads
  BY Zenon DEF pthread_reap_children, LifeInv, ReapInv, Safe, Typed
<1>3. Sleeping \cap Gone = {} /\ Waiting \cap Gone = {}
  BY Zenon DEF Sleeping, Waiting, Terminating, Gone
<1>4. CASE UNCHANGED <<desc, pc, stack_segments, sigpending>>
  <2>1. \A t \in Threads : Left(t) /\ desc'[t] = desc[t]
    BY <1>4, Zenon DEF Left, Mapped
  <2>2. Deaths
    BY <1>1, <1>2, <1>3, <1>4, <2>1, Zenon DEF Deaths
  <2> QED
    BY <2>2, DeathsKeep, Zenon DEF LifeInv
<1>5. ASSUME NEW t \in Children, pc[t] = "zombie", pthread_exited(t),
             \/ AllExited(main_thread_exiting, live') /\ reap_last(t)
             \/ reap_signaled(t)
             \/ reap_next(t)
      PROVE  Safe'
  <2>1. t \in Threads /\ t # main_thread
    BY Zenon DEF Children
  <2>2. \A u \in Threads \ {t} : Left(u) /\ desc'[u] = desc[u]
    BY <1>2, <1>5, <2>1, Zenon DEF pthread_exited, pthread_free, Typed, Left, Mapped
  <2>3. Left(t) \/ desc[t].p_detached
    <3>1. ASSUME ~desc[t].p_detached PROVE Left(t)
      <4>1. desc' = [desc EXCEPT ![t].p_exited = TRUE] /\ UNCHANGED stack_segments
        BY <1>5, <3>1, Zenon DEF pthread_exited
      <4> QED
        BY <1>2, <2>1, <4>1, Zenon DEF Left, Mapped, Typed, Descriptor
    <3> QED
      BY <3>1, Zenon
  <2>4. /\ pc'[t] = "reaped" /\ \A u \in Threads \ {t} : pc'[u] = pc[u] \/ (pc[u] \notin Gone /\ pc'[u] \in Gone)
        /\ \A u \in Threads \ {t} : pc'[u] # pc[u] => manager' = "gone"
    BY <1>2, <1>5, <2>1, Zenon DEF reap_last, reap_signaled, reap_next, Goto, Dead, Running, Typed, Gone
  <2>5. "reaped" \in Gone /\ "zombie" \in Gone
    BY Zenon DEF Gone
  <2>6. \A u \in sigpending' : u \in sigpending
          \/ (u = main_thread /\ main_thread_exiting /\ Deserved(u)' /\ pc'[u] \in Gone \cup {"main_suspend"})
    <3>1. CASE AllExited(main_thread_exiting, live') /\ reap_last(t)
      <4>1. main_thread_exiting /\ live' = {main_thread} /\ sigpending' = sigpending \cup {main_thread} /\ manager' = "gone"
        BY <3>1, Zenon DEF AllExited, reap_last, restart
      <4>2. pc[main_thread] = "main_suspend" /\ pc'[main_thread] = "main_suspend"
        BY <1>2, <2>1, <2>4, <3>1, <4>1, Zenon DEF MainInv, reap_last, Goto, Typed
      <4>3. \A u \in Children' : pc'[u] \in Gone
        BY <4>1, <1>1, Zenon DEF ReapInv, RunningMapped, Children, Gone
      <4>4. Deserved(main_thread)'
        BY <1>1, <4>1, <4>2, <4>3, Zenon DEF Deserved
      <4> QED
        BY <1>1, <4>1, <4>2, <4>4, Zenon
    <3>2. CASE reap_signaled(t) \/ reap_next(t)
      BY <3>2, Zenon DEF reap_signaled, reap_next, signalVars
    <3> QED
      BY <1>5, <3>1, <3>2, Zenon
  <2>7. Deaths
    <3>1. \A u \in Threads : pc[u] \in Sleeping \cup Waiting /\ pc'[u] \in Gone => manager' = "gone"
      BY <1>3, <1>5, <2>4, <2>5, Zenon
    <3>2. /\ \A u \in Threads : pc'[u] = pc[u] \/ pc'[u] \in Gone
          /\ \A u \in Threads : pc[u] \in Gone => pc'[u] \in Gone
          /\ \A u \in Threads : pc[u] \in Gone \ {"zombie"} => pc'[u] = pc[u]
      BY <1>5, <2>4, <2>5, Zenon
    <3>3. \A u \in Threads : \/ Left(u) /\ desc'[u] = desc[u]
                             \/ pc[u] = "zombie" /\ manager # "gone" /\ (Left(u) \/ desc[u].p_detached)
      BY <1>2, <1>5, <2>2, <2>3, Zenon
    <3> QED
      BY <1>1, <1>2, <2>6, <3>1, <3>2, <3>3, Zenon DEF Deaths
  <2> QED
    BY <2>7, DeathsKeep, Zenon DEF LifeInv
<1> QED
  <2>1. CASE \E t \in Children :
               /\ pc[t] = "zombie" /\ pthread_exited(t)
               /\ \/ AllExited(main_thread_exiting, live') /\ reap_last(t)
                  \/ reap_signaled(t)
                  \/ reap_next(t)
    BY <1>5, <2>1, Zenon
  <2> QED
    BY <1>4, <2>1, Zenon DEF pthread_reap_children, signalVars

-----------------------------------------------------------------------------
\* What the manager knows of the request it reads, and of the signals it has sent.
LEMMA Reads ==
  ASSUME LifeInv, manager = "request", requests' = Tail(requests), NEW r, r = Head(requests)
  PROVE  /\ r \in Pipe /\ r \in RequestType /\ r.req_thread \in Threads /\ OneEach'
         /\ \A q \in Pipe' : q \in Pipe /\ ~SameKey(q, r)
         /\ \A q \in Pipe : q.req_kind # "REQ_FREE" =>
              WaitsFor(q.req_thread, q.req_kind) /\ q.req_thread \notin orphans /\ pc[q.req_thread] \in Waiting
         /\ \A k \in Threads \ orphans : pc[k] = "kill_suspend" =>
              /\ ~main_thread_exiting /\ r.req_kind # "REQ_MAIN_THREAD_EXIT"
              /\ pc[main_thread] = "main_suspend" => main_thread \notin sigpending
              /\ r.req_kind # "REQ_PROCESS_EXIT" => FirstExits'
         /\ \A t \in sigpending : /\ t \in Threads /\ pc[t] \notin Terminating
                                  /\ \/ pc[t] = "create_suspend"
                                     \/ pc[t] \in Sleeping /\ desc[th[t]].p_terminated
                                     \/ pc[t] \in Gone
<1>1. Typed /\ PipeInv /\ RestartInv /\ requests \in Seq(RequestType) /\ requests # <<>> /\ manager # "gone"
  BY Zenon DEF LifeInv, ReapInv, Safe, Typed
<1>2. r \in Pipe /\ OneEach' /\ \A q \in Pipe' : q \in Pipe /\ ~SameKey(q, r)
  BY <1>1, ReadPipe, Zenon DEF PipeInv
<1>3. r \in RequestType /\ r.req_thread \in Threads
  BY <1>1, <1>2, PipeTyped, Zenon
<1>4. ASSUME NEW q \in Pipe, q.req_kind # "REQ_FREE"
      PROVE  WaitsFor(q.req_thread, q.req_kind) /\ q.req_thread \notin orphans /\ pc[q.req_thread] \in Waiting
  <2>1. RequestOK(q)
    BY <1>1, Zenon DEF PipeInv
  <2>2. WaitsFor(q.req_thread, q.req_kind) /\ q.req_thread \notin orphans
    BY <1>1, <1>4, <2>1, Zenon DEF RequestOK
  <2> QED
    BY <2>2, Zenon DEF WaitsFor, Waiting, Terminating
<1>5. ASSUME NEW k \in Threads \ orphans, pc[k] = "kill_suspend"
      PROVE  /\ ~main_thread_exiting /\ r.req_kind # "REQ_MAIN_THREAD_EXIT"
             /\ pc[main_thread] = "main_suspend" => main_thread \notin sigpending
             /\ r.req_kind # "REQ_PROCESS_EXIT" => FirstExits'
  <2>1. KillsFirst
    BY <1>1, <1>5, Zenon DEF PipeInv
  <2> QED
    BY <1>1, <2>1, FirstExitsRead, Zenon DEF KillsFirst
<1>6. ASSUME NEW t \in sigpending
      PROVE  /\ t \in Threads /\ pc[t] \notin Terminating
             /\ pc[t] = "create_suspend" \/ (pc[t] \in Sleeping /\ desc[th[t]].p_terminated) \/ pc[t] \in Gone
  <2>1. t \in Threads /\ Deserved(t)
    BY <1>1, Zenon DEF RestartInv
  <2> QED
    BY <1>1, <2>1, Zenon DEF Deserved, Sleeping, Terminating, Gone
<1> QED
  BY <1>2, <1>3, <1>4, <1>5, <1>6, Zenon

\* The manager executes a request r that starts no process.
Kept(t) ==
  /\ (Mapped(t)' <=> Mapped(t)) /\ desc'[t].p_terminated = desc[t].p_terminated
  /\ desc'[t].p_exited = desc[t].p_exited /\ desc'[t].p_joining = desc[t].p_joining
Handles(r) ==
  /\ UNCHANGED <<pc, th, joining, attr, joinable, orphans, main_thread, p_canceled>>
  /\ sigcancel' # sigcancel => manager' = "gone"
  /\ sigcancel' # {} => exit_requested'
  /\ main_thread_exiting' => main_thread_exiting \/ r.req_kind = "REQ_MAIN_THREAD_EXIT"
  /\ r.req_kind = "REQ_PROCESS_EXIT" => manager' = "gone"
  /\ \A t \in sigpending' : t \in sigpending \/ (t = r.req_thread /\ r.req_kind # "REQ_FREE" /\ Deserved(t)')
  /\ r.req_kind = "REQ_CREATE" => desc'[r.req_thread].p_retcode # "0"
  /\ \A t \in Threads : \/ Kept(t)
                        \/ r.req_kind = "REQ_FREE" /\ t = r.arg /\ pc[t] \in Gone /\ desc[t].p_exited
  /\ \A t \in Threads : desc'[t].p_detached = desc[t].p_detached \/ (r.req_kind = "REQ_FREE" /\ t = r.arg)
  /\ \A t \in Threads : /\ pc[t] \notin Gone => desc'[t].p_retval = desc[t].p_retval
                        /\ \/ pc[t] \in Gone \/ desc'[t].p_retcode = desc[t].p_retcode
                           \/ r.req_kind = "REQ_CREATE" /\ t = r.req_thread

LEMMA HandlesKeep ==
  ASSUME LifeInv, manager = "request", requests' = Tail(requests), NEW r, r = Head(requests), Handles(r)
  PROVE  Safe'
<1>1. Typed /\ PipeInv /\ RestartInv /\ CancelInv /\ MainInv /\ OwnInv /\ JoinInv /\ manager # "gone"
  BY Zenon DEF LifeInv, ReapInv, Safe
<1>2. /\ r \in Pipe /\ r \in RequestType /\ r.req_thread \in Threads /\ OneEach'
      /\ \A q \in Pipe' : q \in Pipe /\ ~SameKey(q, r)
      /\ \A q \in Pipe : q.req_kind # "REQ_FREE" =>
           WaitsFor(q.req_thread, q.req_kind) /\ q.req_thread \notin orphans /\ pc[q.req_thread] \in Waiting
  BY Reads, Zenon
<1>3. /\ \A k \in Threads \ orphans : pc[k] = "kill_suspend" =>
           /\ ~main_thread_exiting /\ r.req_kind # "REQ_MAIN_THREAD_EXIT"
           /\ pc[main_thread] = "main_suspend" => main_thread \notin sigpending
           /\ r.req_kind # "REQ_PROCESS_EXIT" => FirstExits'
  BY Reads, Zenon
<1>4. \A t \in sigpending : /\ t \in Threads /\ pc[t] \notin Terminating
                            /\ \/ pc[t] = "create_suspend"
                               \/ pc[t] \in Sleeping /\ desc[th[t]].p_terminated
                               \/ pc[t] \in Gone
  BY Reads, Zenon
<1>5. UNCHANGED <<pc, th, joining, attr, joinable, orphans, main_thread, p_canceled>>
  BY Zenon DEF Handles
<1>6. Sleeping \cap Gone = {} /\ Waiting \cap Gone = {} /\ Sleeping \cap Waiting = {}
  BY Zenon DEF Sleeping, Waiting, Terminating, Gone
<1>7. ASSUME NEW t \in sigpending', t \notin sigpending
      PROVE  t = r.req_thread /\ t \in Threads /\ r.req_kind # "REQ_FREE" /\ pc[t] \in Waiting /\ Deserved(t)'
  BY <1>2, <1>7, Zenon DEF Handles
\* A thread that is joined is not the one that is freed.
<1>8. ASSUME NEW t \in Threads, pc[t] \in Joiner
      PROVE  th[t] \in Threads /\ Kept(th[t])
  <2>1. th[t] \in Threads /\ OwnOK(th[t])
    BY <1>1, <1>8, JoinNotNull, Zenon DEF OwnInv
  <2>2. ~Freed(th[t])
    BY <1>8, <2>1, Zenon DEF OwnOK, Has
  <2> QED
    BY <1>2, <2>1, <2>2, Zenon DEF Freed, Handles
<1>9. PipeInv'
  <2>1. ASSUME NEW q \in Pipe', q.req_kind # "REQ_FREE" PROVE RequestOK(q)'
    <3>1. q \in Pipe /\ RequestOK(q) /\ ~SameKey(q, r)
      BY <1>1, <1>2, Zenon DEF PipeInv
    <3>2. WaitsFor(q.req_thread, q.req_kind)' /\ q.req_thread \notin orphans'
      BY <1>2, <1>5, <2>1, <3>1, Zenon DEF WaitsFor
    <3>3. ASSUME q.req_kind = "REQ_CREATE", pc[q.req_thread] \notin Gone
          PROVE  q.req_thread \notin sigpending' /\ q.arg = attr[q.req_thread]
      <4>1. q.req_thread \notin sigpending /\ q.arg = attr[q.req_thread] /\ pc[q.req_thread] = "create_suspend"
        BY <1>2, <2>1, <3>1, <3>3, Zenon DEF RequestOK, WaitsFor
      <4>2. ASSUME q.req_thread = r.req_thread, r.req_kind # "REQ_FREE" PROVE FALSE
        <5>1. WaitsFor(r.req_thread, r.req_kind)
          BY <1>2, <4>2, Zenon
        <5>2. r.req_kind = "REQ_CREATE"
          BY <4>1, <4>2, <5>1, Zenon DEF WaitsFor, Terminating
        <5> QED
          BY <2>1, <3>1, <3>3, <4>2, <5>2, Zenon DEF SameKey, Named
      <4> QED
        BY <1>7, <4>1, <4>2, Zenon
    <3> QED
      BY <1>5, <3>1, <3>2, <3>3, Zenon DEF RequestOK
  <2>2. ASSUME NEW k \in Threads \ orphans', pc'[k] = "kill_suspend" PROVE KillsFirst'
    <3>1. /\ ~main_thread_exiting /\ r.req_kind # "REQ_MAIN_THREAD_EXIT"
          /\ pc[main_thread] = "main_suspend" => main_thread \notin sigpending
          /\ r.req_kind # "REQ_PROCESS_EXIT" => FirstExits'
      BY <1>3, <1>5, <2>2, Zenon
    <3>2. ~main_thread_exiting' /\ (manager' = "gone" \/ FirstExits')
      BY <3>1, Zenon DEF Handles
    <3>3. ASSUME pc[main_thread] = "main_suspend" PROVE main_thread \notin sigpending'
      <4>1. r.req_kind # "REQ_FREE" => WaitsFor(r.req_thread, r.req_kind)
        BY <1>2, Zenon
      <4>2. ~(r.req_thread = main_thread /\ r.req_kind # "REQ_FREE")
        BY <3>1, <3>3, <4>1, Zenon DEF WaitsFor, Terminating
      <4> QED
        BY <1>7, <3>1, <3>3, <4>2, Zenon
    <3> QED
      BY <1>5, <3>2, <3>3, Zenon DEF KillsFirst
  <2>3. \A q \in Pipe' : RequestOK(q)'
    BY <2>1, Zenon DEF RequestOK
  <2> QED
    BY <1>2, <2>2, <2>3, Zenon DEF PipeInv
<1>10. RestartInv'
  <2>1. ASSUME NEW t \in sigpending' PROVE t \in Threads /\ Deserved(t)'
    <3>1. CASE t \in sigpending /\ pc[t] \in Sleeping /\ desc[th[t]].p_terminated
      <4>1. pc[t] \in Joiner
        BY <3>1, Zenon DEF Sleeping, Joiner
      <4>2. t \in Threads
        BY <1>4, <3>1, Zenon
      <4>3. desc'[th[t]].p_terminated
        BY <1>8, <3>1, <4>1, <4>2, Zenon DEF Kept
      <4> QED
        BY <1>5, <3>1, <4>2, <4>3, Zenon DEF Deserved
    <3>2. CASE t \in sigpending /\ (pc[t] = "create_suspend" \/ pc[t] \in Gone)
      BY <1>4, <1>5, <3>2, Zenon DEF Deserved
    <3>3. CASE t \notin sigpending
      BY <1>7, <3>3, Zenon
    <3> QED
      BY <1>4, <3>1, <3>2, <3>3, Zenon
  <2>2. ASSUME NEW t \in sigpending', pc'[t] \in Terminating PROVE t = r.req_thread
    BY <1>4, <1>5, <1>7, <2>2, Zenon
  <2> QED
    BY <2>1, <2>2, Zenon DEF RestartInv
<1>11. CancelInv'
  BY <1>1, <1>5, Zenon DEF CancelInv, Handles
<1>12. MainInv'
  <2>1. main_thread_exiting' => pc[main_thread] = "main_suspend"
    <3>1. CASE main_thread_exiting
      BY <1>1, <3>1, Zenon DEF MainInv
    <3>2. CASE r.req_kind = "REQ_MAIN_THREAD_EXIT"
      <4>1. RequestOK(r) /\ WaitsFor(r.req_thread, r.req_kind)
        BY <1>1, <1>2, <3>2, Zenon DEF PipeInv
      <4> QED
        BY <3>2, <4>1, Zenon DEF RequestOK, WaitsFor
    <3> QED
      BY <3>1, <3>2, Zenon DEF Handles
  <2> QED
    BY <1>1, <1>5, <2>1, Zenon DEF MainInv
<1>13. OwnInv'
  <2> SUFFICES ASSUME NEW x \in Pointer PROVE OwnOK(x)'
    BY <1>1, <1>5, Zenon DEF OwnInv
  <2>1. OwnOK(x)
    BY <1>1, Zenon DEF OwnInv
  <2>2. Freed(x)' => Freed(x) /\ ~(r.req_kind = "REQ_FREE" /\ r.arg = x)
    BY <1>2, Zenon DEF Freed, SameKey, Named
  <2>3. ASSUME NEW t \in Threads, Has(t, x)' PROVE Has(t, x)
    <3>1. pc[t] \notin Gone
      BY <1>5, <2>3, Zenon DEF Has, Joiner, Answered, Gone
    <3>2. desc'[t].p_retval = desc[t].p_retval
      BY <3>1, Zenon DEF Handles
    <3>3. CASE pc[t] \in Joiner /\ th[t] = x
      BY <3>3, Zenon DEF Has
    <3>4. CASE Answered(t)' /\ desc'[t].p_retval = x
      <4>1. ASSUME t = r.req_thread, r.req_kind # "REQ_FREE" PROVE FALSE
        <5>1. WaitsFor(t, r.req_kind)
          BY <1>2, <4>1, Zenon
        <5>2. r.req_kind = "REQ_CREATE"
          BY <1>5, <3>4, <5>1, Zenon DEF WaitsFor, Terminating, Answered
        <5> QED
          BY <3>4, <4>1, <5>2, Zenon DEF Handles, Answered
      <4>2. t \in sigpending' => t \in sigpending
        BY <1>7, <4>1, Zenon
      <4>3. r.req_kind = "REQ_CREATE" => r.req_kind # "REQ_FREE"
        BY Zenon
      <4>4. desc'[t].p_retcode = desc[t].p_retcode
        BY <3>1, <4>1, <4>3, Zenon DEF Handles
      <4> QED
        BY <1>5, <3>2, <3>4, <4>2, <4>4, Zenon DEF Has, Answered
    <3> QED
      BY <1>5, <2>3, <3>3, <3>4, Zenon DEF Has
  <2>4. Usable(x) /\ ~(r.req_kind = "REQ_FREE" /\ r.arg = x) => Usable(x)'
    BY Zenon DEF Usable, Handles, Kept
  <2>5. ASSUME r.req_kind = "REQ_FREE", r.arg = x
        PROVE  x \notin joinable /\ ~Freed(x)' /\ \A t \in Threads : ~Has(t, x)'
    <3>1. Freed(x)
      BY <1>2, <2>5, Zenon DEF Freed
    <3> QED
      BY <2>1, <2>2, <2>3, <2>5, <3>1, Zenon DEF OwnOK
  <2> QED
    BY <1>5, <2>1, <2>2, <2>3, <2>4, <2>5, Zenon DEF OwnOK
<1>14. JoinInv'
  <2> SUFFICES ASSUME NEW t \in Threads PROVE JoinOK(t)'
    BY <1>1, <1>5, Zenon DEF JoinInv
  <2>1. JoinOK(t)
    BY <1>1, Zenon DEF JoinInv
  <2>2. CASE pc[t] \in Gone
    <3>1. Gone \cap {"detach_free", "join_check", "join_free", "exit_restart"} = {}
      BY Zenon DEF Gone
    <3> QED
      BY <1>5, <2>2, <3>1, Zenon DEF JoinOK, Placed
  <2>3. CASE pc[t] \notin Gone
    <3>1. Kept(t)
      BY <2>3, Zenon DEF Handles
    <3>2. ASSUME NEW x, Awaits(x, t) PROVE Awaits(x, t)'
      <4>1. CASE x \in Threads /\ pc[x] \in Sleeping /\ th[x] = t
        BY <1>5, <4>1, Zenon DEF Awaits
      <4>2. CASE x \in Threads /\ Unseen(x)
        <5>1. pc[x] \in Gone /\ Mapped(x) /\ ~desc[x].p_exited /\ pc[x] # "zombie"
          BY <1>1, <4>2, Zenon DEF Unseen
        <5>2. Kept(x)
          BY <4>2, <5>1, Zenon DEF Handles
        <5> QED
          BY <1>5, <4>2, <5>1, <5>2, Zenon DEF Awaits, Unseen, Kept
      <4> QED
        BY <3>2, <4>1, <4>2, Zenon DEF Awaits
    <3>3. pc[t] \in {"join_check", "join_free"} => desc'[th[t]].p_terminated
      BY <1>8, <2>1, Zenon DEF JoinOK, Placed, Joiner, Kept
    <3>4. ASSUME pc[t] = "exit_restart"
          PROVE  /\ desc[t].p_terminated /\ Awaits(joining[t], t)'
                 /\ (pc[joining[t]])' \notin Gone => joining'[t] \notin sigpending'
      <4>1. PICK x : x = joining[t]
        BY Zenon
      <4>2. desc[t].p_terminated /\ Awaits(x, t) /\ (pc[x] \notin Gone => x \notin sigpending)
        BY <2>1, <3>4, <4>1, Zenon DEF JoinOK, Placed
      <4>3. Awaits(x, t)' /\ pc[x] \notin Waiting
        BY <1>6, <3>2, <4>2, Zenon DEF Awaits, Unseen
      <4>4. pc'[x] \notin Gone => x \notin sigpending'
        BY <1>5, <1>7, <4>2, <4>3, Zenon
      <4> QED
        BY <1>5, <4>1, <4>2, <4>3, <4>4, Zenon
    <3>5. ASSUME ~desc[t].p_terminated, desc[t].p_joining # NULL PROVE Awaits(desc[t].p_joining, t)'
      <4>1. PICK x : x = desc[t].p_joining
        BY Zenon
      <4>2. Awaits(x, t)
        BY <2>1, <2>3, <3>5, <4>1, Zenon DEF JoinOK
      <4>3. Awaits(x, t)' /\ desc'[t].p_joining = desc[t].p_joining
        BY <3>1, <3>2, <4>2, Zenon DEF Kept
      <4> QED
        BY <4>1, <4>3, Zenon
    <3>6. Placed(t)'
      BY <1>5, <2>1, <3>1, <3>3, <3>4, Zenon DEF JoinOK, Placed, Kept
    <3> QED
      BY <1>5, <3>1, <3>5, <3>6, Zenon DEF JoinOK, Kept
  <2> QED
    BY <2>2, <2>3, Zenon
<1> QED
  BY <1>9, <1>10, <1>11, <1>12, <1>13, <1>14, Zenon DEF Safe

LEMMA HandleSafe ==
  ASSUME LifeInv, manager_request, UNCHANGED familyVars, NEW r, r = Head(requests),
         \/ r.req_kind = "REQ_CREATE" /\ create_fails(r.req_thread) /\ manager' = "select"
            /\ UNCHANGED <<main_thread_exiting, exit_requested>>
         \/ r.req_kind = "REQ_FREE" /\ pthread_handle_free(r.arg)
         \/ r.req_kind = "REQ_PROCESS_EXIT" /\ pthread_handle_exit(r.req_thread)
         \/ r.req_kind = "REQ_MAIN_THREAD_EXIT" /\ handle_main_thread_exit
  PROVE  Safe'
<1>1. /\ Typed /\ PipeInv /\ CancelInv /\ MainInv /\ desc \in [Threads -> Descriptor]
      /\ manager = "request" /\ manager # "gone" /\ requests' = Tail(requests)
  BY Zenon DEF LifeInv, ReapInv, Safe, Typed, manager_request
<1>2. /\ r \in Pipe /\ r.req_thread \in Threads
      /\ r.req_kind # "REQ_FREE" => /\ WaitsFor(r.req_thread, r.req_kind) /\ r.req_thread \notin orphans
                                    /\ pc[r.req_thread] \in Waiting
  BY <1>1, Reads, Zenon
<1>3. UNCHANGED <<pc, th, joining, attr, joinable, orphans, main_thread, p_canceled>>
  BY Zenon DEF manager_request, familyVars, localVars, create_fails, pthread_handle_free, pthread_handle_exit,
     handle_main_thread_exit, cancelVars
<1>4. CASE r.req_kind = "REQ_CREATE" /\ create_fails(r.req_thread) /\ manager' = "select"
           /\ UNCHANGED <<main_thread_exiting, exit_requested>>
  <2>1. /\ desc'[r.req_thread].p_retcode = EAGAIN
        /\ \A t \in Threads : /\ desc'[t].p_terminated = desc[t].p_terminated
                              /\ desc'[t].p_exited = desc[t].p_exited
                              /\ desc'[t].p_joining = desc[t].p_joining
                              /\ desc'[t].p_detached = desc[t].p_detached
                              /\ desc'[t].p_retval = desc[t].p_retval
        /\ \A t \in Threads \ {r.req_thread} : desc'[t].p_retcode = desc[t].p_retcode
    BY <1>1, <1>2, <1>4, Zenon DEF create_fails, Descriptor
  <2>2. /\ sigcancel' = sigcancel /\ stack_segments' = stack_segments
        /\ sigpending' = sigpending \cup {r.req_thread}
    BY <1>4, Zenon DEF create_fails, cancelVars, segmentVars, restart
  <2>3. pc[r.req_thread] = "create_suspend"
    BY <1>2, <1>4, Zenon DEF WaitsFor
  <2>4. Deserved(r.req_thread)'
    BY <1>3, <2>3, Zenon DEF Deserved
  <2>5. /\ r.req_kind \notin {"REQ_FREE", "REQ_PROCESS_EXIT", "REQ_MAIN_THREAD_EXIT"}
        /\ desc'[r.req_thread].p_retcode # "0" /\ (sigcancel # {} => exit_requested)
    BY <1>1, <1>4, <2>1, Zenon DEF EAGAIN, CancelInv
  <2>6. Handles(r)
    BY <1>3, <1>4, <2>1, <2>2, <2>4, <2>5, Zenon DEF Handles, Kept, Mapped
  <2> QED
    BY <1>1, <2>6, HandlesKeep, Zenon
<1>5. CASE r.req_kind = "REQ_FREE" /\ pthread_handle_free(r.arg)
  <2>1. UNCHANGED <<sigcancel, sigpending, exit_requested, main_thread_exiting>> /\ manager' = "select"
    BY <1>5, Zenon DEF pthread_handle_free, cancelVars, signalVars
  <2>2. r.req_kind \notin {"REQ_CREATE", "REQ_PROCESS_EXIT", "REQ_MAIN_THREAD_EXIT"}
        /\ (sigcancel # {} => exit_requested)
    BY <1>1, <1>5, Zenon DEF CancelInv
  <2>3. r.arg \in Threads
    <3>1. r.arg \in Pointer
      BY <1>1, <1>2, <1>5, PipeTyped, Zenon DEF Typed, RequestType
    <3> QED
      BY <1>2, <1>5, <3>1, Zenon DEF LifeInv, Safe, OwnInv, OwnOK, Freed, Usable
  <2>4. CASE desc[r.arg].p_exited
    <3>1. pc[r.arg] \in Gone
      BY <2>3, <2>4, Zenon DEF LifeInv, ReapInv, Gone
    <3>2. /\ \A t \in Threads \ {r.arg} : desc'[t] = desc[t] /\ (Mapped(t)' <=> Mapped(t))
      BY <1>1, <1>5, <2>4, Zenon DEF pthread_handle_free, pthread_free, Mapped
    <3>3. Handles(r)
      BY <1>3, <1>5, <2>1, <2>2, <2>3, <2>4, <3>1, <3>2, Zenon DEF Handles, Kept
    <3> QED
      BY <1>1, <3>3, HandlesKeep, Zenon
  <2>5. CASE ~desc[r.arg].p_exited
    <3>1. desc' = [desc EXCEPT ![r.arg].p_detached = TRUE] /\ stack_segments' = stack_segments
      BY <1>5, <2>5, Zenon DEF pthread_handle_free
    <3>2. /\ \A t \in Threads : /\ desc'[t].p_terminated = desc[t].p_terminated
                                /\ desc'[t].p_exited = desc[t].p_exited
                                /\ desc'[t].p_joining = desc[t].p_joining
                                /\ desc'[t].p_retcode = desc[t].p_retcode
                                /\ desc'[t].p_retval = desc[t].p_retval
          /\ \A t \in Threads \ {r.arg} : desc'[t].p_detached = desc[t].p_detached
      BY <1>1, <2>3, <3>1, Zenon DEF Descriptor
    <3>3. Handles(r)
      BY <1>3, <1>5, <2>1, <2>2, <2>3, <3>1, <3>2, Zenon DEF Handles, Kept, Mapped
    <3> QED
      BY <1>1, <3>3, HandlesKeep, Zenon
  <2> QED
    BY <2>4, <2>5, Zenon
<1>6. CASE r.req_kind = "REQ_PROCESS_EXIT" /\ pthread_handle_exit(r.req_thread)
  <2>1. /\ UNCHANGED <<desc, stack_segments, main_thread_exiting>> /\ manager' = "gone" /\ exit_requested'
        /\ sigcancel' = sigcancel \cup (live \ {r.req_thread})
        /\ sigpending' = sigpending \cup {r.req_thread}
    BY <1>6, Zenon DEF pthread_handle_exit, segmentVars, restart
  <2>2. r.req_kind \notin {"REQ_CREATE", "REQ_FREE", "REQ_MAIN_THREAD_EXIT"}
    BY <1>6, Zenon
  <2>3. pc[r.req_thread] \in Terminating /\ pc[r.req_thread] \notin Gone
    BY <1>2, <1>6, Zenon DEF WaitsFor, Terminating, Gone
  <2>4. r.req_thread \notin sigcancel' \cup orphans'
    BY <1>1, <1>2, <1>3, <2>1, <2>2, <2>3, Zenon DEF CancelInv
  <2>5. Deserved(r.req_thread)'
    BY <1>3, <2>1, <2>3, <2>4, Zenon DEF Deserved
  <2>6. Handles(r)
    BY <1>3, <2>1, <2>2, <2>5, Zenon DEF Handles, Kept, Mapped
  <2> QED
    BY <1>1, <2>6, HandlesKeep, Zenon
<1>7. CASE r.req_kind = "REQ_MAIN_THREAD_EXIT" /\ handle_main_thread_exit
  <2>1. UNCHANGED <<desc, stack_segments, exit_requested, sigcancel>> /\ main_thread_exiting'
    BY <1>7, Zenon DEF handle_main_thread_exit, segmentVars, cancelVars
  <2>2. r.req_kind \notin {"REQ_CREATE", "REQ_FREE", "REQ_PROCESS_EXIT"} /\ (sigcancel # {} => exit_requested)
    BY <1>1, <1>7, Zenon DEF CancelInv
  <2>3. pc[r.req_thread] = "main_suspend" /\ r.req_thread = main_thread
    <3>1. RequestOK(r)
      BY <1>1, <1>2, Zenon DEF PipeInv
    <3> QED
      BY <1>2, <1>7, <3>1, Zenon DEF WaitsFor, RequestOK
  <2>4. \A t \in sigpending' : t \in sigpending \/ (t = r.req_thread /\ Deserved(t)')
    <3>1. CASE AllExited(TRUE, live)
      <4>1. live = {main_thread} /\ manager' = "gone" /\ sigpending' = sigpending \cup {main_thread}
        BY <1>7, <3>1, Zenon DEF AllExited, handle_main_thread_exit, restart
      <4>2. \A u \in Children : pc[u] \in Gone
        BY <4>1, Zenon DEF LifeInv, ReapInv, RunningMapped, Children, Gone
      <4>3. Children' = Children
        BY <1>3, Zenon DEF Children
      <4>4. Deserved(main_thread)'
        BY <1>3, <2>3, <4>1, <4>2, <4>3, Zenon DEF Deserved
      <4> QED
        BY <1>3, <2>3, <4>1, <4>4, Zenon
    <3>2. CASE ~AllExited(TRUE, live)
      BY <1>7, <3>2, Zenon DEF handle_main_thread_exit, signalVars
    <3> QED
      BY <3>1, <3>2, Zenon
  <2>5. Handles(r)
    BY <1>3, <1>7, <2>1, <2>2, <2>4, Zenon DEF Handles, Kept, Mapped
  <2> QED
    BY <1>1, <2>5, HandlesKeep, Zenon
<1> QED
  BY <1>4, <1>5, <1>6, <1>7, Zenon

\* The manager starts a thread in a segment that nobody knows of.
LEMMA NewSafe ==
  ASSUME LifeInv, manager = "request", manager' = "select", requests' = Tail(requests), NEW r, r = Head(requests),
         r.req_kind = "REQ_CREATE", NEW new \in Threads, ~Mapped(new), NEW creator, creator = r.req_thread,
         create_succeeds(creator, r.arg, new),
         UNCHANGED <<th, joining, attr, joinable, orphans, main_thread, exit_requested, main_thread_exiting>>
  PROVE  Safe'
<1>1. /\ Typed /\ PipeInv /\ RestartInv /\ CancelInv /\ MainInv /\ OwnInv /\ JoinInv /\ manager # "gone"
      /\ desc \in [Threads -> Descriptor] /\ main_thread \in Threads
  BY Zenon DEF LifeInv, ReapInv, Safe, Typed
<1>2. /\ r \in Pipe /\ r \in RequestType /\ creator \in Threads /\ OneEach'
      /\ \A q \in Pipe' : q \in Pipe /\ ~SameKey(q, r)
      /\ \A q \in Pipe : q.req_kind # "REQ_FREE" =>
           WaitsFor(q.req_thread, q.req_kind) /\ q.req_thread \notin orphans /\ pc[q.req_thread] \in Waiting
  BY Reads, Zenon
<1>3. /\ \A k \in Threads \ orphans : pc[k] = "kill_suspend" =>
           /\ ~main_thread_exiting /\ r.req_kind # "REQ_MAIN_THREAD_EXIT"
           /\ pc[main_thread] = "main_suspend" => main_thread \notin sigpending
           /\ r.req_kind # "REQ_PROCESS_EXIT" => FirstExits'
  BY Reads, Zenon
<1>4. \A t \in sigpending : /\ t \in Threads /\ pc[t] \notin Terminating
                            /\ \/ pc[t] = "create_suspend"
                               \/ pc[t] \in Sleeping /\ desc[th[t]].p_terminated
                               \/ pc[t] \in Gone
  BY Reads, Zenon
<1>5. Sleeping \cap Gone = {} /\ Waiting \cap Gone = {} /\ Sleeping \cap Waiting = {} /\ "idle" \notin Gone \cup Waiting \cup Sleeping
  BY Zenon DEF Sleeping, Waiting, Terminating, Gone
<1>6. /\ pc[new] \in Gone /\ pc[new] # "zombie" /\ pc[creator] = "create_suspend" /\ creator # new
      /\ r.arg = attr[creator] /\ r.arg \in BOOLEAN
  <2>1. pc[new] \in Gone /\ pc[new] # "zombie"
    BY Zenon DEF LifeInv, ReapInv, RunningMapped, Gone
  <2>2. WaitsFor(creator, "REQ_CREATE")
    BY <1>2, Zenon
  <2>3. pc[creator] = "create_suspend" /\ pc[creator] \notin Gone
    BY <2>2, Zenon DEF WaitsFor, Gone
  <2>4. RequestOK(r)
    BY <1>1, <1>2, Zenon DEF PipeInv
  <2>5. r.arg = attr[creator] /\ r.arg \in BOOLEAN
    BY <1>2, <2>3, <2>4, Zenon DEF RequestOK, RequestType
  <2> QED
    BY <2>1, <2>3, <2>5, Zenon
<1>7. /\ pc'[new] = "idle" /\ \A t \in Threads \ {new} : pc'[t] = pc[t]
      /\ sigpending' = (sigpending \ {new}) \cup {creator} /\ sigcancel' = sigcancel \ {new}
      /\ stack_segments' = stack_segments \cup {new}
  BY <1>1, ZenonT(30) DEF create_succeeds, Goto, Typed
<1>8. /\ ~desc'[new].p_terminated /\ desc'[new].p_joining = NULL /\ desc'[new].p_detached = r.arg
      /\ \A t \in Threads \ {new} : /\ desc'[t].p_terminated = desc[t].p_terminated
                                    /\ desc'[t].p_exited = desc[t].p_exited
                                    /\ desc'[t].p_joining = desc[t].p_joining
                                    /\ desc'[t].p_detached = desc[t].p_detached
      /\ \A t \in Threads \ {new, creator} : desc'[t] = desc[t]
      /\ desc'[creator].p_retval = new
  <2> DEFINE f == FreshDescriptor(r.arg)
             d == [desc EXCEPT ![new] = f]
             e == [d EXCEPT ![creator].p_retcode = "0"]
  <2>1. /\ f \in Descriptor /\ ~f.p_terminated /\ f.p_joining = NULL /\ f.p_detached = r.arg
    BY <1>6, FreshTyped, Zenon DEF FreshDescriptor
  <2> HIDE DEF f
  <2>2. d \in [Threads -> Descriptor] /\ d[new] = f /\ \A t \in Threads \ {new} : d[t] = desc[t]
    BY <1>1, <2>1, Zenon
  <2>3. desc' = [e EXCEPT ![creator].p_retval = new]
    BY Zenon DEF create_succeeds, f
  <2> HIDE DEF d
  <2>4. /\ e \in [Threads -> Descriptor] /\ \A t \in Threads \ {creator} : e[t] = d[t]
        /\ e[creator].p_terminated = d[creator].p_terminated
        /\ e[creator].p_exited = d[creator].p_exited
        /\ e[creator].p_joining = d[creator].p_joining
        /\ e[creator].p_detached = d[creator].p_detached
    BY <1>2, <2>2 DEF Descriptor
  <2> HIDE DEF e
  <2>5. /\ \A t \in Threads \ {creator} : desc'[t] = e[t]
        /\ desc'[creator].p_terminated = e[creator].p_terminated
        /\ desc'[creator].p_exited = e[creator].p_exited
        /\ desc'[creator].p_joining = e[creator].p_joining
        /\ desc'[creator].p_detached = e[creator].p_detached
        /\ desc'[creator].p_retval = new
    BY <1>2, <2>3, <2>4, ZenonT(30) DEF Descriptor
  <2>6. desc'[new] = f
    <3>1. new \in Threads \ {creator}
      BY <1>6, Zenon
    <3> QED
      BY <2>2, <2>4, <2>5, <3>1, ZenonT(30)
  <2>7. \A t \in Threads \ {new, creator} : desc'[t] = desc[t]
    BY <2>2, <2>4, <2>5, Zenon
  <2>8. d[creator] = desc[creator]
    BY <1>2, <1>6, <2>2, Zenon
  <2> QED
    BY <2>1, <2>4, <2>5, <2>6, <2>7, <2>8
\* Nobody holds the new thread's descriptor.
<1>9. /\ new \notin joinable /\ ~Freed(new) /\ \A t \in Threads : ~Has(t, new)
      /\ \A t \in Threads : pc[t] \in Joiner => th[t] \in Threads \ {new}
  <2>1. new \in Pointer
    BY Zenon DEF Pointer
  <2>2. new \notin joinable /\ ~Freed(new) /\ \A t \in Threads : ~Has(t, new)
    BY <1>1, <2>1, Zenon DEF OwnInv, OwnOK, Usable
  <2> QED
    BY <1>1, <2>2, JoinNotNull, Zenon DEF Has
<1>10. PipeInv'
  <2>1. ASSUME NEW q \in Pipe', q.req_kind # "REQ_FREE" PROVE RequestOK(q)'
    <3>1. q \in Pipe /\ RequestOK(q) /\ ~SameKey(q, r) /\ q.req_thread \in Threads
      BY <1>1, <1>2, PipeTyped, Zenon DEF PipeInv, Typed
    <3>2. /\ WaitsFor(q.req_thread, q.req_kind) /\ q.req_thread \notin orphans /\ pc[q.req_thread] \notin Gone
          /\ q.req_thread # new
      BY <1>2, <1>5, <1>6, <2>1, <3>1, Zenon
    <3>3. pc'[q.req_thread] = pc[q.req_thread]
      BY <1>7, <3>1, <3>2, Zenon
    <3>4. WaitsFor(q.req_thread, q.req_kind)'
      BY <3>2, <3>3, Zenon DEF WaitsFor
    <3>5. ASSUME q.req_kind = "REQ_CREATE" PROVE q.req_thread \notin sigpending' /\ q.arg = attr[q.req_thread]
      <4>1. q.req_thread \notin sigpending /\ q.arg = attr[q.req_thread]
        BY <2>1, <3>1, <3>2, <3>5, Zenon DEF RequestOK
      <4>2. q.req_thread # creator
        BY <3>1, <3>5, Zenon DEF SameKey, Named
      <4> QED
        BY <1>7, <4>1, <4>2, Zenon
    <3> QED
      BY <3>1, <3>2, <3>4, <3>5, Zenon DEF RequestOK
  <2>2. ASSUME NEW k \in Threads \ orphans', pc'[k] = "kill_suspend" PROVE KillsFirst'
    <3>1. pc[k] = "kill_suspend"
      BY <1>7, <2>2, Zenon
    <3>2. /\ ~main_thread_exiting /\ FirstExits'
          /\ pc[main_thread] = "main_suspend" => main_thread \notin sigpending
      BY <1>3, <2>2, <3>1, Zenon
    <3>3. ASSUME pc'[main_thread] = "main_suspend" PROVE main_thread \notin sigpending'
      <4>1. pc[main_thread] = "main_suspend" /\ main_thread # creator
        BY <1>1, <1>6, <1>7, <3>3, Zenon
      <4> QED
        BY <1>7, <3>2, <4>1, Zenon
    <3> QED
      BY <3>2, <3>3, Zenon DEF KillsFirst
  <2>3. \A q \in Pipe' : RequestOK(q)'
    BY <2>1, Zenon DEF RequestOK
  <2> QED
    BY <1>2, <2>2, <2>3, Zenon DEF PipeInv
<1>11. RestartInv'
  <2>1. ASSUME NEW t \in sigpending' PROVE t \in Threads /\ Deserved(t)' /\ pc'[t] \notin Terminating
    <3>1. t \in Threads /\ t # new /\ pc'[t] = pc[t] /\ (t = creator \/ t \in sigpending)
      BY <1>2, <1>4, <1>6, <1>7, Zenon
    <3>2. pc[t] \notin Terminating
      BY <1>4, <1>6, <3>1, Zenon DEF Terminating
    <3>3. CASE pc[t] = "create_suspend" \/ pc[t] \in Gone
      BY <3>1, <3>2, <3>3, Zenon DEF Deserved
    <3>4. CASE pc[t] \in Sleeping /\ desc[th[t]].p_terminated
      <4>1. pc[t] \in Joiner
        BY <3>4, Zenon DEF Sleeping, Joiner
      <4>2. desc'[th[t]].p_terminated
        BY <1>8, <1>9, <3>1, <3>4, <4>1, Zenon
      <4> QED
        BY <3>1, <3>2, <3>4, <4>2, Zenon DEF Deserved
    <3> QED
      BY <1>4, <1>6, <3>1, <3>3, <3>4, Zenon
  <2> QED
    BY <2>1, Zenon DEF RestartInv
<1>12. CancelInv'
  <2>1. DOMAIN p_canceled' = Threads /\ \A t \in Threads : ~p_canceled'[t]
    BY <1>1, Zenon DEF CancelInv, create_succeeds
  <2> QED
    BY <1>1, <1>7, <2>1, Zenon DEF CancelInv
<1>13. MainInv'
  <2>1. main_thread_exiting => pc'[main_thread] = "main_suspend"
    <3>1. main_thread_exiting => pc[main_thread] = "main_suspend" /\ main_thread # new
      BY <1>1, <1>6, Zenon DEF MainInv, Gone
    <3> QED
      BY <1>1, <1>7, <3>1, Zenon
  <2>2. \A t \in Threads : pc'[t] = "main_suspend" => pc[t] = "main_suspend"
    BY <1>7, Zenon
  <2> QED
    BY <1>1, <2>1, <2>2, Zenon DEF MainInv
<1>14. OwnInv'
  <2> SUFFICES ASSUME NEW x \in Pointer PROVE OwnOK(x)'
    BY <1>1, Zenon DEF OwnInv
  <2>1. OwnOK(x)
    BY <1>1, Zenon DEF OwnInv
  <2>2. Freed(x)' => Freed(x)
    BY <1>2, Zenon DEF Freed
  <2>3. ASSUME NEW t \in Threads, Has(t, x)' PROVE Has(t, x) \/ (t = creator /\ x = new /\ ~attr[creator])
    <3>1. CASE t = new
      BY <1>7, <2>3, <3>1, Zenon DEF Has, Joiner, Answered
    <3>2. CASE t = creator
      BY <1>6, <1>7, <1>8, <2>3, <3>2, Zenon DEF Has, Joiner, Answered
    <3>3. CASE t # new /\ t # creator
      <4>1. pc'[t] = pc[t] /\ desc'[t] = desc[t] /\ (t \in sigpending' => t \in sigpending)
        BY <1>7, <1>8, <3>3, Zenon
      <4> QED
        BY <2>3, <4>1, Zenon DEF Has, Answered
    <3> QED
      BY <3>1, <3>2, <3>3, Zenon
  <2>4. CASE x # new
    <3>1. Usable(x) => Usable(x)'
      BY <1>7, <1>8, <2>4, Zenon DEF Usable, Mapped
    <3> QED
      BY <2>1, <2>2, <2>3, <2>4, <3>1, Zenon DEF OwnOK
  <2>5. CASE x = new
    <3>1. x \notin joinable' /\ ~Freed(x)'
      BY <1>9, <2>2, <2>5, Zenon
    <3>2. \A t \in Threads : Has(t, x)' => t = creator /\ ~attr[creator]
      BY <1>9, <2>3, <2>5, Zenon
    <3>3. ~attr[creator] => Usable(x)'
      BY <1>6, <1>7, <1>8, <2>5, Zenon DEF Usable, Mapped
    <3> QED
      BY <3>1, <3>2, <3>3, Zenon DEF OwnOK
  <2> QED
    BY <2>4, <2>5, Zenon
<1>15. JoinInv'
  <2> SUFFICES ASSUME NEW t \in Threads PROVE JoinOK(t)'
    BY <1>1, Zenon DEF JoinInv
  <2>1. JoinOK(t)
    BY <1>1, Zenon DEF JoinInv
  <2>2. CASE t = new
    <3>1. pc'[t] = "idle" /\ ~desc'[t].p_terminated /\ desc'[t].p_joining = NULL
      BY <1>7, <1>8, <2>2, Zenon
    <3> QED
      BY <3>1, Zenon DEF JoinOK, Placed
  <2>3. CASE t # new
    <3>1. /\ pc'[t] = pc[t] /\ desc'[t].p_terminated = desc[t].p_terminated
          /\ desc'[t].p_joining = desc[t].p_joining
      BY <1>7, <1>8, <2>3, Zenon
    <3>2. ASSUME NEW x, Awaits(x, t) PROVE Awaits(x, t)' /\ x \in Threads /\ pc'[x] = pc[x]
      <4>1. x \in Threads /\ x # new
        BY <1>5, <1>6, <3>2, Zenon DEF Awaits, Unseen
      <4>2. pc'[x] = pc[x] /\ desc'[x].p_exited = desc[x].p_exited /\ (Mapped(x) => Mapped(x)')
        BY <1>7, <1>8, <4>1, Zenon DEF Mapped
      <4> QED
        BY <1>1, <3>2, <4>1, <4>2, Zenon DEF Awaits, Unseen
    <3>3. pc[t] \in {"join_check", "join_free"} => desc'[th[t]].p_terminated
      <4>1. pc[t] \in {"join_check", "join_free"} => pc[t] \in Joiner
        BY Zenon DEF Joiner
      <4> QED
        BY <1>8, <1>9, <2>1, <4>1, Zenon DEF JoinOK, Placed
    <3>4. ASSUME pc[t] = "exit_restart"
          PROVE  /\ desc[t].p_terminated /\ Awaits(joining[t], t)'
                 /\ (pc[joining[t]])' \notin Gone => joining'[t] \notin sigpending'
      <4>1. PICK x : x = joining[t]
        BY Zenon
      <4>2. desc[t].p_terminated /\ Awaits(x, t) /\ (pc[x] \notin Gone => x \notin sigpending)
        BY <2>1, <3>4, <4>1, Zenon DEF JoinOK, Placed
      <4>3. Awaits(x, t)' /\ pc'[x] = pc[x]
        BY <3>2, <4>2, Zenon
      <4>4. x # creator
        BY <1>6, <4>2, Zenon DEF Awaits, Unseen, Sleeping, Gone
      <4>5. pc'[x] \notin Gone => x \notin sigpending'
        BY <1>7, <4>2, <4>3, <4>4, Zenon
      <4> QED
        BY <4>1, <4>2, <4>3, <4>5, Zenon
    <3>5. ASSUME pc[t] \notin Gone, ~desc[t].p_terminated, desc[t].p_joining # NULL PROVE Awaits(desc[t].p_joining, t)'
      <4>1. PICK x : x = desc[t].p_joining
        BY Zenon
      <4>2. Awaits(x, t)
        BY <2>1, <3>5, <4>1, Zenon DEF JoinOK
      <4>3. Awaits(x, t)'
        BY <3>2, <4>2, Zenon
      <4> QED
        BY <3>1, <4>1, <4>3, Zenon
    <3>6. Placed(t)'
      BY <2>1, <3>1, <3>3, <3>4, Zenon DEF JoinOK, Placed
    <3> QED
      BY <3>1, <3>5, <3>6, Zenon DEF JoinOK
  <2> QED
    BY <2>2, <2>3, Zenon
<1> QED
  BY <1>10, <1>11, <1>12, <1>13, <1>14, <1>15, Zenon DEF Safe

LEMMA RequestSafe ==
  ASSUME LifeInv, manager_request, UNCHANGED familyVars
  PROVE  Safe'
<1>1. PICK r : r = Head(requests)
  BY Zenon
<1>2. manager = "request" /\ requests' = Tail(requests) /\ UNCHANGED localVars
  BY Zenon DEF manager_request
<1>3. ASSUME r.req_kind = "REQ_CREATE", pthread_handle_create(r.req_thread, r.arg) PROVE Safe'
  <2>1. ASSUME NEW new \in Threads \ (stack_segments \cup {InitialThread}), create_succeeds(r.req_thread, r.arg, new)
        PROVE  Safe'
    BY <1>1, <1>2, <1>3, <2>1, NewSafe, Zenon DEF Mapped, pthread_handle_create, familyVars, localVars
  <2>2. CASE create_fails(r.req_thread)
    BY <1>1, <1>3, <2>2, HandleSafe, Zenon DEF pthread_handle_create
  <2> QED
    BY <1>3, <2>1, <2>2, Zenon DEF pthread_handle_create
<1> QED
  BY <1>1, <1>3, HandleSafe, Zenon DEF manager_request

-----------------------------------------------------------------------------
\* fork, in the child, and pthread_kill_other_threads_np start a family of their own.
LEMMA EmptyPipe ==
  ASSUME requests' = <<>>
  PROVE  OneEach' /\ \A r : r \notin Pipe'
<1>1. DOMAIN requests' = {}
  OBVIOUS
<1> QED
  BY <1>1, Zenon DEF OneEach, Pipe

LEMMA ForkSafe ==
  ASSUME Cautious, LifeInv, NEW self \in Threads, fork(self)
  PROVE  Safe'
<1>1. /\ CancelInv /\ JoinInv /\ JoinOK(self) /\ pc[self] = "idle" /\ ~main_thread_exiting
  BY Zenon DEF LifeInv, Safe, JoinInv, fork, Cautious, MainExits
<1>2. /\ requests' = <<>> /\ main_thread' = self /\ manager' = "none" /\ orphans' = {} /\ joinable' = {}
      /\ sigpending' = {} /\ sigcancel' = {}
      /\ UNCHANGED <<desc, stack_segments, main_thread_exiting, p_canceled>>
      /\ pc'[self] = "idle" /\ \A t \in Threads \ {self} : pc'[t] = "none"
      /\ DOMAIN attr' = Threads /\ DOMAIN joining' = Threads
  BY Zenon DEF fork, __pthread_reset_main_thread
<1>3. \A t \in Threads : pc'[t] \in {"idle", "none"} /\ (t # self => pc'[t] \in Gone)
  BY <1>2, Zenon DEF Gone
<1>4. PipeInv'
  BY <1>2, <1>3, EmptyPipe, Zenon DEF PipeInv
<1>5. RestartInv' /\ CancelInv' /\ MainInv'
  <2>1. \A t \in Threads : pc'[t] # "main_suspend"
    BY <1>3, Zenon
  <2> QED
    BY <1>1, <1>2, <2>1, Zenon DEF RestartInv, CancelInv, MainInv
<1>6. OwnInv'
  <2>1. ASSUME NEW x \in Pointer PROVE OwnOK(x)'
    <3>1. ~Freed(x)'
      BY <1>2, EmptyPipe, Zenon DEF Freed
    <3>2. \A t \in Threads : ~Has(t, x)'
      BY <1>3, Zenon DEF Has, Joiner, Answered
    <3> QED
      BY <1>2, <3>1, <3>2, Zenon DEF OwnOK
  <2> QED
    BY <1>2, <2>1, Zenon DEF OwnInv
<1>7. JoinInv'
  <2>1. ASSUME NEW t \in Threads, t # self PROVE JoinOK(t)'
    <3>1. pc'[t] = "none" /\ pc'[t] \in Gone
      BY <1>2, <1>3, <2>1, Zenon
    <3> QED
      BY <3>1, Zenon DEF JoinOK, Placed
  <2>2. ~desc[self].p_terminated /\ pc[self] \notin Gone \cup Sleeping
    BY <1>1, Zenon DEF JoinOK, Placed, Gone, Terminated, Sleeping
  <2>3. Placed(self)'
    BY <1>2, <2>2, Zenon DEF Placed
  <2>4. ASSUME desc[self].p_joining # NULL PROVE Awaits(desc[self].p_joining, self)'
    <3>1. PICK x : x = desc[self].p_joining
      BY Zenon
    <3>2. Awaits(x, self)
      BY <1>1, <2>2, <2>4, <3>1, Zenon DEF JoinOK
    <3>3. x \in Threads \ {self} /\ (pc[x] \in Sleeping \/ Unseen(x))
      BY <2>2, <3>2, Zenon DEF Awaits, Unseen
    <3>4. Mapped(x) /\ ~desc[x].p_exited
      <4>1. CASE pc[x] \in Sleeping
        BY <3>3, <4>1, Zenon DEF LifeInv, ReapInv, RunningMapped, Sleeping
      <4> QED
        BY <3>3, <4>1, Zenon DEF Unseen
    <3>5. pc'[x] = "none" /\ pc'[x] \in Gone /\ pc'[x] # "zombie"
      BY <1>2, <1>3, <3>3, Zenon
    <3>6. Awaits(x, self)'
      BY <1>2, <3>3, <3>4, <3>5, Zenon DEF Awaits, Unseen, Mapped
    <3> QED
      BY <1>2, <3>1, <3>6, Zenon
  <2>5. JoinOK(self)'
    BY <1>2, <2>3, <2>4, Zenon DEF JoinOK
  <2> QED
    BY <1>2, <2>1, <2>5, Zenon DEF JoinInv
<1> QED
  BY <1>4, <1>5, <1>6, <1>7, Zenon DEF Safe

LEMMA KillSafe ==
  ASSUME Cautious, LifeInv, NEW self \in Threads, pthread_kill_other_threads_np_resume(self)
  PROVE  Safe'
<1>1. PipeInv /\ RestartInv /\ CancelInv /\ MainInv /\ OwnInv /\ JoinInv /\ Typed /\ pc[self] = "kill_suspend"
  BY Zenon DEF LifeInv, ReapInv, Safe, pthread_kill_other_threads_np_resume
<1>2. self \in sigpending /\ sigpending' = sigpending \ {self}
  BY <1>1, Restarted, Zenon DEF pthread_kill_other_threads_np_resume
<1>3. pc[self] \in Terminating /\ exit_requested /\ manager = "gone" /\ self \notin sigcancel \cup orphans
  BY <1>1, <1>2, Zenon DEF RestartInv, Deserved, Terminating, Sleeping, Gone
<1>4. ~main_thread_exiting /\ (pc[main_thread] = "main_suspend" => main_thread \notin sigpending)
  BY <1>1, <1>3, Zenon DEF PipeInv, KillsFirst
<1>5. /\ requests' = <<>> /\ main_thread' = self /\ manager' = "none" /\ joinable' = {}
      /\ orphans' = {t \in Threads \ {self} : pc[t] \notin Gone}
      /\ UNCHANGED <<desc, th, joining, attr, stack_segments, main_thread_exiting, exit_requested, p_canceled, sigcancel>>
  BY Zenon DEF pthread_kill_other_threads_np_resume, __pthread_reset_main_thread, cancelVars
<1>6. /\ pc'[self] = "idle" /\ pc'[self] \notin Gone
      /\ \A t \in Threads \ {self} : /\ pc[t] \notin Gone => pc'[t] = pc[t]
                                     /\ pc[t] \in Gone => pc'[t] \in Gone \ {"zombie"}
  BY <1>1, Zenon DEF pthread_kill_other_threads_np_resume, Gone, Typed
<1>7. PipeInv'
  <2>1. pc'[self] # "kill_suspend" /\ "kill_suspend" \notin Gone
    BY <1>6, Zenon DEF Gone
  <2>2. \A k \in Threads \ orphans' : pc'[k] # "kill_suspend"
    BY <1>5, <1>6, <2>1, Zenon
  <2> QED
    BY <1>5, <2>2, EmptyPipe, Zenon DEF PipeInv
<1>8. ASSUME NEW t \in sigpending' PROVE t \in Threads /\ Deserved(t)' /\ pc'[t] \notin Terminating
  <2>1. t \in Threads /\ t # self /\ Deserved(t) /\ pc[t] \notin Terminating
    BY <1>1, <1>2, <1>3, Zenon DEF RestartInv
  <2>2. CASE pc[t] \in Gone
    BY <1>6, <2>1, <2>2, Zenon DEF Deserved, Gone, Terminating
  <2>3. CASE pc[t] \notin Gone
    <3>1. pc'[t] = pc[t] /\ pc[t] # "main_suspend"
      BY <1>2, <1>4, <1>6, <2>1, <2>3, Zenon DEF Deserved, Sleeping
    <3> QED
      BY <1>5, <2>1, <2>3, <3>1, Zenon DEF Deserved
  <2> QED
    BY <2>2, <2>3, Zenon
<1>9. RestartInv'
  BY <1>8, Zenon DEF RestartInv
<1>10. CancelInv'
  BY <1>1, <1>3, <1>5, <1>6, Zenon DEF CancelInv
<1>11. MainInv'
  <2>1. pc'[self] # "main_suspend" /\ "main_suspend" \notin Gone
    BY <1>6, Zenon DEF Gone
  <2> QED
    BY <1>4, <1>5, <1>6, <2>1, Zenon DEF MainInv
<1>12. OwnInv'
  <2>1. ASSUME NEW x \in Pointer PROVE OwnOK(x)'
    <3>1. ~Freed(x)' /\ x \notin joinable' /\ OwnOK(x)
      BY <1>1, <1>5, EmptyPipe, Zenon DEF Freed, OwnInv
    <3>2. ASSUME NEW t \in Threads, Has(t, x)' PROVE Has(t, x)
      <4>1. pc'[t] \notin Gone \cup {"idle"}
        BY <3>2, Zenon DEF Has, Joiner, Answered, Gone
      <4>2. t # self /\ pc'[t] = pc[t]
        BY <1>6, <4>1, Zenon
      <4> QED
        BY <1>2, <1>5, <3>2, <4>2, Zenon DEF Has, Answered
    <3>3. Usable(x) => Usable(x)'
      BY <1>5, Zenon DEF Usable, Mapped
    <3> QED
      BY <3>1, <3>2, <3>3, Zenon DEF OwnOK
  <2> QED
    BY <1>1, <1>5, <2>1, Zenon DEF OwnInv
<1>13. JoinInv'
  <2> SUFFICES ASSUME NEW t \in Threads PROVE JoinOK(t)'
    BY <1>1, <1>5, Zenon DEF JoinInv
  <2>1. JoinOK(t)
    BY <1>1, Zenon DEF JoinInv
  <2>2. Sleeping \cap Gone = {} /\ "kill_suspend" \notin Gone \cup Sleeping \cup Terminated
    BY Zenon DEF Sleeping, Gone, Terminated
  <2>3. ASSUME NEW x, Awaits(x, t) PROVE Awaits(x, t)' /\ (pc'[x] \notin Gone => pc[x] \notin Gone)
    <3>1. x \in Threads \ {self} /\ (Unseen(x) \/ (pc[x] \in Sleeping /\ th[x] = t))
      BY <1>1, <2>2, <2>3, Zenon DEF Awaits, Unseen
    <3>2. CASE Unseen(x)
      BY <1>5, <1>6, <3>1, <3>2, Zenon DEF Awaits, Unseen, Mapped
    <3>3. CASE pc[x] \in Sleeping /\ th[x] = t
      BY <1>5, <1>6, <2>2, <3>1, <3>3, Zenon DEF Awaits
    <3> QED
      BY <3>1, <3>2, <3>3, Zenon
  <2>4. ASSUME pc[t] \notin Gone, ~desc[t].p_terminated, desc[t].p_joining # NULL PROVE Awaits(desc[t].p_joining, t)'
    <3>1. PICK x : x = desc[t].p_joining
      BY Zenon
    <3>2. Awaits(x, t)'
      BY <2>1, <2>3, <2>4, <3>1, Zenon DEF JoinOK
    <3> QED
      BY <1>5, <3>1, <3>2, Zenon
  <2>5. CASE pc[t] \in Gone
    <3>1. pc'[t] \in Gone /\ Gone \cap {"detach_free", "join_check", "join_free", "exit_restart"} = {}
      BY <1>1, <1>6, <2>5, Zenon DEF Gone
    <3> QED
      BY <3>1, Zenon DEF JoinOK, Placed
  <2>6. CASE t = self
    <3>1. ~desc[t].p_terminated
      BY <1>1, <2>1, <2>2, <2>6, Zenon DEF JoinOK, Placed
    <3>2. Placed(t)'
      BY <1>5, <1>6, <2>6, <3>1, Zenon DEF Placed
    <3> QED
      BY <1>1, <1>5, <2>2, <2>4, <2>6, <3>2, Zenon DEF JoinOK
  <2>7. CASE t # self /\ pc[t] \notin Gone
    <3>1. pc'[t] = pc[t]
      BY <1>6, <2>7, Zenon
    <3>2. ASSUME pc[t] = "exit_restart"
          PROVE  /\ desc[t].p_terminated /\ Awaits(joining[t], t)'
                 /\ (pc[joining[t]])' \notin Gone => joining'[t] \notin sigpending'
      <4>1. PICK x : x = joining[t]
        BY Zenon
      <4>2. desc[t].p_terminated /\ Awaits(x, t) /\ (pc[x] \notin Gone => x \notin sigpending)
        BY <2>1, <3>2, <4>1, Zenon DEF JoinOK, Placed
      <4>3. Awaits(x, t)' /\ (pc'[x] \notin Gone => x \notin sigpending')
        BY <1>2, <2>3, <4>2, Zenon
      <4> QED
        BY <1>5, <4>1, <4>2, <4>3, Zenon
    <3>3. Placed(t)'
      BY <1>5, <2>1, <3>1, <3>2, Zenon DEF JoinOK, Placed
    <3> QED
      BY <1>5, <2>4, <2>7, <3>3, Zenon DEF JoinOK
  <2> QED
    BY <2>5, <2>6, <2>7, Zenon
<1> QED
  BY <1>7, <1>9, <1>10, <1>11, <1>12, <1>13, Zenon DEF Safe

-----------------------------------------------------------------------------
(***************************************************************************)
(* The inductive invariant, and the properties.                            *)
(***************************************************************************)
LEMMA LifeInvInit == Init => LifeInv
<1> SUFFICES ASSUME Init PROVE LifeInv
  BY Zenon
<1>1. /\ requests = <<>> /\ sigpending = {} /\ sigcancel = {} /\ orphans = {} /\ ~main_thread_exiting
      /\ \A t \in Threads : pc[t] \in {"idle", "none"} /\ ~p_canceled[t]
      /\ \A t \in Threads : desc[t] = FreshDescriptor(FALSE)
      /\ DOMAIN attr = Threads /\ DOMAIN joining = Threads /\ DOMAIN p_canceled = Threads
      /\ joinable = {InitialThread} /\ InitialThread \in Threads
  BY LifecycleAssumption, Zenon DEF Init, CancelInit
<1>2. ASSUME NEW t \in Threads PROVE ~desc[t].p_terminated /\ ~desc[t].p_detached /\ desc[t].p_joining = NULL
  BY <1>1 DEF FreshDescriptor
<1>3. PipeInv
  <2>1. DOMAIN requests = {}
    BY <1>1
  <2>2. OneEach /\ \A r : r \notin Pipe
    BY <2>1, Zenon DEF OneEach, Pipe
  <2>3. \A k \in Threads : pc[k] # "kill_suspend"
    BY <1>1, Zenon
  <2> QED
    BY <2>2, <2>3, Zenon DEF PipeInv
<1>4. RestartInv /\ CancelInv /\ MainInv
  <2>1. \A t \in Threads : pc[t] # "main_suspend"
    BY <1>1, Zenon
  <2> QED
    BY <1>1, <2>1, Zenon DEF RestartInv, CancelInv, MainInv
<1>5. OwnInv
  <2>1. ASSUME NEW x \in Pointer PROVE OwnOK(x)
    <3>1. ~Freed(x)
      BY <1>1 DEF Freed, Pipe
    <3>2. \A t \in Threads : ~Has(t, x)
      BY <1>1, Zenon DEF Has, Joiner, Answered
    <3>3. Usable(InitialThread)
      BY <1>1, <1>2, Zenon DEF Usable, Mapped
    <3> QED
      BY <1>1, <3>1, <3>2, <3>3, Zenon DEF OwnOK
  <2> QED
    BY <1>1, <2>1, Zenon DEF OwnInv
<1>6. JoinInv
  BY <1>1, <1>2, Zenon DEF JoinInv, JoinOK, Placed
<1> QED
  BY <1>3, <1>4, <1>5, <1>6, ReapInvInit, Zenon DEF LifeInv, Safe

LEMMA StutterSafe ==
  ASSUME Safe, UNCHANGED vars
  PROVE  Safe'
<1>1. /\ UNCHANGED <<desc, pc, th, joining, attr, joinable, stack_segments, manager, main_thread_exiting,
                     exit_requested, main_thread, orphans, requests, sigpending, p_canceled, sigcancel>>
  BY Zenon DEF vars, localVars, segmentVars, managerVars, familyVars, signalVars, cancelVars
<1>2. Pipe' = Pipe /\ (OneEach => OneEach') /\ (FirstExits => FirstExits')
  BY <1>1, SamePipe, Zenon
<1>3. PipeInv'
  <2>1. KillsFirst => KillsFirst'
    BY <1>1, <1>2, Zenon DEF KillsFirst
  <2>2. \A r \in Pipe : RequestOK(r) => RequestOK(r)'
    BY <1>1, Zenon DEF RequestOK, WaitsFor
  <2> QED
    BY <1>1, <1>2, <2>1, <2>2, Zenon DEF Safe, PipeInv
<1>4. RestartInv'
  BY <1>1, Zenon DEF Safe, RestartInv, Deserved, Children
<1>5. CancelInv' /\ MainInv'
  BY <1>1, Zenon DEF Safe, CancelInv, MainInv
<1>6. OwnInv'
  <2>1. ASSUME NEW x \in Pointer PROVE OwnOK(x)'
    <3>1. (Freed(x)' <=> Freed(x)) /\ (Usable(x)' <=> Usable(x)) /\ \A t \in Threads : Has(t, x)' <=> Has(t, x)
      BY <1>1, <1>2, Zenon DEF Freed, Usable, Mapped, Has, Answered
    <3>2. OwnOK(x)
      BY Zenon DEF Safe, OwnInv
    <3> QED
      BY <1>1, <3>1, <3>2, Zenon DEF OwnOK
  <2> QED
    BY <1>1, <2>1, Zenon DEF Safe, OwnInv
<1>7. JoinInv'
  BY <1>1, Zenon DEF Safe, JoinInv, JoinOK, Placed, Awaits, Unseen, Mapped
<1> QED
  BY <1>3, <1>4, <1>5, <1>6, <1>7, Zenon DEF Safe

LEMMA LifeInvNext ==
  ASSUME Cautious, LifeInv, [Next]_vars
  PROVE  LifeInv'
<1>1. ReapInv'
  BY ReapInvNext, Zenon DEF LifeInv
<1> SUFFICES Safe'
  BY <1>1, Zenon DEF LifeInv
<1>2. CASE Manager
  <2>1. CASE manager_select /\ UNCHANGED familyVars
    BY <2>1, SelectSafe, Zenon
  <2>2. CASE pthread_reap_children /\ UNCHANGED familyVars
    BY <1>1, <2>2, ReapSafe, Zenon
  <2>3. CASE manager_request /\ UNCHANGED familyVars
    BY <2>3, RequestSafe, Zenon
  <2> QED
    BY <1>2, <2>1, <2>2, <2>3, Zenon DEF Manager
<1>3. ASSUME NEW self \in Threads \ orphans, ProgramCall(self) PROVE Safe'
  <2>1. ASSUME NEW detachstate \in DetachStates, pthread_create(self, detachstate), UNCHANGED familyVars
        PROVE  Safe'
    BY <2>1, CreateSafe, Zenon
  <2>2. ASSUME NEW target \in Threads, pthread_join(self, target), UNCHANGED familyVars PROVE Safe'
    BY <2>2, JoinSafe, Zenon
  <2>3. ASSUME NEW target \in Threads, pthread_detach(self, target), UNCHANGED familyVars,
               IF target = self THEN "self" \in Detaches ELSE "others" \in Detaches
        PROVE  Safe'
    BY <2>3, DetachSafe, Zenon DEF Cautious
  <2>4. CASE (pthread_exit_process(self) \/ pthread_kill_other_threads_np(self)) /\ UNCHANGED familyVars
    <3>1. CASE manager # "none" \/ pthread_kill_other_threads_np(self)
      BY <2>4, <3>1, ExitRequestSafe, Zenon
    <3>2. CASE manager = "none" /\ pthread_exit_process(self)
      BY <2>4, <3>2, DieSafe, Zenon
    <3> QED
      BY <2>4, <3>1, <3>2, Zenon
  <2>5. ASSUME NEW thread \in Threads, CallCancel(self, thread) PROVE FALSE
    BY <2>5, Zenon DEF CallCancel, Cautious
  <2>6. CASE pthread_exit_call(self) /\ UNCHANGED familyVars
    BY <2>6, StepSafe, Zenon
  <2>7. CASE killed_by_signal(self) /\ UNCHANGED familyVars
    BY <2>7, DieSafe, Zenon
  <2>8. CASE fork(self)
    BY <2>8, ForkSafe, Zenon
  <2> QED
    BY <1>3, <2>1, <2>2, <2>3, <2>4, <2>5, <2>6, <2>7, <2>8, ZenonT(30) DEF ProgramCall
<1>4. ASSUME NEW self \in Threads, LibraryStep(self) PROVE Safe'
  <2>1. CASE /\ UNCHANGED familyVars
             /\ \/ pthread_create_resume(self)
                \/ pthread_join_suspend(self)
                \/ pthread_join_resume(self)
                \/ pthread_join_check(self)
    BY <2>1, StepSafe, Zenon
  <2>2. CASE pthread_create_return(self) /\ UNCHANGED familyVars
    BY <2>2, ReturnSafe, Zenon
  <2>3. CASE request_free(self) /\ UNCHANGED familyVars
    BY <2>3, FreeSafe, Zenon
  <2>4. CASE (pthread_exit(self) \/ pthread_exit_restart(self)) /\ UNCHANGED familyVars
    BY <2>4, ExitSafe, Zenon
  <2>5. CASE pthread_exit_last(self) /\ UNCHANGED familyVars
    <3>1. CASE self = main_thread /\ manager # "none"
      BY <2>5, <3>1, ExitMainSafe, Zenon
    <3>2. CASE ~(self = main_thread /\ manager # "none")
      BY <2>5, <3>2, DieSafe, Zenon
    <3> QED
      BY <3>1, <3>2, Zenon
  <2>6. CASE (exit_resume(self) \/ sigcancel_handled(self)) /\ UNCHANGED familyVars
    BY <2>6, DieSafe, Zenon
  <2>7. CASE pthread_kill_other_threads_np_resume(self)
    BY <2>7, KillSafe, Zenon
  <2> QED
    BY <1>4, <2>1, <2>2, <2>3, <2>4, <2>5, <2>6, <2>7, ZenonT(30) DEF LibraryStep
<1>5. CASE UNCHANGED vars
  BY <1>5, StutterSafe, Zenon DEF LifeInv
<1> QED
  BY <1>2, <1>3, <1>4, <1>5, Zenon DEF Next

LEMMA LifeInvHolds ==
  ASSUME Cautious PROVE Spec => []LifeInv
<1>1. LifeInv /\ [Next]_vars => LifeInv'
  BY LifeInvNext, Zenon
<1> QED
  BY <1>1, LifeInvInit, PTL DEF Spec

\* No restart signal is on its way to a thread that does not sleep for it: what
\* suspend of src/restart.h needs, which does not look why it was woken up.
THEOREM NoStrayRestartHolds ==
  ASSUME Cautious PROVE Spec => []NoStrayRestart
<1>1. ASSUME LifeInv PROVE NoStrayRestart
  <2> SUFFICES ASSUME NEW t \in sigpending
               PROVE  \/ pc[t] = "create_suspend" /\ ~CreateQueued(t)
                      \/ pc[t] \in {"join_suspend", "join_sleep"} /\ desc[th[t]].p_terminated
                      \/ pc[t] = "main_suspend" /\ manager = "gone"
                      \/ pc[t] \in {"process_exit", "kill_suspend"} /\ exit_requested
                      \/ pc[t] \in Gone
    BY Zenon DEF NoStrayRestart
  <2>1. Deserved(t) /\ PipeInv
    BY <1>1, Zenon DEF LifeInv, Safe, RestartInv
  <2>2. ASSUME pc[t] = "create_suspend", CreateQueued(t) PROVE FALSE
    <3>1. PICK r \in Pipe : r.req_kind = "REQ_CREATE" /\ r.req_thread = t
      BY <2>2, Zenon DEF CreateQueued, Queued, Pipe
    <3>2. RequestOK(r) /\ pc[t] \notin Gone
      BY <2>1, <2>2, Zenon DEF PipeInv, Gone
    <3> QED
      BY <3>1, <3>2, Zenon DEF RequestOK
  <2> QED
    BY <2>1, <2>2, Zenon DEF Deserved, Sleeping, Terminating
<1> QED
  BY <1>1, LifeInvHolds, PTL

\* pthread_join of src/join.c returns only when the thread it waits for has
\* terminated.
THEOREM JoinAfterTerminationHolds ==
  ASSUME Cautious PROVE Spec => []JoinAfterTermination
<1>1. ASSUME LifeInv PROVE JoinAfterTermination
  BY <1>1, Zenon DEF LifeInv, Safe, JoinInv, JoinOK, Placed, JoinAfterTermination
<1> QED
  BY <1>1, LifeInvHolds, PTL

\* The memory of a joinable thread stays until it is joined: pthread_free of
\* src/manager.c is called for no thread that the program may still join.
THEOREM JoinableKeptHolds ==
  ASSUME Cautious PROVE Spec => []JoinableKept
<1>1. ASSUME LifeInv, NEW t \in joinable PROVE Mapped(t)
  <2>1. t \in Pointer /\ OwnInv
    BY <1>1, Zenon DEF LifeInv, Safe, OwnInv, Pointer
  <2> QED
    BY <1>1, <2>1, Zenon DEF OwnInv, OwnOK, Usable
<1>2. LifeInv => JoinableKept
  BY <1>1, Zenon DEF JoinableKept
<1> QED
  BY <1>2, LifeInvHolds, PTL

\* No descriptor is freed that a joiner, an exiting thread or the manager is still
\* to use (pthread_free of src/manager.c).
THEOREM DescriptorsLastHolds ==
  ASSUME Cautious PROVE Spec => []DescriptorsLast
<1>1. ASSUME LifeInv, ManagerRuns
      PROVE  /\ \A t \in Threads : pc[t] \in {"join_suspend", "join_sleep", "join_check"} => Mapped(th[t])
             /\ \A t \in Threads : pc[t] = "exit_restart" => Mapped(joining[t])
             /\ \A request \in Queued("REQ_CREATE") \cup Queued("REQ_FREE") : Mapped(Named(request))
  <2>1. Typed /\ RunningMapped /\ PipeInv /\ OwnInv /\ JoinInv /\ manager # "gone"
    BY <1>1, Zenon DEF LifeInv, ReapInv, Safe, ManagerRuns
  <2>2. ASSUME NEW t \in Threads, pc[t] \in {"join_suspend", "join_sleep", "join_check"} PROVE Mapped(th[t])
    <3>1. pc[t] \in Joiner /\ th[t] \in Pointer
      BY <2>1, <2>2, Zenon DEF Joiner, Typed
    <3> QED
      BY <2>1, <3>1, Zenon DEF OwnInv, OwnOK, Has, Usable
  <2>3. ASSUME NEW t \in Threads, pc[t] = "exit_restart" PROVE Mapped(joining[t])
    <3>1. Awaits(joining[t], t)
      BY <2>1, <2>3, Zenon DEF JoinInv, JoinOK, Placed
    <3> QED
      BY <2>1, <3>1, Zenon DEF Awaits, Unseen, RunningMapped, Sleeping
  <2>4. ASSUME NEW r \in Pipe, r.req_kind = "REQ_CREATE" PROVE Mapped(Named(r))
    <3>1. RequestOK(r) /\ r.req_thread \in Threads /\ Named(r) = r.req_thread
      BY <2>1, <2>4, PipeTyped, Zenon DEF PipeInv, Typed, Named
    <3>2. pc[r.req_thread] = "create_suspend"
      BY <2>1, <2>4, <3>1, Zenon DEF RequestOK, WaitsFor
    <3> QED
      BY <2>1, <3>1, <3>2, Zenon DEF RunningMapped
  <2>5. ASSUME NEW r \in Pipe, r.req_kind = "REQ_FREE" PROVE Mapped(Named(r))
    <3>1. r.arg \in Pointer /\ Named(r) = r.arg
      BY <2>1, <2>5, PipeTyped, Zenon DEF Typed, Named, RequestType
    <3> QED
      BY <2>1, <2>5, <3>1, Zenon DEF OwnInv, OwnOK, Freed, Usable
  <2>6. \A r \in Queued("REQ_CREATE") \cup Queued("REQ_FREE") :
          r \in Pipe /\ r.req_kind \in {"REQ_CREATE", "REQ_FREE"}
    BY Zenon DEF Queued, Pipe
  <2> QED
    BY <2>2, <2>3, <2>4, <2>5, <2>6, Zenon
<1>2. LifeInv => DescriptorsLast
  BY <1>1, Zenon DEF DescriptorsLast
<1> QED
  BY <1>2, LifeInvHolds, PTL

\* A step that brings no thread to life.
LEMMA MainKeeps ==
  ASSUME MainOutlives, UNCHANGED familyVars,
         exit_requested /\ manager = "gone" => exit_requested' /\ manager' = "gone",
         \A t \in Children : pc[t] \in Gone => pc'[t] \in Gone,
         pc'[main_thread] = "zombie" /\ main_thread \notin signaled' =>
           \/ pc[main_thread] = "zombie" /\ main_thread \notin signaled
           \/ exit_requested' /\ manager' = "gone"
           \/ \A t \in Children : pc'[t] \in Gone
  PROVE  MainOutlives'
<1>1. Children' = Children /\ main_thread' = main_thread
  BY Zenon DEF Children, familyVars
<1> QED
  BY <1>1, Zenon DEF MainOutlives

LEMMA MainOutlivesNext ==
  ASSUME Cautious, LifeInv, MainOutlives, [Next]_vars
  PROVE  MainOutlives'
<1>1. /\ Typed /\ ReapInv /\ RestartInv /\ CancelInv /\ PipeInv /\ MainInv /\ RunningMapped
      /\ main_thread \in Threads
  BY Zenon DEF LifeInv, ReapInv, Safe, Typed
<1>2. "zombie" \in Gone /\ Children \subseteq Threads
  BY Zenon DEF Gone, Children
<1>alone. manager = "none" => \A t \in Children : pc[t] \in Gone
  BY <1>1, Zenon DEF ReapInv, Gone
\* A thread moves, or dies.
<1>3. ASSUME NEW self \in Threads, UNCHANGED familyVars, UNCHANGED <<exit_requested, signaled, manager>>,
             pc[self] \notin Gone, pc'[self] \notin Gone, \A t \in Threads \ {self} : pc'[t] = pc[t]
      PROVE  MainOutlives'
  BY <1>1, <1>2, <1>3, MainKeeps, Zenon
<1>4. ASSUME NEW self \in Threads, UNCHANGED familyVars, UNCHANGED <<exit_requested, manager>>,
             pc[self] \notin Gone, NEW bySignal, Die({self}, bySignal),
             self = main_thread =>
               \/ bySignal
               \/ exit_requested /\ manager = "gone"
               \/ \A t \in Children : pc[t] \in Gone
      PROVE  MainOutlives'
  <2>1. \A t \in Threads : IF t = self THEN pc'[t] \in Gone ELSE pc'[t] = pc[t]
    BY <1>4, Zenon DEF Die, Dead, Gone
  <2>2. signaled \subseteq signaled' /\ (bySignal => self \in signaled')
    BY <1>4, Zenon DEF Die
  <2>3. \A t \in Children : pc[t] \in Gone => pc'[t] \in Gone
    BY <1>2, <2>1, Zenon
  <2> QED
    BY <1>1, <1>2, <1>4, <2>1, <2>2, <2>3, MainKeeps, Zenon
<1>5. CASE Manager
  <2>1. UNCHANGED familyVars
    BY <1>5, Zenon DEF Manager
  <2>2. CASE manager_select
    <3>1. manager # "gone"
      BY <2>2, Zenon DEF manager_select
    <3>2. /\ \A t \in Threads : pc'[t] = pc[t] \/ (pc[t] \notin Gone /\ pc'[t] \in Gone)
          /\ pc'[main_thread] = pc[main_thread] /\ signaled \subseteq signaled'
      BY <1>1, <2>2, Zenon DEF manager_select, Die, Dead, Running, Gone
    <3> QED
      BY <1>2, <2>1, <3>1, <3>2, MainKeeps, Zenon
  <2>3. CASE pthread_reap_children
    <3>1. manager # "gone"
      BY <2>3, Zenon DEF pthread_reap_children
    <3>2. CASE UNCHANGED <<pc, signaled>>
      BY <2>1, <3>1, <3>2, MainKeeps, Zenon
    <3>3. ASSUME NEW t \in Children, pc[t] = "zombie", reap_last(t) \/ reap_next(t) PROVE MainOutlives'
      <4>1. t # main_thread /\ \A u \in Threads : IF u = t THEN pc'[u] \in Gone ELSE pc'[u] = pc[u]
        BY <1>1, <3>3, Zenon DEF reap_last, reap_next, Goto, Children, Typed, Gone
      <4>2. UNCHANGED signaled
        BY <3>3, Zenon DEF reap_last, reap_next, deathVars
      <4> QED
        BY <1>1, <1>2, <2>1, <3>1, <4>1, <4>2, MainKeeps, Zenon
    <3>4. ASSUME NEW t \in Children, pc[t] = "zombie", reap_signaled(t) PROVE MainOutlives'
      <4>1. PICK spared \in SUBSET (Running(live) \cap Blocking) :
               /\ pc' = [Dead(Running(live) \ spared) EXCEPT ![t] = "reaped"]
               /\ signaled' = signaled \cup (Running(live) \ spared)
        BY <3>4, Zenon DEF reap_signaled
      <4>2. t # main_thread /\ \A u \in Threads : pc[u] \in Gone => pc'[u] \in Gone
        BY <4>1, Zenon DEF Dead, Children, Gone
      <4>3. pc'[main_thread] = pc[main_thread] \/ main_thread \in signaled'
        BY <1>1, <4>1, <4>2, Zenon DEF Dead
      <4>4. signaled \subseteq signaled'
        BY <4>1, Zenon
      <4> QED
        BY <1>2, <2>1, <3>1, <4>2, <4>3, <4>4, MainKeeps, Zenon
    <3> QED
      BY <2>3, <3>2, <3>3, <3>4, Zenon DEF pthread_reap_children, deathVars
  <2>4. CASE manager_request
    <3>1. PICK r : r = Head(requests)
      BY Zenon
    <3>2. manager = "request" /\ manager # "gone" /\ requests' = Tail(requests)
      BY <2>4, Zenon DEF manager_request
    <3>3. CASE UNCHANGED <<pc, signaled>>
      BY <2>1, <3>2, <3>3, MainKeeps, Zenon
    <3>4. ASSUME r.req_kind = "REQ_CREATE",
                 NEW new \in Threads \ (stack_segments \cup {InitialThread}),
                 create_succeeds(r.req_thread, r.arg, new)
          PROVE  MainOutlives'
      <4>1. /\ r.req_kind # "REQ_FREE" => WaitsFor(r.req_thread, r.req_kind) /\ r.req_thread \notin orphans
            /\ r.req_thread \in Threads
        BY <3>1, <3>2, Reads, Zenon
      <4>2. r.req_thread \in Threads \ orphans /\ pc[r.req_thread] = "create_suspend"
        BY <3>4, <4>1, Zenon DEF WaitsFor
      <4>3. r.req_thread \in Children \cup {main_thread} /\ pc[r.req_thread] \notin Gone
        BY <4>2, Zenon DEF Children, Gone
      <4>4. /\ pc'[new] = "idle" /\ \A t \in Threads \ {new} : pc'[t] = pc[t]
            /\ signaled' = signaled \ {new}
        BY <1>1, <3>4, Zenon DEF create_succeeds, Goto, Typed
      <4>5. ~(pc[main_thread] = "zombie" /\ main_thread \notin signaled /\ \A t \in Children : pc[t] \in Gone)
        BY <1>2, <4>3, Zenon
      <4>6. UNCHANGED <<main_thread, orphans>> /\ Children' = Children
        BY <2>1, Zenon DEF familyVars, Children
      <4>7. ASSUME pc'[main_thread] = "zombie", main_thread \notin signaled' PROVE FALSE
        <5>1. main_thread # new
          BY <4>4, <4>7, Zenon
        <5> QED
          BY <1>1, <3>2, <4>4, <4>5, <4>7, <5>1, Zenon DEF MainOutlives
      <4> QED
        BY <4>6, <4>7, Zenon DEF MainOutlives
    <3>5. ASSUME r.req_kind = "REQ_CREATE", pthread_handle_create(r.req_thread, r.arg) PROVE MainOutlives'
      BY <3>3, <3>4, <3>5, Zenon DEF pthread_handle_create, create_fails
    <3>6. \/ r.req_kind = "REQ_CREATE" /\ pthread_handle_create(r.req_thread, r.arg)
          \/ pthread_handle_free(r.arg) \/ pthread_handle_exit(r.req_thread) \/ handle_main_thread_exit
      BY <2>4, <3>1, Zenon DEF manager_request
    <3>7. CASE pthread_handle_free(r.arg) \/ pthread_handle_exit(r.req_thread) \/ handle_main_thread_exit
      <4>1. UNCHANGED <<pc, signaled>>
        <5>1. CASE pthread_handle_free(r.arg)
          BY <5>1, Zenon DEF pthread_handle_free
        <5>2. CASE pthread_handle_exit(r.req_thread)
          BY <5>2, Zenon DEF pthread_handle_exit
        <5>3. CASE handle_main_thread_exit
          BY <5>3, Zenon DEF handle_main_thread_exit
        <5> QED
          BY <3>7, <5>1, <5>2, <5>3, Zenon
      <4> QED
        BY <3>3, <4>1, Zenon
    <3> QED
      BY <3>5, <3>6, <3>7, Zenon
  <2> QED
    BY <1>5, <2>2, <2>3, <2>4, Zenon DEF Manager
<1>6. ASSUME NEW self \in Threads \ orphans, ProgramCall(self) PROVE MainOutlives'
  <2>1. ASSUME NEW detachstate \in DetachStates, pthread_create(self, detachstate), UNCHANGED familyVars
        PROVE  MainOutlives'
    <3>1. /\ pc[self] = "idle" /\ pc'[self] = "create_suspend" /\ UNCHANGED <<exit_requested, signaled>>
          /\ manager # "none" => manager' = manager
          /\ \A t \in Threads \ {self} : pc'[t] = pc[t]
      BY <1>1, <2>1, Zenon DEF pthread_create, deathVars, Goto, Typed
    <3>2. pc[self] \notin Gone /\ pc'[self] \notin Gone /\ pc[self] # "zombie" /\ self \in Threads
      BY <3>1, Zenon DEF Gone
    <3>3. CASE manager # "none"
      BY <1>3, <2>1, <3>1, <3>2, <3>3, Zenon
    <3>4. CASE manager = "none"
      <4>1. self = main_thread
        BY <1>1, <3>1, <3>4, Zenon DEF ReapInv, Children
      <4> QED
        BY <2>1, <3>2, <4>1, Zenon DEF MainOutlives, familyVars, Gone
    <3> QED
      BY <3>3, <3>4, Zenon
  <2>2. ASSUME NEW target \in Threads, pthread_join(self, target), UNCHANGED familyVars PROVE MainOutlives'
    <3>1. /\ pc[self] = "idle" /\ pc'[self] \in {"idle", "join_free", "join_suspend"}
          /\ UNCHANGED <<exit_requested, signaled, manager>> /\ \A t \in Threads \ {self} : pc'[t] = pc[t]
      BY <1>1, <2>2, Zenon DEF pthread_join, deathVars, managerVars, Goto, Typed
    <3>2. pc[self] \notin Gone /\ pc'[self] \notin Gone /\ self \in Threads
      BY <3>1, Zenon DEF Gone
    <3> QED
      BY <1>3, <2>2, <3>1, <3>2, Zenon
  <2>3. ASSUME NEW target \in Threads, pthread_detach(self, target), UNCHANGED familyVars PROVE MainOutlives'
    <3>1. /\ pc[self] = "idle" /\ pc'[self] \in {"idle", "detach_free"}
          /\ UNCHANGED <<exit_requested, signaled, manager>> /\ \A t \in Threads \ {self} : pc'[t] = pc[t]
      BY <1>1, <2>3, Zenon DEF pthread_detach, deathVars, managerVars, Goto, Typed
    <3>2. pc[self] \notin Gone /\ pc'[self] \notin Gone /\ self \in Threads
      BY <3>1, Zenon DEF Gone
    <3> QED
      BY <1>3, <2>3, <3>1, <3>2, Zenon
  <2>4. CASE /\ UNCHANGED familyVars
             /\ \/ pthread_exit_call(self) \/ pthread_kill_other_threads_np(self)
                \/ pthread_exit_process(self) /\ manager # "none"
    <3>1. /\ pc[self] = "idle" /\ pc'[self] \in {"exit", "kill_suspend", "process_exit"}
          /\ UNCHANGED <<exit_requested, signaled, manager>> /\ \A t \in Threads \ {self} : pc'[t] = pc[t]
      BY <1>1, <2>4, Zenon DEF pthread_exit_call, pthread_kill_other_threads_np, pthread_exit_process, deathVars,
         managerVars, Goto, Typed
    <3>2. pc[self] \notin Gone /\ pc'[self] \notin Gone /\ self \in Threads
      BY <3>1, Zenon DEF Gone
    <3> QED
      BY <1>3, <2>4, <3>1, <3>2, Zenon
  <2>5. CASE pthread_exit_process(self) /\ manager = "none" /\ UNCHANGED familyVars
    <3>1. pc[self] = "idle" /\ Die({self}, FALSE) /\ UNCHANGED <<exit_requested, manager>>
      BY <2>5, Zenon DEF pthread_exit_process, managerVars
    <3>2. pc[self] \notin Gone /\ self \in Threads
      BY <3>1, Zenon DEF Gone
    <3> QED
      BY <1>4, <1>alone, <2>5, <3>1, <3>2, Zenon
  <2>6. CASE killed_by_signal(self) /\ UNCHANGED familyVars
    <3>1. /\ pc[self] \in {"idle", "join_check", "exit_restart"} /\ Die({self}, TRUE)
          /\ UNCHANGED <<exit_requested, manager>>
      BY <2>6, Zenon DEF killed_by_signal, Faulting, managerVars
    <3>2. pc[self] \notin Gone /\ self \in Threads
      BY <3>1, Zenon DEF Gone
    <3> QED
      BY <1>4, <2>6, <3>1, <3>2, Zenon
  <2>7. ASSUME NEW thread \in Threads, CallCancel(self, thread) PROVE FALSE
    BY <2>7, Zenon DEF CallCancel, Cautious
  <2>8. CASE fork(self)
    BY <2>8, Zenon DEF fork, __pthread_reset_main_thread, MainOutlives
  <2> QED
    BY <1>6, <2>1, <2>2, <2>3, <2>4, <2>5, <2>6, <2>7, <2>8, Zenon DEF ProgramCall
<1>7. ASSUME NEW self \in Threads, LibraryStep(self) PROVE MainOutlives'
  <2>1. CASE /\ UNCHANGED familyVars
             /\ \/ pthread_create_resume(self) \/ pthread_create_return(self) \/ pthread_join_suspend(self)
                \/ pthread_join_resume(self) \/ pthread_join_check(self) \/ request_free(self)
                \/ pthread_exit(self) \/ pthread_exit_restart(self)
                \/ pthread_exit_last(self) /\ self = main_thread /\ manager # "none"
    <3>1. /\ pc[self] \in {"create_suspend", "create_return", "join_suspend", "join_sleep", "join_check",
                           "join_free", "detach_free", "exit", "exit_restart", "exit_last"}
          /\ UNCHANGED <<exit_requested, signaled, manager>>
      BY <2>1, Zenon DEF pthread_create_resume, pthread_create_return, pthread_join_suspend, pthread_join_resume,
         pthread_join_check, request_free, pthread_exit, pthread_exit_restart, pthread_exit_last, deathVars, managerVars
    <3>2. /\ pc'[self] \in {"create_return", "idle", "join_check", "join_sleep", "join_free", "exit",
                            "exit_restart", "exit_last", "main_suspend"}
          /\ \A t \in Threads \ {self} : pc'[t] = pc[t]
      BY <1>1, <2>1, Zenon DEF pthread_create_resume, pthread_create_return, pthread_join_suspend, pthread_join_resume,
         pthread_join_check, request_free, pthread_exit, pthread_exit_restart, pthread_exit_last, Goto, Typed
    <3>3. pc[self] \notin Gone /\ pc'[self] \notin Gone
      BY <3>1, <3>2, Zenon DEF Gone
    <3> QED
      BY <1>3, <2>1, <3>1, <3>2, <3>3, Zenon
  <2>2. CASE pthread_exit_last(self) /\ ~(self = main_thread /\ manager # "none") /\ UNCHANGED familyVars
    <3>1. pc[self] = "exit_last" /\ Die({self}, FALSE) /\ UNCHANGED <<exit_requested, manager>>
      BY <2>2, Zenon DEF pthread_exit_last, managerVars
    <3>2. pc[self] \notin Gone
      BY <3>1, Zenon DEF Gone
    <3> QED
      BY <1>4, <1>alone, <2>2, <3>1, <3>2, Zenon
  <2>3. CASE exit_resume(self) /\ UNCHANGED familyVars
    <3>1. /\ pc[self] \in {"main_suspend", "process_exit"} /\ Die({self}, FALSE)
          /\ UNCHANGED <<exit_requested, manager>> /\ self \in sigpending
      BY <1>1, <2>3, Restarted, Zenon DEF exit_resume, managerVars
    <3>2. pc[self] \notin Gone
      BY <3>1, Zenon DEF Gone
    <3>3. (exit_requested /\ manager = "gone") \/ \A t \in Children : pc[t] \in Gone
      BY <1>1, <3>1, Zenon DEF RestartInv, Deserved, Sleeping, Gone
    <3> QED
      BY <1>4, <2>3, <3>1, <3>2, <3>3, Zenon
  <2>4. CASE sigcancel_handled(self) /\ UNCHANGED familyVars
    <3>1. exit_requested /\ Die({self}, FALSE) /\ pc[self] \notin Gone /\ UNCHANGED <<exit_requested, manager>>
      BY <1>1, <2>4, Zenon DEF sigcancel_handled, cancel_handled, CancelInv, managerVars
    <3>2. self = main_thread => manager = "gone"
      BY <1>1, <2>4, <3>1, Zenon DEF sigcancel_handled, cancel_handled, CancelInv, MainInv
    <3> QED
      BY <1>4, <2>4, <3>1, <3>2, Zenon
  <2>5. CASE pthread_kill_other_threads_np_resume(self)
    BY <2>5, Zenon DEF pthread_kill_other_threads_np_resume, __pthread_reset_main_thread, MainOutlives
  <2> QED
    BY <1>7, <2>1, <2>2, <2>3, <2>4, <2>5, Zenon DEF LibraryStep
<1>8. CASE UNCHANGED vars
  BY <1>8, Zenon DEF vars, managerVars, deathVars, familyVars, MainOutlives, Children
<1> QED
  BY <1>5, <1>6, <1>7, <1>8, Zenon DEF Next

\* The main thread, in pthread_exit (src/join.c), is the last to end, unless exit is
\* called or it dies by a signal.
THEOREM MainOutlivesHolds ==
  ASSUME Cautious PROVE Spec => []MainOutlives
<1>1. Init => MainOutlives
  BY LifecycleAssumption, Zenon DEF Init, MainOutlives, Gone
<1>2. LifeInv /\ MainOutlives /\ [Next]_vars => MainOutlives'
  BY MainOutlivesNext, Zenon
<1> QED
  BY <1>1, <1>2, LifeInvHolds, PTL DEF Spec
=============================================================================
