----------------------------- MODULE ThreadExit -----------------------------
(***************************************************************************)
(* How a thread ends, from the call of pthread_exit or its cancellation to *)
(* the point where it says that it has terminated (Lifecycle goes on from  *)
(* there): the cleanup handlers of Cancel, then the destructors of         *)
(* Specific, both of which may be cut short by another cancellation.       *)
(***************************************************************************)
EXTENDS Specific

vars == <<cancelVars, specificVars>>

TypeOK == CancelTypeOK /\ SpecificTypeOK

Init == CancelInit /\ SpecificInit

KeyCall ==
  \/ \E destr_function \in Destructors \cup {NULL} : __pthread_key_create(destr_function)
  \/ \E key \in Keys : pthread_key_delete(key)

ProgramCall(self) ==
  \/ \E key \in Keys, null \in BOOLEAN : __pthread_setspecific(self, key, null)
  \/ CancelCall(self) /\ UNCHANGED specificVars

Request(thread) == pthread_cancel(thread) /\ UNCHANGED specificVars

\* A system call ends, or the program does.
Ends(self) ==
  /\ syscall_return(self) \/ call_pthread_exit(self)
  /\ UNCHANGED specificVars

\* The local variable of the second loop is set where the first one ends.
LibraryStep(self) ==
  \/ CancelStep(self)
     /\ IF code[self] # "destroy" /\ code'[self] = "destroy"
        THEN destroy_begin(self) ELSE UNCHANGED specificVars
  \/ __pthread_destroy_specifics(self)
  \/ destructor_returns(self)

Next ==
  \/ KeyCall
  \/ \E self \in Threads :
       ProgramCall(self) \/ Request(self) \/ Ends(self) \/ LibraryStep(self)

Spec == Init /\ [][Next]_vars
-----------------------------------------------------------------------------
\* A cancellation request is not overlooked: whenever a thread could be ended
\* at once (its state and type are what the handler looks for), the signal is
\* still to come, or the thread is about to test.  A type set after the signal
\* has come and gone must therefore be followed by a test.
CancelNoticed ==
  \A t \in Threads :
    AsyncDue(t) /\ code[t] # "exited" =>
      t \in killing \cup sigcancel \/ pc[t] \in {"test", "enter", "leave"}

\* The cleanup handlers run from the last one pushed to the first, each of
\* those of a region with deferred cancellation (the unlocking of a stream, say)
\* once, whether the region ends by itself or by a cancellation.
HandlersRunOnce ==
  \A t \in Threads : \A n \in DOMAIN p_cleanup[t] :
    LET buffer == p_cleanup[t][n] IN
    /\ buffer.defer => buffer.runs <= 1
    /\ code[t] \in {"destroy", "exited"} => buffer.runs >= 1
    /\ code[t] = "cleanup" /\ n < c[t] => buffer.runs >= 1
    /\ code[t] = "cleanup" /\ n > c[t] => buffer.runs = 0

\* The cancellation type the program asked for is the one in force in its own
\* code, and inside a region with deferred cancellation it is deferred: the
\* system calls that change it put it back.
TypeRestored ==
  \A t \in Threads :
    code[t] = "program" /\ pc[t] \in {"run", "test", "leave"} =>
      p_canceltype[t] = IF InRegion(t) THEN PTHREAD_CANCEL_DEFERRED ELSE wanted[t]

\* Inside a region with deferred cancellation the signal ends the thread only
\* where it waits in a system call that is a cancellation point.
RegionNotInterrupted ==
  [][\A t \in Threads :
       InRegion(t) /\ code[t] = "program" /\ t \in blocked' \ blocked =>
         pc[t] \in {"enter", "syscall"}]_vars

\* Each value a thread leaves is destroyed by the destructor of the key it was
\* stored under, once.
DestroyedOnce ==
  \A t \in Threads, key \in Keys :
    LET v == p_specific[t][key] IN
    v # NULL => /\ v.by \in {<<>>, <<v.destr>>}
                /\ code[t] = "exited" /\ v.destr # NULL => v.by = <<v.destr>>

\* A thread that is cancelled does not go on waiting in a system call.
CancelEndsCall ==
  \A t \in Threads : (pc[t] = "syscall" /\ CancelDue(t)) ~> pc[t] # "syscall"

=============================================================================
