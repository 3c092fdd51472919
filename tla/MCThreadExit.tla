---------------------------- MODULE MCThreadExit ----------------------------
(***************************************************************************)
(* ThreadExit with bounds on the calls of the program.                     *)
(***************************************************************************)
EXTENDS ThreadExit

CONSTANTS Calls,     \* bound on the calls of each thread
          KeyCalls,  \* bound on the creations and deletions of keys
          Requests   \* bound on the calls of pthread_cancel

VARIABLES calls, keyCalls, requests

MCInit ==
  /\ Init
  /\ calls = [t \in Threads |-> Calls]
  /\ keyCalls = KeyCalls
  /\ requests = Requests

mcVars == <<vars, calls, keyCalls, requests>>

MCStep(self) == LibraryStep(self) /\ UNCHANGED <<calls, keyCalls, requests>>

MCNext ==
  \/ /\ KeyCall /\ keyCalls > 0 /\ keyCalls' = keyCalls - 1
     /\ UNCHANGED <<calls, requests>>
  \/ \E self \in Threads :
     \/ /\ ProgramCall(self) /\ calls[self] > 0
        /\ calls' = [calls EXCEPT ![self] = @ - 1]
        /\ UNCHANGED <<keyCalls, requests>>
     \/ /\ Request(self) /\ requests > 0 /\ requests' = requests - 1
        /\ UNCHANGED <<calls, keyCalls>>
     \/ Ends(self) /\ UNCHANGED <<calls, keyCalls, requests>>
     \/ MCStep(self)

\* The threads that cancel go on, the kernel delivers signals, and handlers and
\* destructors return.
MCSpec ==
  /\ MCInit /\ [][MCNext]_mcVars
  /\ \A self \in Threads : WF_mcVars(MCStep(self))
=============================================================================
