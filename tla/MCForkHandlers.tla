--------------------------- MODULE MCForkHandlers ---------------------------
(***************************************************************************)
(* ForkHandlers with a bound on the calls of the program.                  *)
(***************************************************************************)
EXTENDS ForkHandlers

CONSTANT Calls   \* bound on the calls of the program

VARIABLE calls

mcVars == <<vars, calls>>

MCInit == Init /\ calls = Calls

MCStep(self) == (Unlocks(self) \/ Step(self)) /\ UNCHANGED calls

MCNext ==
  \E self \in Threads :
    \/ ProgramCall(self) /\ calls > 0 /\ calls' = calls - 1
    \/ MCStep(self)

\* The threads run, and unlock what they have locked.
MCSpec == MCInit /\ [][MCNext]_mcVars /\ \A self \in Threads : WF_mcVars(MCStep(self))
=============================================================================
