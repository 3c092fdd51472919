----------------------------- MODULE MCSignals -----------------------------
(***************************************************************************)
(* Signals with bounds on the calls of the program.  All threads have been *)
(* restarted before, and t1 may have disabled cancellation.                *)
(***************************************************************************)
EXTENDS Signals

CONSTANTS t1,
          Calls,   \* bound on the calls of t1; the others make one less
          Kills    \* bound on the signals sent

VARIABLES calls, kills

mcVars == <<vars, calls, kills>>

MCInit ==
  /\ Init
  /\ p_signal = [t \in Threads |-> PTHREAD_SIG_RESTART]
  /\ \A t \in Threads \ {t1} : p_cancelstate[t] = "ENABLE"
  /\ calls = [t \in Threads |-> IF t = t1 THEN Calls ELSE Calls - 1] /\ kills = Kills

MCStep(self) == Step(self) /\ UNCHANGED <<calls, kills>>

MCNext ==
  \E self \in Threads :
    \/ /\ ProgramCall(self) /\ calls[self] > 0
       /\ calls' = [calls EXCEPT ![self] = @ - 1] /\ UNCHANGED kills
    \/ SignalSent(self) /\ kills > 0 /\ kills' = kills - 1 /\ UNCHANGED calls
    \/ MCStep(self)

\* The threads run and the kernel delivers their signals.
MCSpec == MCInit /\ [][MCNext]_mcVars /\ \A self \in Threads : WF_mcVars(MCStep(self))
=============================================================================
