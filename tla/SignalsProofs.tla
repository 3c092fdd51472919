--------------------------- MODULE SignalsProofs ---------------------------
(***************************************************************************)
(* Restart signals are not lost to sigwait, to the masks of the program or *)
(* to its handlers, for every set of threads and of signals.  And as long  *)
(* as no two threads wait for the same signal at once, sigwait gives every *)
(* signal its handler back and returns one that it waited for.             *)
(***************************************************************************)
EXTENDS Signals, WellFoundedInduction, TLAPS

\* What RestartKept rests on.
SignalsInv ==
  /\ sigmask \in [Threads -> SUBSET NSIG]
  /\ sigpending \in [Threads -> SUBSET NSIG]
  /\ set \in [Threads -> SUBSET Waited]
  /\ MasksKept

\* No mask pthread_sigmask computes lets PTHREAD_SIG_RESTART through or holds
\* PTHREAD_SIG_CANCEL back.
LEMMA NewMaskKept ==
  ASSUME NEW mask0 \in SUBSET NSIG, NEW newmask \in SUBSET NSIG,
         NEW how \in {"SIG_SETMASK", "SIG_BLOCK", "SIG_UNBLOCK"},
         PTHREAD_SIG_RESTART \in mask0, PTHREAD_SIG_CANCEL \notin mask0
  PROVE  /\ NewMask(how, newmask, mask0) \in SUBSET NSIG
         /\ PTHREAD_SIG_RESTART \in NewMask(how, newmask, mask0)
         /\ PTHREAD_SIG_CANCEL \notin NewMask(how, newmask, mask0)
  BY DEF NewMask, NSIG, PTHREAD_SIG_RESTART, PTHREAD_SIG_CANCEL

LEMMA SignalsInvInit == Init => SignalsInv
  BY SignalsAssumption DEF Init, SignalsInv, MasksKept, NSIG, UserSignals,
     PTHREAD_SIG_RESTART, PTHREAD_SIG_CANCEL

LEMMA SignalsInvNext == SignalsInv /\ [Next]_vars => SignalsInv'
<1> SUFFICES ASSUME SignalsInv, [Next]_vars PROVE SignalsInv'
  OBVIOUS
<1>1. ASSUME NEW self \in Threads, ProgramCall(self) PROVE SignalsInv'
  <2>1. ASSUME NEW how \in {"SIG_SETMASK", "SIG_BLOCK", "SIG_UNBLOCK"},
               NEW newmask \in SUBSET NSIG, pthread_sigmask(self, how, newmask)
        PROVE  SignalsInv'
    <3>1. /\ NewMask(how, newmask, sigmask[self]) \in SUBSET NSIG
          /\ PTHREAD_SIG_RESTART \in NewMask(how, newmask, sigmask[self])
          /\ PTHREAD_SIG_CANCEL \notin NewMask(how, newmask, sigmask[self])
      BY NewMaskKept DEF SignalsInv, MasksKept
    <3> QED
      BY <2>1, <3>1 DEF pthread_sigmask, SignalsInv, MasksKept, waitVars
  <2>2. ASSUME NEW signals \in SUBSET Waited, sigwait(self, signals) PROVE SignalsInv'
    BY <2>2 DEF sigwait, SignalsInv, MasksKept
  <2>3. CASE suspend(self)
    BY <2>3 DEF suspend, SignalsInv, MasksKept, waitVars
  <2>4. ASSUME NEW newmask \in SUBSET (NSIG \ Waited)
        PROVE  newmask \in SUBSET NSIG /\ newmask \cup Waited \in SUBSET NSIG
    BY DEF NSIG, UserSignals
  <2> QED
    BY <1>1, <2>1, <2>2, <2>3, <2>4, Zenon DEF ProgramCall
<1>2. ASSUME NEW self \in Threads, SignalSent(self) PROVE SignalsInv'
  <2>1. UserSignals \cup {PTHREAD_SIG_RESTART, PTHREAD_SIG_CANCEL} \subseteq NSIG
    BY DEF NSIG
  <2> QED
    BY <1>2, <2>1 DEF SignalSent, pthread_kill, pthread_cancel, SignalsInv, MasksKept, waitVars
<1>3. ASSUME NEW self \in Threads, Step(self) PROVE SignalsInv'
  BY <1>3 DEF Step, sigwait_install, sigwait_test, sigwait_clear, sigwait_restore,
     sigwait_return, __pthread_sighandler, program_handler, pthread_handle_sigcancel,
     Taken, SignalsInv, MasksKept, waitVars
<1>4. CASE UNCHANGED vars
  BY <1>4 DEF vars, SignalsInv, MasksKept, waitVars
<1> QED
  BY <1>1, <1>2, <1>3, <1>4 DEF Next

\* The masks of the threads keep PTHREAD_SIG_RESTART blocked and
\* PTHREAD_SIG_CANCEL not, whatever is passed to pthread_sigmask.
THEOREM MasksKeptHolds == Spec => []MasksKept
<1>1. SignalsInv => MasksKept
  BY DEF SignalsInv
<1> QED
  BY <1>1, SignalsInvInit, SignalsInvNext, PTL DEF Spec

\* A pending restart is taken only in suspend: not in sigwait, whose own mask
\* blocks everything else, and not under any mask of the program.
THEOREM RestartKeptHolds == Spec => RestartKept
<1> DEFINE Kept == \A t \in Threads :
      PTHREAD_SIG_RESTART \in sigpending[t] \ sigpending'[t] => pc[t] = "suspend"
<1>1. SignalsInv /\ [Next]_vars => [Kept]_vars
  <2> SUFFICES ASSUME SignalsInv, [Next]_vars PROVE [Kept]_vars
    OBVIOUS
  <2>1. ASSUME NEW self \in Threads, NEW s \in NSIG, Taken(self, s) PROVE Kept
    <3> SUFFICES ASSUME NEW t \in Threads,
                        PTHREAD_SIG_RESTART \in sigpending[t] \ sigpending'[t]
                 PROVE  pc[t] = "suspend"
      OBVIOUS
    <3>1. t = self /\ s = PTHREAD_SIG_RESTART
      BY <2>1 DEF Taken
    <3>2. PTHREAD_SIG_RESTART \notin mask(t)
      BY <2>1, <3>1 DEF Taken
    <3>3. PTHREAD_SIG_RESTART \in NSIG \ (set[t] \cup {PTHREAD_SIG_CANCEL})
      BY SignalsAssumption DEF SignalsInv, NSIG, UserSignals, PTHREAD_SIG_RESTART, PTHREAD_SIG_CANCEL
    <3>4. PTHREAD_SIG_RESTART \in sigmask[t]
      BY DEF SignalsInv, MasksKept
    <3> QED
      BY <3>2, <3>3, <3>4 DEF mask
  <2>2. ASSUME NEW self \in Threads, Step(self) PROVE Kept
    <3>1. ASSUME sigpending' = sigpending PROVE Kept
      BY <3>1
    <3> QED
      BY <2>1, <2>2, <3>1 DEF Step, sigwait_install, sigwait_test, sigwait_clear,
         sigwait_restore, sigwait_return, __pthread_sighandler, program_handler,
         pthread_handle_sigcancel, NSIG
  <2>3. ASSUME NEW self \in Threads, ProgramCall(self) \/ SignalSent(self) PROVE Kept
    <3>1. \A t \in Threads : sigpending[t] \subseteq sigpending'[t]
      BY <2>3, Zenon DEF SignalsInv, ProgramCall, SignalSent, pthread_sigmask, sigwait,
         suspend, pthread_kill, pthread_cancel
    <3> QED
      BY <3>1
  <2> QED
    BY <2>2, <2>3 DEF Next
<1> QED
  BY <1>1, SignalsInvInit, SignalsInvNext, PTL DEF Spec, RestartKept
-----------------------------------------------------------------------------
(***************************************************************************)
(* The process-wide table of handlers.                                     *)
(***************************************************************************)

LEMMA TypeOKInit == Init => TypeOK
<1> SUFFICES ASSUME Init PROVE TypeOK
  OBVIOUS
<1>1. /\ 0 \in NSIG \cup {0} /\ PTHREAD_SIG_RESTART \in NSIG
      /\ UserSignals \cup {PTHREAD_SIG_RESTART} \subseteq NSIG
  BY DEF NSIG
<1>2. Installed \in [NSIG -> Handlers] /\ "program" \in Handlers
  BY DEF Installed, Handlers
<1>3. "run" \in Labels
  BY DEF Labels
<1>4. saved_signals \in [Threads -> [Waited -> Handlers]] /\ handler \in [NSIG -> Handlers]
  BY <1>2 DEF Init
<1>5. p_cancelstate \in [Threads -> {"ENABLE", "DISABLE"}] /\ p_signal \in [Threads -> NSIG \cup {0}]
  BY <1>1, SignalsAssumption, Zenon DEF Init
<1> QED
  BY <1>1, <1>3, <1>4, <1>5 DEF Init, TypeOK

\* The loops of sigwait go on with a signal that is left.
LEMMA NextTodo ==
  ASSUME TypeOK, NEW self \in Threads, todo[self] # {}
  PROVE  Next_todo(self) \in todo[self] /\ Next_todo(self) \in Waited
<1> DEFINE R == OpToRel(<, Nat)
<1>1. IsWellFoundedOn(R, Nat)
  BY NatLessThanWellFounded, Zenon
<1>2. \A x, y \in Nat : y < x => <<y, x>> \in R
  BY DEF OpToRel
<1>3. todo[self] \in SUBSET Nat /\ todo[self] \in SUBSET Waited
  BY SignalsAssumption DEF TypeOK, UserSignals
<1> HIDE DEF R
<1>4. PICK x \in todo[self] : \A y \in todo[self] : ~(<<y, x>> \in R)
  BY <1>1, <1>3, WFMin
<1>5. \A y \in todo[self] : ~(y < x)
  BY <1>2, <1>3, <1>4, Zenon
<1>6. \A y \in todo[self] : x <= y
  BY <1>3, <1>5
<1>7. Next_todo(self) \in todo[self]
  BY <1>6, Zenon DEF Next_todo
<1> QED
  BY <1>3, <1>7

\* Where a step leaves a thread, and what its handlers record.
LEMMA PlacesNext == TypeOK /\ [Next]_vars => pc' \in [Threads -> Labels]
<1> SUFFICES ASSUME TypeOK, [Next]_vars PROVE pc' \in [Threads -> Labels]
  OBVIOUS
<1>1. pc \in [Threads -> Labels]
  BY DEF TypeOK
<1>2. ASSUME NEW self \in Threads, NEW label \in Labels, Goto(self, label)
      PROVE  pc' \in [Threads -> Labels]
  BY <1>1, <1>2 DEF Goto
<1>3. ASSUME NEW self \in Threads PROVE Return(self) \in Labels
  BY <1>1 DEF Return, Labels
<1>4. /\ "run" \in Labels /\ "suspend" \in Labels /\ "install" \in Labels /\ "test" \in Labels
      /\ "sigsuspend" \in Labels /\ "clear" \in Labels /\ "restore" \in Labels
      /\ "testcancel" \in Labels /\ "exited" \in Labels
  BY DEF Labels
<1>5. ASSUME NEW self \in Threads, Step(self) PROVE pc' \in [Threads -> Labels]
  <2>1. CASE sigwait_install(self) \/ sigwait_test(self) \/ sigwait_clear(self)
    BY <2>1, <1>1, <1>2, <1>4 DEF sigwait_install, sigwait_test, sigwait_clear
  <2>2. CASE sigwait_restore(self) \/ sigwait_return(self)
    BY <2>2, <1>1, <1>2, <1>4 DEF sigwait_restore, sigwait_return
  <2>3. ASSUME NEW s \in NSIG, __pthread_sighandler(self, s) \/ program_handler(self, s)
        PROVE  pc' \in [Threads -> Labels]
    BY <2>3, <1>2, <1>3 DEF __pthread_sighandler, program_handler
  <2>4. CASE pthread_handle_sigcancel(self)
    BY <2>4, <1>2, <1>3, <1>4 DEF pthread_handle_sigcancel
  <2> QED
    BY <1>5, <2>1, <2>2, <2>3, <2>4 DEF Step
<1>6. ASSUME NEW self \in Threads, ProgramCall(self) \/ SignalSent(self)
      PROVE  pc' \in [Threads -> Labels]
  BY <1>6, <1>1, <1>2, <1>4, Zenon DEF ProgramCall, SignalSent, pthread_sigmask, sigwait, suspend,
     pthread_kill, pthread_cancel
<1> QED
  BY <1>1, <1>5, <1>6 DEF Next, vars

LEMMA TypeOKNext == SignalsInv /\ TypeOK /\ [Next]_vars => TypeOK'
<1> SUFFICES ASSUME SignalsInv, TypeOK, [Next]_vars PROVE TypeOK'
  OBVIOUS
<1>1. /\ sigmask' \in [Threads -> SUBSET NSIG] /\ sigpending' \in [Threads -> SUBSET NSIG]
      /\ pc' \in [Threads -> Labels]
  BY SignalsInvNext, PlacesNext DEF SignalsInv
<1>2. ASSUME NEW self \in Threads, ProgramCall(self) PROVE TypeOK'
  <2>1. ASSUME NEW signals \in SUBSET Waited, sigwait(self, signals) PROVE TypeOK'
    BY <1>1, <2>1 DEF sigwait, TypeOK, cancelVars
  <2>2. ASSUME NEW how, NEW newmask, pthread_sigmask(self, how, newmask) PROVE TypeOK'
    BY <1>1, <2>2, SMTT(30) DEF pthread_sigmask, TypeOK, cancelVars, waitVars
  <2>3. CASE suspend(self)
    BY <1>1, <2>3 DEF suspend, TypeOK, cancelVars, waitVars
  <2> QED
    BY <1>2, <2>1, <2>2, <2>3, Zenon DEF ProgramCall
<1>3. ASSUME NEW self \in Threads, SignalSent(self) PROVE TypeOK'
  BY <1>1, <1>3, ZenonT(30) DEF SignalSent, pthread_kill, pthread_cancel, TypeOK, cancelVars, waitVars
<1>4. ASSUME NEW self \in Threads, Step(self) PROVE TypeOK'
  <2>1. CASE sigwait_install(self)
    <3>1. todo[self] # {} => Next_todo(self) \in Waited /\ Next_todo(self) \in NSIG
      BY NextTodo DEF NSIG, UserSignals
    <3>2. "__pthread_sighandler" \in Handlers
      BY DEF Handlers
    <3>3. handler' \in [NSIG -> Handlers] /\ saved_signals' \in [Threads -> [Waited -> Handlers]]
      <4>1. CASE todo[self] # {}
        <5> DEFINE s == Next_todo(self)
        <5>1. /\ handler' = [handler EXCEPT ![s] = "__pthread_sighandler"]
              /\ saved_signals' = [saved_signals EXCEPT ![self][s] = handler[s]]
          BY <2>1, <4>1 DEF sigwait_install
        <5>2. handler[s] \in Handlers /\ s \in Waited
          BY <3>1, <4>1 DEF TypeOK
        <5> HIDE DEF s
        <5> QED
          BY <3>2, <5>1, <5>2, Zenon DEF TypeOK
      <4>2. CASE todo[self] = {}
        BY <2>1, <4>2 DEF sigwait_install, TypeOK
      <4> QED
        BY <4>1, <4>2
    <3>4. todo' \in [Threads -> SUBSET Waited]
      <4>1. todo' = todo \/ todo' = [todo EXCEPT ![self] = todo[self] \ {Next_todo(self)}]
        BY <2>1, Zenon DEF sigwait_install
      <4>2. todo \in [Threads -> SUBSET Waited] /\ todo[self] \ {Next_todo(self)} \in SUBSET Waited
        BY Zenon DEF TypeOK
      <4> QED
        BY <4>1, <4>2, Zenon
    <3> QED
      BY <1>1, <2>1, <3>3, <3>4, Zenon DEF sigwait_install, TypeOK, cancelVars
  <2>2. CASE sigwait_restore(self)
    <3>1. todo[self] # {} => Next_todo(self) \in Waited
      BY NextTodo
    <3>2. todo[self] # {} => saved_signals[self][Next_todo(self)] \in Handlers
      BY <3>1 DEF TypeOK
    <3>3. handler' \in [NSIG -> Handlers]
      BY <2>2, <3>2 DEF sigwait_restore, TypeOK
    <3>4. todo' \in [Threads -> SUBSET Waited]
      <4>1. todo' = todo \/ todo' = [todo EXCEPT ![self] = todo[self] \ {Next_todo(self)}]
        BY <2>2, Zenon DEF sigwait_restore
      <4>2. todo \in [Threads -> SUBSET Waited] /\ todo[self] \ {Next_todo(self)} \in SUBSET Waited
        BY Zenon DEF TypeOK
      <4> QED
        BY <4>1, <4>2, Zenon
    <3> QED
      BY <1>1, <2>2, <3>3, <3>4, SMTT(30) DEF sigwait_restore, TypeOK, cancelVars
  <2>3. CASE sigwait_test(self) \/ sigwait_clear(self) \/ sigwait_return(self)
    BY <1>1, <2>3, ZenonT(30) DEF sigwait_test, sigwait_clear, sigwait_return, TypeOK, cancelVars, waitVars
  <2>5. ASSUME NEW s \in NSIG, __pthread_sighandler(self, s) \/ program_handler(self, s)
        PROVE  TypeOK'
    <3>1. p_signal' \in [Threads -> NSIG \cup {0}]
      BY <2>5, Zenon DEF __pthread_sighandler, program_handler, TypeOK
    <3> QED
      BY <1>1, <2>5, <3>1 DEF __pthread_sighandler, program_handler, Taken, TypeOK, cancelVars, waitVars
  <2>6. CASE pthread_handle_sigcancel(self)
    BY <1>1, <2>6, ZenonT(30) DEF pthread_handle_sigcancel, Taken, TypeOK, cancelVars, waitVars
  <2> QED
    BY <1>4, <2>1, <2>2, <2>3, <2>5, <2>6 DEF Step
<1>5. CASE UNCHANGED vars
  BY <1>5 DEF vars, TypeOK, cancelVars, waitVars
<1> QED
  BY <1>2, <1>3, <1>4, <1>5 DEF Next

\* The signals whose handler thread t has replaced and not yet put back.
Changed(t) ==
  CASE pc[t] = "install" -> set[t] \ todo[t]
    [] pc[t] \in {"test", "sigsuspend", "clear"} -> set[t]
    [] pc[t] = "restore" -> todo[t]
    [] OTHER -> {}

\* The table differs from Installed exactly where some thread has changed it, that
\* thread has saved what was there, and no other thread waits for the signal.
HandlersInv ==
  /\ \A t \in Threads : todo[t] \subseteq set[t]
  /\ \A t, u \in Threads : t # u /\ InSigwait(t) /\ InSigwait(u) => set[t] \cap set[u] = {}
  /\ \A s \in NSIG : (\A t \in Threads : s \notin Changed(t)) => handler[s] = Installed[s]
  /\ \A t \in Threads : \A s \in Changed(t) :
       handler[s] = "__pthread_sighandler" /\ saved_signals[t][s] = Installed[s]
  /\ \A t \in Threads : p_cancel_jmp[t] => pc[t] \in {"test", "sigsuspend", "clear"}

LEMMA HandlersInvInit == Init => HandlersInv
  BY DEF Init, HandlersInv, InSigwait, Changed

\* A step of self that neither touches the table nor changes what self owes to it.
LEMMA TableKept ==
  ASSUME HandlersInv, NEW self \in Threads,
         handler' = handler, saved_signals' = saved_signals, set' = set,
         \A t \in Threads \ {self} :
           pc'[t] = pc[t] /\ todo'[t] = todo[t] /\ p_cancel_jmp'[t] = p_cancel_jmp[t],
         todo'[self] \subseteq set[self],
         Changed(self)' = Changed(self),
         InSigwait(self)' => InSigwait(self),
         p_cancel_jmp'[self] => pc'[self] \in {"test", "sigsuspend", "clear"}
  PROVE  HandlersInv'
<1>1. \A t \in Threads : Changed(t)' = Changed(t)
  BY Zenon DEF Changed
<1>2. \A t \in Threads : InSigwait(t)' => InSigwait(t)
  BY DEF InSigwait
<1>3. \A t \in Threads : todo'[t] \subseteq set'[t]
  BY DEF HandlersInv
<1>4. \A t \in Threads : p_cancel_jmp'[t] => pc'[t] \in {"test", "sigsuspend", "clear"}
  BY DEF HandlersInv
<1>5. \A t, u \in Threads : t # u /\ InSigwait(t)' /\ InSigwait(u)' => set'[t] \cap set'[u] = {}
  BY <1>2 DEF HandlersInv
<1>6. Installed' = Installed /\ NSIG' = NSIG
  BY DEF Installed, NSIG
<1>7. \A s \in NSIG : (\A t \in Threads : s \notin Changed(t)') => handler'[s] = Installed[s]
  BY <1>1 DEF HandlersInv
<1>8. \A t \in Threads : \A s \in Changed(t)' :
        handler'[s] = "__pthread_sighandler" /\ saved_signals'[t][s] = Installed[s]
  BY <1>1 DEF HandlersInv
<1> QED
  BY <1>3, <1>4, <1>5, <1>6, <1>7, <1>8 DEF HandlersInv

LEMMA HandlersInvNext ==
  ASSUME ~Shares, TypeOK, HandlersInv, [Next]_vars
  PROVE  HandlersInv'
<1> USE DEF Goto
<1>1. ASSUME NEW self \in Threads, Step(self) PROVE HandlersInv'
  <2>1. CASE sigwait_install(self)
    <3>1. CASE todo[self] # {}
      <4> DEFINE s == Next_todo(self)
      <4>1. s \in todo[self] /\ s \in Waited /\ s \in set[self] /\ s \in NSIG
        BY <3>1, NextTodo DEF HandlersInv, NSIG, UserSignals
      <4>2. /\ handler' = [handler EXCEPT ![s] = "__pthread_sighandler"]
            /\ saved_signals' = [saved_signals EXCEPT ![self][s] = handler[s]]
            /\ todo' = [todo EXCEPT ![self] = @ \ {s}]
            /\ UNCHANGED <<pc, p_cancel_jmp, set>>
            /\ pc[self] = "install"
        BY <2>1, <3>1 DEF sigwait_install
      <4> HIDE DEF s
      <4>3. \A t \in Threads : s \notin Changed(t)
        <5> SUFFICES ASSUME NEW t \in Threads, s \in Changed(t) PROVE FALSE
          OBVIOUS
        <5>1. InSigwait(t) /\ s \in set[t]
          BY DEF Changed, InSigwait, HandlersInv
        <5>2. t = self
          BY <4>1, <4>2, <5>1 DEF HandlersInv, InSigwait
        <5> QED
          BY <4>1, <4>2, <5>2 DEF Changed
      <4>4. handler[s] = Installed[s]
        BY <4>1, <4>3 DEF HandlersInv
      <4>5. \A t \in Threads : Changed(t)' = IF t = self THEN Changed(t) \cup {s} ELSE Changed(t)
        <5>1. ASSUME NEW t \in Threads \ {self} PROVE Changed(t)' = Changed(t)
          BY <4>2 DEF Changed, TypeOK
        <5>2. Changed(self)' = Changed(self) \cup {s}
          <6>1. Changed(self)' = set[self] \ (todo[self] \ {s})
            BY <4>2 DEF Changed, TypeOK
          <6>2. Changed(self) = set[self] \ todo[self]
            BY <4>2 DEF Changed
          <6> QED
            BY <4>1, <6>1, <6>2
        <5> QED
          BY <5>1, <5>2
      <4>6. \A t \in Threads : todo'[t] \subseteq set'[t]
        BY <4>2 DEF HandlersInv, TypeOK
      <4>7. \A r \in NSIG : (\A t \in Threads : r \notin Changed(t)') => handler'[r] = Installed'[r]
        <5>1. Installed' = Installed
          BY DEF Installed
        <5> SUFFICES ASSUME NEW r \in NSIG, \A t \in Threads : r \notin Changed(t)'
                     PROVE  handler'[r] = Installed[r]
          BY <5>1
        <5>2. r # s /\ \A t \in Threads : r \notin Changed(t)
          BY <4>5
        <5> QED
          BY <4>2, <5>2 DEF HandlersInv, TypeOK
      <4>8. \A t \in Threads : \A r \in Changed(t)' :
              handler'[r] = "__pthread_sighandler" /\ saved_signals'[t][r] = Installed'[r]
        <5>1. Installed' = Installed
          BY DEF Installed
        <5> SUFFICES ASSUME NEW t \in Threads, NEW r \in Changed(t)'
                     PROVE  handler'[r] = "__pthread_sighandler" /\ saved_signals'[t][r] = Installed[r]
          BY <5>1
        <5>2. CASE r \in Changed(t)
          <6>1. r # s /\ r \in Waited
            BY <4>3, <5>2 DEF Changed, TypeOK
          <6> QED
            BY <4>1, <4>2, <5>2, <6>1 DEF HandlersInv, TypeOK, NSIG, UserSignals
        <5>3. CASE r \notin Changed(t)
          <6>1. t = self /\ r = s
            BY <4>5, <5>3
          <6> QED
            BY <4>1, <4>2, <4>4, <6>1 DEF TypeOK
        <5> QED
          BY <5>2, <5>3
      <4>9. NSIG' = NSIG
        BY DEF NSIG
      <4> QED
        BY <4>2, <4>6, <4>7, <4>8, <4>9, SMTT(30) DEF HandlersInv, InSigwait
    <3>2. CASE todo[self] = {}
      <4>1. /\ p_cancel_jmp' = [p_cancel_jmp EXCEPT ![self] = TRUE]
            /\ pc' = [pc EXCEPT ![self] = "test"] /\ pc[self] = "install"
            /\ UNCHANGED <<handler, todo, saved_signals, set>>
        BY <2>1, <3>2 DEF sigwait_install
      <4>2. Changed(self)' = Changed(self)
        BY <3>2, <4>1 DEF Changed, TypeOK
      <4>3. InSigwait(self)
        BY <4>1 DEF InSigwait
      <4> QED
        BY <3>2, <4>1, <4>2, <4>3, TableKept, Zenon DEF TypeOK
    <3> QED
      BY <3>1, <3>2
  <2>2. CASE sigwait_restore(self)
    <3>1. CASE todo[self] # {}
      <4> DEFINE s == Next_todo(self)
      <4>1. s \in todo[self] /\ s \in Waited /\ s \in set[self] /\ s \in NSIG
        BY <3>1, NextTodo DEF HandlersInv, NSIG, UserSignals
      <4>2. /\ handler' = [handler EXCEPT ![s] = saved_signals[self][s]]
            /\ todo' = [todo EXCEPT ![self] = @ \ {s}]
            /\ UNCHANGED <<pc, p_cancel_jmp, set, saved_signals>>
            /\ pc[self] = "restore"
        BY <2>2, <3>1 DEF sigwait_restore
      <4> HIDE DEF s
      <4>3. Changed(self) = todo[self] /\ Changed(self)' = todo[self] \ {s}
        BY <4>2 DEF Changed, TypeOK
      <4>4. saved_signals[self][s] = Installed[s]
        BY <4>1, <4>3 DEF HandlersInv
      <4>5. ASSUME NEW t \in Threads \ {self} PROVE Changed(t)' = Changed(t) /\ s \notin Changed(t)
        <5>1. Changed(t)' = Changed(t)
          BY <4>2 DEF Changed, TypeOK
        <5>2. s \in Changed(t) => InSigwait(t) /\ s \in set[t]
          BY DEF Changed, InSigwait, HandlersInv
        <5>3. InSigwait(self)
          BY <4>2 DEF InSigwait
        <5> QED
          BY <4>1, <5>1, <5>2, <5>3 DEF HandlersInv
      <4>6. \A t \in Threads : todo'[t] \subseteq set'[t]
        BY <4>2 DEF HandlersInv, TypeOK
      <4>7. \A r \in NSIG : (\A t \in Threads : r \notin Changed(t)') => handler'[r] = Installed'[r]
        <5>1. Installed' = Installed
          BY DEF Installed
        <5> SUFFICES ASSUME NEW r \in NSIG, \A t \in Threads : r \notin Changed(t)'
                     PROVE  handler'[r] = Installed[r]
          BY <5>1
        <5>2. CASE r = s
          BY <4>1, <4>2, <4>4, <5>2 DEF TypeOK
        <5>3. CASE r # s
          <6>1. \A t \in Threads : r \notin Changed(t)
            BY <4>3, <4>5, <5>3
          <6> QED
            BY <4>2, <5>3, <6>1 DEF HandlersInv, TypeOK
        <5> QED
          BY <5>2, <5>3
      <4>8. \A t \in Threads : \A r \in Changed(t)' :
              handler'[r] = "__pthread_sighandler" /\ saved_signals'[t][r] = Installed'[r]
        <5>1. Installed' = Installed
          BY DEF Installed
        <5> SUFFICES ASSUME NEW t \in Threads, NEW r \in Changed(t)'
                     PROVE  handler'[r] = "__pthread_sighandler" /\ saved_signals'[t][r] = Installed[r]
          BY <5>1
        <5>2. r \in Changed(t) /\ r # s
          BY <4>3, <4>5
        <5>3. r \in NSIG
          BY <5>2 DEF Changed, TypeOK, NSIG, UserSignals
        <5> QED
          BY <4>2, <5>2, <5>3 DEF HandlersInv, TypeOK
      <4>9. NSIG' = NSIG
        BY DEF NSIG
      <4> QED
        BY <4>2, <4>6, <4>7, <4>8, <4>9, SMTT(30) DEF HandlersInv, InSigwait
    <3>2. CASE todo[self] = {}
      <4>1. /\ pc' = [pc EXCEPT ![self] = "testcancel"] /\ pc[self] = "restore"
            /\ UNCHANGED <<handler, todo, saved_signals, set, p_cancel_jmp>>
        BY <2>2, <3>2 DEF sigwait_restore
      <4>2. Changed(self)' = Changed(self)
        BY <3>2, <4>1 DEF Changed, TypeOK
      <4>3. InSigwait(self) /\ ~p_cancel_jmp[self]
        BY <4>1, SMTT(30) DEF InSigwait, HandlersInv
      <4> QED
        BY <3>2, <4>1, <4>2, <4>3, TableKept DEF TypeOK
    <3> QED
      BY <3>1, <3>2
  <2>3. CASE sigwait_test(self)
    <3>1. /\ pc[self] = "test" /\ UNCHANGED <<handler, p_cancel_jmp, waitVars>>
          /\ \/ pc' = [pc EXCEPT ![self] = "clear"]
             \/ pc' = [pc EXCEPT ![self] = "sigsuspend"]
      BY <2>3 DEF sigwait_test
    <3>2. Changed(self)' = Changed(self) /\ InSigwait(self)
      BY <3>1 DEF Changed, TypeOK, InSigwait, waitVars
    <3> QED
      BY <3>1, <3>2, TableKept DEF TypeOK, HandlersInv, waitVars
  <2>4. CASE sigwait_clear(self)
    <3>1. /\ pc[self] = "clear" /\ UNCHANGED <<handler, set, saved_signals>>
          /\ pc' = [pc EXCEPT ![self] = "restore"]
          /\ p_cancel_jmp' = [p_cancel_jmp EXCEPT ![self] = FALSE]
          /\ todo' = [todo EXCEPT ![self] = set[self]]
      BY <2>4 DEF sigwait_clear
    <3>2. pc'[self] = "restore" /\ todo'[self] = set[self] /\ p_cancel_jmp'[self] = FALSE
      BY <3>1 DEF TypeOK
    <3>3. Changed(self)' = Changed(self) /\ InSigwait(self)
      <4>1. Changed(self) = set[self]
        BY <3>1 DEF Changed
      <4>2. Changed(self)' = set[self]
        BY <3>2 DEF Changed
      <4> QED
        BY <3>1, <4>1, <4>2, SMTT(30) DEF InSigwait
    <3> QED
      BY <3>1, <3>2, <3>3, TableKept, Zenon DEF TypeOK
  <2>5. CASE sigwait_return(self)
    <3>1. /\ pc[self] = "testcancel" /\ UNCHANGED <<handler, p_cancel_jmp, set, todo, saved_signals>>
          /\ \/ pc' = [pc EXCEPT ![self] = "exited"]
             \/ pc' = [pc EXCEPT ![self] = "run"]
      BY <2>5 DEF sigwait_return
    <3>2. pc'[self] \in {"exited", "run"}
      BY <3>1 DEF TypeOK
    <3>3. Changed(self)' = {} /\ Changed(self) = {}
      BY <3>1, <3>2 DEF Changed
    <3>4. InSigwait(self) /\ ~p_cancel_jmp[self]
      BY <3>1 DEF InSigwait, HandlersInv
    <3> QED
      BY <3>1, <3>3, <3>4, TableKept, ZenonT(30) DEF TypeOK, HandlersInv
  <2>6. ASSUME UNCHANGED <<handler, waitVars, p_cancel_jmp>>, pc' = [pc EXCEPT ![self] = Return(self)]
        PROVE  HandlersInv'
    <3>1. /\ pc[self] = "sigsuspend" => pc'[self] = "clear"
          /\ pc[self] = "suspend" => pc'[self] \in {"suspend", "run"}
          /\ pc[self] \notin {"suspend", "sigsuspend"} => pc'[self] = pc[self]
      BY <2>6 DEF Return, TypeOK
    <3>2. Changed(self)' = Changed(self) /\ (InSigwait(self)' => InSigwait(self))
      BY <2>6, <3>1 DEF Changed, InSigwait, waitVars
    <3> QED
      BY <2>6, <3>1, <3>2, TableKept, SMTT(30) DEF TypeOK, HandlersInv, waitVars
  <2>7. ASSUME NEW s \in NSIG, __pthread_sighandler(self, s) \/ program_handler(self, s)
        PROVE  HandlersInv'
    BY <2>6, <2>7 DEF __pthread_sighandler, program_handler, Taken
  <2>8. CASE pthread_handle_sigcancel(self)
    <3>1. CASE CancelDue(self) /\ p_cancel_jmp[self]
      <4>1. /\ UNCHANGED <<handler, waitVars>> /\ pc' = [pc EXCEPT ![self] = "clear"]
            /\ p_cancel_jmp' = [p_cancel_jmp EXCEPT ![self] = FALSE]
        BY <2>8, <3>1 DEF pthread_handle_sigcancel, Taken
      <4>2. pc[self] \in {"test", "sigsuspend", "clear"}
        BY <3>1 DEF HandlersInv
      <4>3. Changed(self)' = Changed(self) /\ InSigwait(self)
        BY <4>1, <4>2 DEF Changed, TypeOK, InSigwait, waitVars
      <4>4. p_cancel_jmp'[self] = FALSE /\ todo'[self] \subseteq set[self]
        BY <4>1 DEF TypeOK, HandlersInv, waitVars
      <4> QED
        BY <4>1, <4>3, <4>4, TableKept, ZenonT(30) DEF TypeOK, waitVars
    <3>2. CASE ~(CancelDue(self) /\ p_cancel_jmp[self])
      BY <2>6, <2>8, <3>2 DEF pthread_handle_sigcancel, Taken
    <3> QED
      BY <3>1, <3>2
  <2> QED
    BY <1>1, <2>1, <2>2, <2>3, <2>4, <2>5, <2>7, <2>8 DEF Step
<1>2. ASSUME NEW self \in Threads, NEW signals \in SUBSET Waited, sigwait(self, signals)
      PROVE  HandlersInv'
  <2>1. /\ pc[self] = "run" /\ pc' = [pc EXCEPT ![self] = "install"]
        /\ set' = [set EXCEPT ![self] = signals] /\ todo' = [todo EXCEPT ![self] = signals]
        /\ UNCHANGED <<handler, p_cancel_jmp, saved_signals>>
        /\ \A t \in Threads : InSigwait(t) => set[t] \cap signals = {}
    BY <1>2 DEF sigwait, HandlersInv
  <2>2. \A t \in Threads : Changed(t)' = Changed(t)
    <3>1. Changed(self)' = {} /\ Changed(self) = {}
      BY <2>1 DEF Changed, TypeOK
    <3>2. \A t \in Threads \ {self} : Changed(t)' = Changed(t)
      BY <2>1 DEF Changed, TypeOK
    <3> QED
      BY <3>1, <3>2
  <2>3. \A t \in Threads : todo'[t] \subseteq set'[t]
    BY <2>1 DEF HandlersInv, TypeOK
  <2>4. \A t, u \in Threads : t # u /\ InSigwait(t)' /\ InSigwait(u)' => set'[t] \cap set'[u] = {}
    BY <2>1 DEF HandlersInv, InSigwait, TypeOK
  <2>5. Installed' = Installed /\ NSIG' = NSIG
    BY SMTT(30) DEF Installed, NSIG
  <2>6. \A s \in NSIG : (\A t \in Threads : s \notin Changed(t)') => handler'[s] = Installed[s]
    BY <2>1, <2>2, SMTT(30) DEF HandlersInv
  <2>7. \A t \in Threads : \A s \in Changed(t)' :
          handler'[s] = "__pthread_sighandler" /\ saved_signals'[t][s] = Installed[s]
    BY <2>1, <2>2 DEF HandlersInv
  <2>8. \A t \in Threads : p_cancel_jmp'[t] => pc'[t] \in {"test", "sigsuspend", "clear"}
    BY <2>1, SMTT(30) DEF HandlersInv, TypeOK
  <2> QED
    BY <2>3, <2>4, <2>5, <2>6, <2>7, <2>8 DEF HandlersInv
<1>3. ASSUME NEW self \in Threads, suspend(self) PROVE HandlersInv'
  <2>1. /\ pc[self] = "run" /\ pc' = [pc EXCEPT ![self] = "suspend"]
        /\ UNCHANGED <<handler, p_cancel_jmp, waitVars>>
    BY <1>3 DEF suspend
  <2>2. /\ Changed(self)' = Changed(self) /\ ~InSigwait(self)' /\ ~p_cancel_jmp[self]
    <3>1. pc'[self] = "suspend"
      BY <2>1 DEF TypeOK
    <3>2. Changed(self) = {}
      BY <2>1 DEF Changed
    <3>3. Changed(self)' = {} /\ ~InSigwait(self)'
      BY <3>1 DEF Changed, InSigwait
    <3>4. ~p_cancel_jmp[self]
      BY <2>1 DEF HandlersInv
    <3> QED
      BY <3>2, <3>3, <3>4, Zenon
  <2> QED
    BY <2>1, <2>2, TableKept DEF TypeOK, HandlersInv, waitVars
<1>4. ASSUME UNCHANGED <<handler, p_cancel_jmp, pc, waitVars>> PROVE HandlersInv'
  <2>1. \A t \in Threads : Changed(t)' = Changed(t) /\ InSigwait(t)' = InSigwait(t)
    BY <1>4 DEF waitVars, Changed, InSigwait
  <2>2. Installed' = Installed /\ NSIG' = NSIG
    BY DEF Installed, NSIG
  <2> QED
    BY <1>4, <2>1, <2>2, SMTT(30) DEF HandlersInv, waitVars
<1>5. ASSUME NEW self \in Threads, SignalSent(self) PROVE HandlersInv'
  BY <1>4, <1>5 DEF SignalSent, pthread_kill, pthread_cancel
<1>6. ASSUME NEW self \in Threads, ProgramCall(self) PROVE HandlersInv'
  BY <1>2, <1>3, <1>4, <1>6, Zenon DEF ProgramCall, pthread_sigmask
<1> QED
  BY <1>1, <1>4, <1>5, <1>6 DEF Next, vars

\* When no two threads wait for the same signal at once, sigwait leaves the table
\* of handlers as it found it, and has its own handler there while it waits,
\* however its loops and the cancellations of its callers interleave.
THEOREM HandlersRestoredHolds ==
  ASSUME ~Shares PROVE Spec => []HandlersRestored
<1>1. TypeOK /\ HandlersInv => HandlersRestored
  <2> SUFFICES ASSUME TypeOK, HandlersInv, NEW s \in Waited
               PROVE  LET waiting == {t \in Threads : InSigwait(t) /\ s \in set[t]} IN
                      /\ waiting = {} => handler[s] = Installed[s]
                      /\ (\E t \in waiting : pc[t] \in {"test", "sigsuspend", "clear"})
                           => handler[s] = "__pthread_sighandler"
    BY DEF HandlersRestored
  <2>1. \A t \in Threads : s \in Changed(t) => InSigwait(t) /\ s \in set[t]
    BY DEF Changed, InSigwait, HandlersInv
  <2>2. \A t \in Threads : pc[t] \in {"test", "sigsuspend", "clear"} => Changed(t) = set[t]
    BY DEF Changed
  <2>3. s \in NSIG
    BY DEF NSIG, UserSignals
  <2> QED
    BY <2>1, <2>2, <2>3, SMTT(30) DEF HandlersInv
<1>2. SignalsInv /\ TypeOK /\ HandlersInv /\ [Next]_vars => SignalsInv' /\ TypeOK' /\ HandlersInv'
  BY SignalsInvNext, TypeOKNext, HandlersInvNext
<1> QED
  BY <1>1, <1>2, SignalsInvInit, TypeOKInit, HandlersInvInit, PTL DEF Spec
-----------------------------------------------------------------------------
(***************************************************************************)
(* What sigwait returns.                                                   *)
(***************************************************************************)

\* Past its sigsuspend a thread has recorded a signal of its set, unless it was
\* cancelled; the signals of all sets stay blocked everywhere else.
ResultInv ==
  \A t \in Threads :
    /\ Waited \subseteq sigmask[t]
    /\ PTHREAD_SIG_CANCEL \in sigpending[t] => p_canceled[t]
    /\ pc[t] \in {"clear", "restore", "testcancel"} => p_signal[t] \in set[t] \/ p_canceled[t]

LEMMA ResultInvInit == Init => ResultInv
<1> SUFFICES ASSUME Init, NEW t \in Threads
             PROVE  /\ Waited \subseteq sigmask[t]
                    /\ sigpending[t] = {} /\ pc[t] = "run"
  BY Zenon DEF ResultInv
<1> QED
  BY DEF Init, UserSignals

\* The handler that sigwait installs is there for restarts and for signals that
\* some thread waits for.
LEMMA RecordedSignals ==
  ASSUME TypeOK, HandlersInv, NEW s \in NSIG, handler[s] = "__pthread_sighandler"
  PROVE  s \in Waited \cup {PTHREAD_SIG_RESTART}
<1>1. \A t \in Threads : Changed(t) \subseteq Waited
  BY DEF Changed, TypeOK
<1>2. s \notin Waited => handler[s] = Installed[s]
  BY <1>1 DEF HandlersInv
<1> QED
  BY <1>2 DEF Installed

LEMMA ResultInvNext ==
  ASSUME SignalsInv, TypeOK, HandlersInv, ResultInv, [Next]_vars
  PROVE  ResultInv'
<1> USE DEF Goto
<1>1. ASSUME NEW self \in Threads, Step(self) PROVE ResultInv'
  <2>1. CASE sigwait_install(self) \/ sigwait_test(self) \/ sigwait_clear(self)
    BY <2>1, SMTT(30) DEF sigwait_install, sigwait_test, sigwait_clear, ResultInv, TypeOK, CancelDue,
       cancelVars, waitVars
  <2>2. CASE sigwait_restore(self) \/ sigwait_return(self)
    BY <2>2 DEF sigwait_restore, sigwait_return, ResultInv, TypeOK, cancelVars
  <2>3. ASSUME NEW s \in NSIG, s \in sigpending[self] \ mask(self), pc[self] = "sigsuspend"
        PROVE  s \in set[self] \/ s = PTHREAD_SIG_CANCEL
    BY <2>3 DEF mask
  <2>4. /\ pc[self] = "sigsuspend" => Return(self) = "clear"
        /\ pc[self] = "suspend" => Return(self) \in {"suspend", "run"}
        /\ pc[self] \notin {"suspend", "sigsuspend"} => Return(self) = pc[self]
    BY SMTT(30) DEF Return
  <2>5. ASSUME NEW s \in NSIG, __pthread_sighandler(self, s) PROVE ResultInv'
    <3>1. s \in Waited \cup {PTHREAD_SIG_RESTART} /\ s # PTHREAD_SIG_CANCEL
      BY <2>5, RecordedSignals, SignalsAssumption DEF __pthread_sighandler, UserSignals,
         PTHREAD_SIG_RESTART, PTHREAD_SIG_CANCEL
    <3>2. pc[self] \in {"suspend", "sigsuspend"}
      <4>1. s \in sigmask[self]
        BY <3>1 DEF ResultInv, SignalsInv, MasksKept
      <4> QED
        BY <2>5, <4>1 DEF __pthread_sighandler, Taken, mask
    <3>3. pc[self] = "sigsuspend" => s \in set[self]
      BY <2>3, <2>5, <3>1 DEF __pthread_sighandler, Taken
    <3>4. \A t \in Threads : pc'[t] \in {"clear", "restore", "testcancel"} =>
            p_signal'[t] \in set'[t] \/ p_canceled'[t]
      <4>1. ASSUME NEW t \in Threads \ {self}
            PROVE  /\ pc'[t] = pc[t] /\ p_signal'[t] = p_signal[t] /\ set'[t] = set[t]
                   /\ p_canceled'[t] = p_canceled[t]
        BY <2>5 DEF __pthread_sighandler, Taken, TypeOK, cancelVars, waitVars
      <4>2. pc'[self] = Return(self) /\ p_signal'[self] = s /\ set'[self] = set[self]
        BY <2>5, SMTT(30) DEF __pthread_sighandler, Taken, TypeOK, waitVars
      <4> QED
        BY <2>4, <3>2, <3>3, <4>1, <4>2, SMTT(30) DEF ResultInv
    <3> QED
      BY <2>5, <3>4 DEF ResultInv, __pthread_sighandler, Taken, TypeOK, cancelVars
  <2>6. ASSUME NEW s \in NSIG, program_handler(self, s) PROVE ResultInv'
    <3>1. handler[PTHREAD_SIG_CANCEL] = "pthread_handle_sigcancel"
      <4>1. PTHREAD_SIG_CANCEL \notin Waited /\ PTHREAD_SIG_CANCEL \in NSIG
        BY SignalsAssumption DEF UserSignals, NSIG
      <4>2. \A t \in Threads : Changed(t) \subseteq Waited
        BY SMTT(30) DEF Changed, TypeOK
      <4> QED
        BY <4>1, <4>2 DEF HandlersInv, Installed, PTHREAD_SIG_CANCEL, PTHREAD_SIG_RESTART
    <3>2. pc[self] # "sigsuspend"
      <4>1. pc[self] = "sigsuspend" => Changed(self) = set[self]
        BY DEF Changed
      <4> QED
        BY <2>3, <2>6, <3>1, <4>1 DEF program_handler, Taken, HandlersInv
    <3>3. \A t \in Threads : pc'[t] \in {"clear", "restore", "testcancel"} => pc[t] = pc'[t]
      BY <2>4, <2>6, <3>2, SMTT(30) DEF program_handler, TypeOK
    <3> QED
      BY <2>6, <3>3 DEF ResultInv, program_handler, Taken, TypeOK, cancelVars, waitVars
  <2>7. CASE pthread_handle_sigcancel(self)
    <3>1. p_canceled[self]
      BY <2>7 DEF pthread_handle_sigcancel, Taken, ResultInv
    <3> QED
      BY <2>7, <3>1, SMTT(30) DEF ResultInv, pthread_handle_sigcancel, Taken, TypeOK, cancelVars, waitVars
  <2> QED
    BY <1>1, <2>1, <2>2, <2>5, <2>6, <2>7, SMTT(30) DEF Step
<1>2. ASSUME NEW self \in Threads, SignalSent(self) PROVE ResultInv'
  <2>1. ASSUME NEW s \in UserSignals \cup {PTHREAD_SIG_RESTART}, pthread_kill(self, s)
        PROVE  ResultInv'
    <3>1. s # PTHREAD_SIG_CANCEL
      BY SignalsAssumption DEF PTHREAD_SIG_CANCEL, PTHREAD_SIG_RESTART
    <3>2. \A t \in Threads : PTHREAD_SIG_CANCEL \in sigpending'[t] => PTHREAD_SIG_CANCEL \in sigpending[t]
      BY <2>1, <3>1, SMTT(30) DEF pthread_kill, TypeOK
    <3> QED
      BY <2>1, <3>2, Zenon DEF pthread_kill, ResultInv, cancelVars, waitVars
  <2>2. CASE pthread_cancel(self)
    BY <2>2 DEF pthread_cancel, ResultInv, TypeOK, waitVars
  <2> QED
    BY <1>2, <2>1, <2>2 DEF SignalSent
<1>3. ASSUME NEW self \in Threads, ProgramCall(self) PROVE ResultInv'
  <2>1. ASSUME NEW newmask \in SUBSET (NSIG \ Waited), NEW m \in SUBSET NSIG, Waited \subseteq m
        PROVE  /\ Waited \subseteq NewMask("SIG_SETMASK", newmask \cup Waited, m)
               /\ Waited \subseteq NewMask("SIG_BLOCK", newmask, m)
               /\ Waited \subseteq NewMask("SIG_UNBLOCK", newmask, m)
    BY <2>1, SignalsAssumption DEF NewMask, UserSignals
  <2>2. ASSUME NEW how, NEW newmask, pthread_sigmask(self, how, newmask),
               Waited \subseteq NewMask(how, newmask, sigmask[self])
        PROVE  ResultInv'
    BY <2>2, SMTT(30) DEF pthread_sigmask, ResultInv, TypeOK, cancelVars, waitVars
  <2>3. sigmask[self] \in SUBSET NSIG /\ Waited \subseteq sigmask[self]
    BY DEF ResultInv, TypeOK
  <2>4. ASSUME NEW signals \in SUBSET Waited, sigwait(self, signals) PROVE ResultInv'
    BY <2>4, SMTT(30) DEF sigwait, ResultInv, TypeOK, cancelVars
  <2>5. CASE suspend(self)
    BY <2>5, SMTT(30) DEF suspend, ResultInv, TypeOK, cancelVars, waitVars
  <2>6. ASSUME NEW newmask \in SUBSET (NSIG \ Waited),
               \/ pthread_sigmask(self, "SIG_SETMASK", newmask \cup Waited)
               \/ pthread_sigmask(self, "SIG_BLOCK", newmask)
               \/ pthread_sigmask(self, "SIG_UNBLOCK", newmask)
        PROVE  ResultInv'
    BY <2>1, <2>2, <2>3, <2>6, SMTT(30)
  <2> QED
    BY <1>3, <2>4, <2>5, <2>6, ZenonT(30) DEF ProgramCall
<1>4. CASE UNCHANGED vars
  BY <1>4 DEF ResultInv, vars, cancelVars, waitVars
<1> QED
  BY <1>1, <1>2, <1>3, <1>4 DEF Next

\* sigwait returns a signal of its set, or was interrupted by a cancellation that
\* its thread has disabled: restarts, the handlers of the program and signals for
\* other threads never end it.
THEOREM SigwaitResultHolds ==
  ASSUME ~Shares PROVE Spec => SigwaitResult
<1> DEFINE Right == \A t \in Threads :
      pc[t] = "testcancel" /\ pc'[t] = "run" =>
        \/ sig'[t] \in set[t]
        \/ p_canceled[t] /\ p_cancelstate[t] = "DISABLE"
<1>1. SignalsInv /\ TypeOK /\ HandlersInv /\ ResultInv /\ [Next]_vars =>
        SignalsInv' /\ TypeOK' /\ HandlersInv' /\ ResultInv'
  BY SignalsInvNext, TypeOKNext, HandlersInvNext, ResultInvNext, SMTT(30)
<1>2. SignalsInv /\ TypeOK /\ HandlersInv /\ ResultInv /\ [Next]_vars => [Right]_vars
  <2> SUFFICES ASSUME SignalsInv, TypeOK, HandlersInv, ResultInv, [Next]_vars,
                      NEW t \in Threads, pc[t] = "testcancel", pc'[t] = "run"
               PROVE  \/ sig'[t] \in set[t]
                      \/ p_canceled[t] /\ p_cancelstate[t] = "DISABLE"
    OBVIOUS
  <2>1. sigwait_return(t)
    <3>1. ASSUME NEW self \in Threads PROVE self = t => Return(self) # "run"
      BY SMTT(30) DEF Return
    <3>2. ASSUME NEW self \in Threads, Step(self) PROVE sigwait_return(t)
      BY <3>1, <3>2, SMTT(30) DEF Step, sigwait_install, sigwait_test, sigwait_clear, sigwait_restore,
         sigwait_return, __pthread_sighandler, program_handler, pthread_handle_sigcancel, Goto, TypeOK
    <3>3. ASSUME NEW self \in Threads, ProgramCall(self) \/ SignalSent(self) PROVE FALSE
      BY <3>3, ZenonT(30) DEF ProgramCall, SignalSent, pthread_sigmask, sigwait, suspend, pthread_kill,
         pthread_cancel, Goto, TypeOK
    <3> QED
      BY <3>2, <3>3 DEF Next, vars
  <2>2. ~CancelDue(t) /\ sig'[t] = p_signal[t]
    BY <2>1, SMTT(30) DEF sigwait_return, Goto, TypeOK
  <2> QED
    BY <2>2, SMTT(30) DEF ResultInv, CancelDue, TypeOK
<1> QED
  BY <1>1, <1>2, SignalsInvInit, TypeOKInit, HandlersInvInit, ResultInvInit, PTL
     DEF Spec, SigwaitResult
=============================================================================
