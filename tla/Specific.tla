------------------------------ MODULE Specific ------------------------------
(***************************************************************************)
(* Thread-specific data (src/specific.c): the table of keys, the values of *)
(* every thread, and the loop that destroys them when a thread exits.      *)
(***************************************************************************)
EXTENDS Cancel

CONSTANTS NULL,
          PTHREAD_KEYS_MAX,
          Destructors,
          Reuses            \* are keys deleted that threads have values for?

ASSUME SpecificAssumption == PTHREAD_KEYS_MAX \in Nat /\ Reuses \in BOOLEAN

Keys == 0 .. PTHREAD_KEYS_MAX - 1

VARIABLES
  pthread_keys,  \* in use or not, and the destructor
  p_specific,    \* the values, NULL or a record of Value
  i              \* local variable of __pthread_destroy_specifics

keyVars == pthread_keys
dataVars == <<p_specific, i>>
specificVars == <<keyVars, dataVars>>

\* A value is told by the destructor of the key it was stored under, and by
\* the destructors called on it so far; no code.
Value == [destr : Destructors \cup {NULL}, by : Seq(Destructors)]

SpecificTypeOK ==
  /\ pthread_keys \in [Keys -> [in_use : BOOLEAN, destr : Destructors \cup {NULL}]]
  /\ p_specific \in [Threads -> [Keys -> Value \cup {NULL}]]
  /\ i \in [Threads -> 0 .. PTHREAD_KEYS_MAX]

SpecificInit ==
  /\ pthread_keys = [key \in Keys |-> [in_use |-> FALSE, destr |-> NULL]]
  /\ p_specific = [t \in Threads |-> [key \in Keys |-> NULL]]
  /\ i = [t \in Threads |-> 0]

\* The body runs under pthread_keys_mutex.
__pthread_key_create(destr_function) ==
  \E key \in Keys :
    /\ ~pthread_keys[key].in_use
    /\ \A k \in 0 .. key - 1 : pthread_keys[k].in_use
    /\ pthread_keys' = [pthread_keys EXCEPT ![key] = [in_use |-> TRUE, destr |-> destr_function]]
    /\ UNCHANGED <<dataVars, cancelVars>>

pthread_key_delete(key) ==
  /\ pthread_keys[key].in_use
  /\ Reuses \/ \A t \in Threads : p_specific[t][key] # NULL => code[t] = "exited"
  /\ pthread_keys' = [pthread_keys EXCEPT ![key] = [in_use |-> FALSE, destr |-> NULL]]
  /\ UNCHANGED <<dataVars, cancelVars>>

\* A new value, or NULL.  The program stores under keys it has created.
__pthread_setspecific(self, key, null) ==
  /\ pc[self] = "run" /\ code[self] \in {"program", "cleanup"}
  /\ pthread_keys[key].in_use
  /\ p_specific' = [p_specific EXCEPT ![self][key] =
       IF null THEN NULL ELSE [destr |-> pthread_keys[key].destr, by |-> <<>>]]
  /\ UNCHANGED <<pthread_keys, i, cancelVars>>

\* Mutant: the loop begins at the second key.
destroy_begin_late(self) ==
  /\ i' = [i EXCEPT ![self] = 1]
  /\ UNCHANGED <<pthread_keys, p_specific>>

destroy_begin(self) ==
  /\ i' = [i EXCEPT ![self] = 0]
  /\ UNCHANGED <<pthread_keys, p_specific>>

\* The destructor a round of the loop calls, or NULL.  The table is read without
\* its mutex.
destr(self) ==
  IF p_specific[self][i[self]] = NULL THEN NULL ELSE pthread_keys[i[self]].destr

\* A round of the loop, to the call of a destructor, or the end.  The value
\* stays where it is.
__pthread_destroy_specifics(self) ==
  /\ code[self] = "destroy" /\ pc[self] = "walk"
  /\ UNCHANGED <<requestVars, modeVars, p_cleanup, blocked, oldtype, c, pthread_keys>>
  /\ \/ /\ i[self] \in Keys /\ destr(self) # NULL
        /\ p_specific' = [p_specific EXCEPT ![self][i[self]].by = Append(@, destr(self))]
        /\ Goto(self, "run")
        /\ UNCHANGED <<code, i>>
     \/ /\ i[self] \in Keys /\ destr(self) = NULL
        /\ i' = [i EXCEPT ![self] = @ + 1]
        /\ UNCHANGED <<code, pc, p_specific>>
     \/ /\ i[self] \notin Keys
        /\ code' = [code EXCEPT ![self] = "exited"]
        /\ UNCHANGED <<pc, p_specific, i>>

destructor_returns(self) ==
  /\ code[self] = "destroy" /\ pc[self] = "run"
  /\ i' = [i EXCEPT ![self] = @ + 1]
  /\ Goto(self, "walk")
  /\ UNCHANGED <<requestVars, modeVars, p_cleanup, blocked, code, oldtype, c, keyVars, p_specific>>
=============================================================================
