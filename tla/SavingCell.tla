---------------------------- MODULE SavingCell ----------------------------
(***************************************************************************)
(* A durable cell as the threads that save it see it: of what a thread has *)
(* serialized only one thing matters, whether memory is still that - no    *)
(* counter, no copy of the state, no temporary file.  RuntimeStateStore    *)
(* implements it with a generation per change and one per payload;         *)
(* HostLifecycle and AlertEngine are built on it.                          *)
(***************************************************************************)
CONSTANTS Value,     \* the values the memory can hold
          NoFile,    \* the file does not exist
          Initial,   \* the value a process starts from when it can read none
          Saver      \* threads that save

VARIABLES value, cell, recoverable, up,
          saver      \* saver |-> what it has serialized: nothing, the current
                     \* value, or one that memory has left since

vars == <<value, cell, recoverable, up, saver>>

Resting == [s \in Saver |-> "nothing"]

Init ==
    /\ value = Initial
    /\ cell = NoFile
    /\ recoverable = {NoFile}
    /\ up = FALSE
    /\ saver = Resting

\* Memory becomes `value''; what was serialized before is superseded, if
\* anything changed at all.  A thread may serialize in the same step.
Left(s, changed) == IF changed /\ saver[s] = "current" THEN "superseded" ELSE saver[s]

Moves(changed) == value' \in Value /\ (value' # value => changed)

Change ==
    /\ up
    /\ \E changed \in BOOLEAN :
         Moves(changed) /\ saver' = [s \in Saver |-> Left(s, changed)]
    /\ UNCHANGED <<cell, recoverable, up>>

Serialize(p) ==
    /\ up /\ saver[p] = "nothing"
    /\ \E changed \in BOOLEAN :
         /\ Moves(changed)
         /\ saver' = [s \in Saver |-> IF s = p THEN "current" ELSE Left(s, changed)]
    /\ UNCHANGED <<cell, recoverable, up>>

Returned(p) == [saver EXCEPT ![p] = "nothing"]

\* Only a payload that is current reaches the file, which takes the value
\* memory holds.  The save may be over with that, or go on to Return.
Publish(p) ==
    /\ up /\ saver[p] = "current"
    /\ cell' = value
    /\ recoverable' \in {{value}, recoverable \cup {value}}
    /\ saver' \in {saver, Returned(p)}
    /\ UNCHANGED <<value, up>>

\* A save ends: published, skipped or failed.
Return(p) ==
    /\ up /\ saver[p] # "nothing"
    /\ recoverable' \in {{cell}, recoverable}
    /\ saver' = Returned(p)
    /\ UNCHANGED <<value, cell, up>>

\* The process stops.  A power loss may undo what had not been settled.
Stop ==
    /\ up /\ up' = FALSE
    /\ value' = Initial
    /\ \/ UNCHANGED <<cell, recoverable>>
       \/ \E c \in recoverable : cell' = c /\ recoverable' = {c}
    /\ saver' = Resting

\* It starts from what the file holds, or from nothing; without a file also
\* from a legacy value that the file holds from then on.
Loads ==
    /\ up' = TRUE /\ saver' = Resting
    /\ \/ value' \in {cell, Initial} \cap Value /\ UNCHANGED <<cell, recoverable>>
       \/ /\ cell = NoFile
          /\ value' \in Value /\ cell' = value'
          /\ recoverable' \in {{value'}, recoverable \cup {value'}}

Start == ~up /\ Loads

\* Stop and Start in one step, for those who do not see the process down.
Restart == up /\ Loads

Next ==
    \/ Change \/ Stop \/ Start \/ Restart
    \/ \E s \in Saver : Serialize(s) \/ Publish(s) \/ Return(s)

Spec == Init /\ [][Next]_vars
=============================================================================
