---------------------------- MODULE DurableCell ----------------------------
(***************************************************************************)
(* What a persisted in-memory value promises to the code that uses it,     *)
(* with no locks, temporary files, generations or savers: memory holds     *)
(* `value', the file system shows `cell', and `recoverable' is the set of  *)
(* file contents a power loss may leave.  The file only ever receives the  *)
(* value memory holds at that moment, so a reader of the file never sees   *)
(* an older value replace a newer one, and never sees half of a value.     *)
(* RuntimeStateStore implements this specification.                        *)
(***************************************************************************)
CONSTANTS Value,     \* the values the memory can hold
          NoFile,    \* the file does not exist
          Initial    \* the value a process starts from when it can read none

VARIABLES value, cell, recoverable, up

vars == <<value, cell, recoverable, up>>

Init ==
    /\ value = Initial
    /\ cell = NoFile
    /\ recoverable = {NoFile}
    /\ up = FALSE

\* Memory changes; the file does not.
Change ==
    /\ up
    /\ value' \in Value
    /\ UNCHANGED <<cell, recoverable, up>>

\* The file takes the current value, in one step.  Until Settle, a power
\* loss may still undo it.
Persist ==
    /\ up
    /\ cell' = value
    /\ recoverable' = recoverable \cup {value}
    /\ UNCHANGED <<value, up>>

\* What the file shows can no longer be undone.
Settle ==
    /\ up
    /\ recoverable' = {cell}
    /\ UNCHANGED <<value, cell, up>>

\* The process stops.  The file is left alone, or (power loss) goes back to
\* one of the contents that had not been settled.
Stop ==
    /\ up' = FALSE
    /\ value' = Initial
    /\ \/ UNCHANGED <<cell, recoverable>>
       \/ \E c \in recoverable : cell' = c /\ recoverable' = {c}

\* The process starts from what the file holds, or from nothing at all.
Start ==
    /\ ~up
    /\ up' = TRUE
    /\ value' \in {cell, Initial} \cap Value
    /\ UNCHANGED <<cell, recoverable>>

\* The process starts without a file: it may take over a legacy value, which
\* it keeps only when the file holds it too.
StartFresh ==
    /\ ~up
    /\ cell = NoFile
    /\ up' = TRUE
    /\ value' \in Value
    /\ cell' = value'
    /\ recoverable' \in {{value'}, recoverable \cup {value'}}

Next == Change \/ Persist \/ Settle \/ Stop \/ Start \/ StartFresh

Spec == Init /\ [][Next]_vars
=============================================================================
