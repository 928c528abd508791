-------------------------- MODULE SidecarRegister --------------------------
(***************************************************************************)
(* What a stored artifact promises to the stages that load it, without its *)
(* manifest, its temporary file or its system calls: it behaves as one     *)
(* register.  A load returns what is stored, and may be refused only if a  *)
(* save overlaps it or if the last save was cut and its protocol is        *)
(* fragile.  A completed save outlives the loss of the machine.            *)
(***************************************************************************)
CONSTANTS
    Readers,   \* the processes that load it
    Values,    \* what is saved
    Empty,     \* nothing was stored
    Refused    \* the load raised

VARIABLES
    value,     \* what is stored
    durable,   \* what may be stored after the machine is lost
    saving,    \* a save is in progress
    fragile,   \* a cut save may leave an artifact that is refused
    spoiled,   \* a save was cut, and left one
    load       \* per reader [loading, overlapped, got]

vars == <<value, durable, saving, fragile, spoiled, load>>

NotLoading == [loading |-> FALSE, overlapped |-> FALSE, got |-> Empty]

Init ==
    /\ value = Empty /\ durable = {Empty}
    /\ saving = FALSE /\ spoiled = FALSE /\ fragile \in BOOLEAN
    /\ load = [r \in Readers |-> NotLoading]

\* What a save does to the loads in progress.
Overlap == load' = [r \in Readers |-> IF load[r].loading
                                      THEN [load[r] EXCEPT !.overlapped = TRUE]
                                      ELSE load[r]]

BeginSave ==
    /\ ~saving /\ saving' = TRUE /\ spoiled' = FALSE
    /\ Overlap
    /\ UNCHANGED <<value, durable, fragile>>

Publish ==
    /\ saving /\ value' \in Values /\ durable' = durable \cup {value'}
    /\ UNCHANGED <<saving, fragile, spoiled, load>>

\* What is stored reaches the disk.
Settle ==
    /\ saving /\ durable' = {value}
    /\ UNCHANGED <<value, saving, fragile, spoiled, load>>

\* The old artifact could not be prepared for being replaced.
Hinder ==
    /\ saving /\ fragile' = TRUE
    /\ UNCHANGED <<value, durable, saving, spoiled, load>>

EndSave ==
    /\ saving /\ durable = {value} /\ saving' = FALSE
    /\ UNCHANGED <<value, durable, fragile, spoiled, load>>

\* The saving process dies.
CutSave ==
    /\ saving /\ saving' = FALSE
    /\ spoiled' \in {FALSE, fragile}
    /\ UNCHANGED <<value, durable, fragile, load>>

\* The machine goes down, with whatever runs on it.
Lose ==
    /\ saving' = FALSE
    /\ value' \in durable /\ durable' = {value'}
    /\ spoiled' \in {FALSE, fragile}
    /\ load' = [r \in Readers |-> NotLoading]
    /\ UNCHANGED fragile

StartLoad(r) ==
    /\ ~load[r].loading /\ value # Empty
    /\ load' = [load EXCEPT ![r] = [loading |-> TRUE, overlapped |-> saving, got |-> Empty]]
    /\ UNCHANGED <<value, durable, saving, fragile, spoiled>>

Ends(r, got) ==
    /\ load' = [load EXCEPT ![r] = [NotLoading EXCEPT !.got = got]]
    /\ UNCHANGED <<value, durable, saving, fragile, spoiled>>

\* Nothing was stored.
Miss(r) == ~load[r].loading /\ value = Empty /\ Ends(r, Empty)
Return(r) == load[r].loading /\ Ends(r, value)
Refuse(r) == load[r].loading /\ (load[r].overlapped \/ spoiled) /\ Ends(r, Refused)

Next ==
    \/ BeginSave \/ Publish \/ Settle \/ Hinder \/ EndSave \/ CutSave \/ Lose
    \/ \E r \in Readers : StartLoad(r) \/ Miss(r) \/ Return(r) \/ Refuse(r)

Spec == Init /\ [][Next]_vars
============================================================================
