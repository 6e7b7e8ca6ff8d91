-------------------------- MODULE DurableSettings --------------------------
(***************************************************************************)
(* What server/state/index.ts promises its callers: the settings in        *)
(* memory, the snapshots that wait to be saved, and a file that always     *)
(* holds one whole snapshot or nothing usable.                             *)
(***************************************************************************)
EXTENDS Sequences

CONSTANTS
    Snapshots,  \* everything the settings can be
    Default,    \* the built-in settings
    Unusable    \* what a missing or invalid file holds

VARIABLES
    active,     \* the settings in memory
    pending,    \* snapshots to save, oldest first
    durable     \* what a restart would find

vars == <<active, pending, durable>>

Loaded(file) == IF file \in Snapshots THEN file ELSE Default

Init ==
    /\ durable \in Snapshots \cup {Unusable}
    /\ active = Loaded(durable)
    /\ pending = <<>>

\* A mutation takes its snapshot at once, whatever is still being saved.
Save(v) ==
    /\ active' = v
    /\ pending' = Append(pending, v)
    /\ UNCHANGED durable

Commit ==
    /\ pending # <<>>
    /\ durable' = Head(pending)
    /\ pending' = Tail(pending)
    /\ UNCHANGED active

Refuse ==
    /\ pending # <<>>
    /\ pending' = Tail(pending)
    /\ UNCHANGED <<active, durable>>

Restart ==
    /\ active' = Loaded(durable)
    /\ pending' = <<>>
    /\ UNCHANGED durable

\* Somebody else replaces the file between two saves.
Edit ==
    /\ pending = <<>>
    /\ durable' \in Snapshots \cup {Unusable}
    /\ UNCHANGED <<active, pending>>

Next == (\E v \in Snapshots : Save(v)) \/ Commit \/ Refuse \/ Restart \/ Edit

Spec == Init /\ [][Next]_vars
=============================================================================
