----------------------------- MODULE FanHandoff -----------------------------
(***************************************************************************)
(* What the fan controller promises the rest of the server, whatever its   *)
(* cycles, commands and failures do: the BIOS loses the fans only while    *)
(* the process knows that it owes them back, no new debt is made once the  *)
(* process is stopping, and a handoff that is done stays done.             *)
(***************************************************************************)

VARIABLES
    manual,     \* the firmware is in manual fan mode
    owed,       \* the process owes the BIOS a handoff
    stopping,   \* shutdown has begun
    handoff     \* the handoff of the shutdown

vars == <<manual, owed, stopping, handoff>>

Init == ~manual /\ ~owed /\ ~stopping /\ handoff = "none"

Owe == ~stopping /\ owed' = TRUE /\ UNCHANGED <<manual, stopping, handoff>>

Take ==
    /\ owed /\ handoff \in {"none", "pending"}
    /\ manual' = TRUE
    /\ UNCHANGED <<owed, stopping, handoff>>

\* A restore call, or firmware that takes the fans back by itself.
Yield == manual' = FALSE /\ UNCHANGED <<owed, stopping, handoff>>

Stop == stopping' = TRUE /\ UNCHANGED <<manual, owed, handoff>>

Attempt ==
    /\ stopping /\ handoff = "none"
    /\ handoff' = "pending"
    /\ UNCHANGED <<manual, owed, stopping>>

\* A startup that failed gives the fans back without a shutdown.
Settle ==
    /\ manual' = FALSE /\ owed' = FALSE
    /\ \/ UNCHANGED handoff
       \/ handoff = "pending" /\ handoff' = "done"
    /\ UNCHANGED stopping

GiveUp ==
    /\ handoff = "pending" /\ handoff' = "failed"
    /\ manual' \in {manual, FALSE}
    /\ UNCHANGED <<owed, stopping>>

Next == Owe \/ Take \/ Yield \/ Stop \/ Attempt \/ Settle \/ GiveUp

Spec == Init /\ [][Next]_vars
=============================================================================
