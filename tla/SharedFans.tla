----------------------------- MODULE SharedFans -----------------------------
(***************************************************************************)
(* What server processes that share one firmware promise each other: each  *)
(* behaves as FanHandoff says, and may in addition be killed at any moment *)
(* with a call in progress.  Whoever takes the fans owes them back first,  *)
(* and only a process without debts ends cleanly.                          *)
(***************************************************************************)
CONSTANT Processes

VARIABLES
    manual,     \* the firmware is in manual fan mode
    owed,       \* which processes owe the BIOS a handoff
    phase,      \* "up", "stopping", "clean" or "dirty" of each process
    handoff     \* the handoff of each shutdown

vars == <<manual, owed, phase, handoff>>

Ended(p) == phase[p] \in {"clean", "dirty"}

Init ==
    /\ ~manual
    /\ owed = [p \in Processes |-> FALSE]
    /\ phase = [p \in Processes |-> "up"]
    /\ handoff = [p \in Processes |-> "none"]

Owe(p) ==
    /\ phase[p] = "up"
    /\ owed' = [owed EXCEPT ![p] = TRUE]
    /\ UNCHANGED <<manual, phase, handoff>>

\* A process takes the fans over only before the handoff of its shutdown is made.
MayTake(p) == owed[p] /\ ~Ended(p) /\ handoff[p] \in {"none", "pending"}

Take(p) ==
    /\ MayTake(p)
    /\ manual' = TRUE
    /\ UNCHANGED <<owed, phase, handoff>>

Yield(p) ==
    /\ ~Ended(p)
    /\ manual' = FALSE
    /\ UNCHANGED <<owed, phase, handoff>>

\* A release at startup that fails stops the process, and may have worked.
Stop(p) ==
    /\ phase[p] = "up"
    /\ phase' = [phase EXCEPT ![p] = "stopping"]
    /\ manual' \in {manual, FALSE}
    /\ UNCHANGED <<owed, handoff>>

Attempt(p) ==
    /\ phase[p] = "stopping" /\ handoff[p] = "none"
    /\ handoff' = [handoff EXCEPT ![p] = "pending"]
    /\ UNCHANGED <<manual, owed, phase>>

\* The fans are back: at startup, or by the handoff of the shutdown.
Settle(p) ==
    /\ ~Ended(p)
    /\ manual' = FALSE
    /\ owed' = [owed EXCEPT ![p] = FALSE]
    /\ \/ UNCHANGED handoff
       \/ handoff[p] = "pending" /\ handoff' = [handoff EXCEPT ![p] = "done"]
    /\ UNCHANGED phase

GiveUp(p) ==
    /\ ~Ended(p) /\ handoff[p] = "pending"
    /\ handoff' = [handoff EXCEPT ![p] = "failed"]
    /\ manual' \in {manual, FALSE}
    /\ UNCHANGED <<owed, phase>>

\* Ending cleanly is for a process that owes nothing and makes no handoff.
EndCleanly(p) ==
    /\ phase[p] = "stopping" /\ ~owed[p] /\ handoff[p] \in {"none", "done"}
    /\ phase' = [phase EXCEPT ![p] = "clean"]
    /\ UNCHANGED <<manual, owed, handoff>>

\* Ending in any other way leaves a call behind that may still be carried out.
Die(p) ==
    /\ ~Ended(p)
    /\ phase' = [phase EXCEPT ![p] = "dirty"]
    /\ \/ manual' \in {manual, FALSE}
       \/ MayTake(p) /\ manual' = TRUE
    /\ UNCHANGED <<owed, handoff>>

Next ==
    \E p \in Processes :
        \/ Owe(p) \/ Take(p) \/ Yield(p) \/ Stop(p) \/ Attempt(p)
        \/ Settle(p) \/ GiveUp(p) \/ EndCleanly(p) \/ Die(p)

Spec == Init /\ [][Next]_vars

-----------------------------------------------------------------------------
\* What follows for the machine: manual mode always has a debtor, and who ended
\* cleanly owes nothing.  Once all that ever ran have ended cleanly, the BIOS
\* has the fans.
FansAreAccountedFor ==
    /\ manual => \E p \in Processes : owed[p]
    /\ \A p \in Processes : phase[p] = "clean" => ~owed[p]
=============================================================================
