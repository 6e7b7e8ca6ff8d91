------------------------- MODULE FanControlHandoff -------------------------
(***************************************************************************)
(* FanControl implements FanHandoff.                                       *)
(***************************************************************************)
EXTENDS FanControlInvariant

ShutdownHandoff ==
    CASE restore["shutdown"] = "ok"     -> "done"
      [] restore["shutdown"] = "failed" -> "failed"
      [] restore["shutdown"] = "idle"   -> "none"
      [] OTHER -> "pending"

Handoff == INSTANCE FanHandoff WITH
    manual <- ~BiosInControl, owed <- requiresBiosRestore,
    stopping <- isShuttingDown, handoff <- ShutdownHandoff

\* Every step of the controller is a step of the abstract handoff: the fans
\* leave the BIOS only under a remembered debt, the debt is dropped only with
\* the BIOS back in control, and nothing follows a completed handoff.
HandoffImplemented == Handoff!Spec

\* The controller in its process, seen by the machine.
Shared == INSTANCE SharedFans WITH
    Processes <- {"server"},
    manual <- ~BiosInControl,
    owed <- [p \in {"server"} |-> requiresBiosRestore],
    phase <- [p \in {"server"} |-> IF isShuttingDown THEN "stopping" ELSE "up"],
    handoff <- [p \in {"server"} |-> ShutdownHandoff]
=============================================================================
