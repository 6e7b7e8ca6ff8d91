------------------------- MODULE FanControlHistory -------------------------
(***************************************************************************)
(* FanControl with two history variables, for what the documentation       *)
(* promises about a sequence of cycles: how long the machine has been      *)
(* cooling since anything last disturbed it, and whether a saved curve     *)
(* still has to be used.  The variables observe; they constrain no step.   *)
(***************************************************************************)
EXTENDS FanControl

VARIABLES
    coolingCycles,   \* consecutive cycles that measured a target below the output
    newCurve         \* a curve saved in automatic mode that no cycle has decided on

historyVars == <<vars, coolingCycles, newCurve>>

\* A cycle used its averages in automatic mode.
AutomaticDecision ==
    /\ Deciding /\ cyclePhase' # "decide"
    /\ ~cycleFailed /\ ~doFixedSpeed

Cooling ==
    /\ AutomaticDecision
    /\ appliedFanPercentage # Null
    /\ CurveTarget(curve, lastAverages') < appliedFanPercentage

\* What ends a cooling period: any other decision, a fan write of a cycle
\* that settled, and every manual command, also one that fails or that comes
\* and goes between two samples.
Disturbed ==
    \/ Deciding /\ cyclePhase' # "decide" /\ ~Cooling
    \/ settled["cycle"] # "none" /\ settled'["cycle"] = "none"
    \/ manualWriteVersion' # manualWriteVersion

HistoryInit == Init /\ coolingCycles = 0 /\ newCurve = "none"

HistoryNext ==
    /\ Next
    /\ coolingCycles' = IF Cooling THEN coolingCycles + 1
                        ELSE IF Disturbed THEN 0 ELSE coolingCycles
    /\ newCurve' =
        IF HandleFanTable /\ ~doFixedSpeed
        THEN IF cyclePhase = "write" THEN "savedDuringWrite" ELSE "saved"
        ELSE IF AutomaticDecision \/ doFixedSpeed' THEN "none" ELSE newCurve

HistorySpec == HistoryInit /\ [][HistoryNext]_historyVars

-----------------------------------------------------------------------------
\* A step down is earned: a ramp lowers the output only after WaitRampDown
\* consecutive cooling cycles, the present one included, with no manual
\* command, failed collection or other write among them.
RampDownIsEarned ==
    [][Cooling /\ cyclePhase' = "write" /\ cycleThen' = "ramp"
       => coolingCycles' >= WaitRampDown]_historyVars

\* The decision writes its measured target outright, without ramping.
AppliesTarget ==
    /\ cyclePhase' = "write"
    /\ fanWriteQueue'[Len(fanWriteQueue')].percent = CurveTarget(curve, lastAverages')

\* A curve saved while no cycle's write is in flight is applied at the
\* measured temperature by the next automatic cycle, also when commands,
\* shutdown or skipped ticks come between.
NewCurveIsApplied ==
    [][AutomaticDecision /\ newCurve = "saved" => AppliesTarget]_historyVars

\* The same for every saved curve, as common/PROTOCOL.md and ARCHITECTURE.md
\* state it.
NextCycleUsesNewCurve ==
    [][AutomaticDecision /\ newCurve # "none" => AppliesTarget]_historyVars

-----------------------------------------------------------------------------
(* What the loop's counters know of the history *)

BeforeLoop == {"idle", "takeover", "first"}

\* The ramp-down counter is covered by the cooling cycles, or is not used: a
\* command has retired it, the output is unconfirmed, a write is about to
\* reset it, or no cycle follows.
CoolingIsCounted ==
    \/ rampDownCycle <= coolingCycles + 1
    \/ previousVersion < manualWriteVersion
    \/ appliedFanPercentage = Null
    \/ cyclePhase = "write"
    \/ isShuttingDown

\* The loop looks at a saved curve as new until a cycle has decided on it; the
\* only write that may be in flight is one that failed hot.
SavedCurveIsUnseen ==
    newCurve = "saved" => /\ ~curveSeen /\ ~doFixedSpeed
                          /\ cyclePhase = "write" => cycleThen = "hot"

HistoryInv ==
    /\ coolingCycles \in Nat
    /\ previousVersion <= manualWriteVersion
    /\ command # Null => previousVersion < manualWriteVersion
    /\ settled["cycle"] = "error" => appliedFanPercentage = Null \/ isShuttingDown
    /\ runPhase \in BeforeLoop => rampDownCycle = 1 /\ newCurve = "none"
    /\ CoolingIsCounted
    /\ SavedCurveIsUnseen
=============================================================================
