-------------------------- MODULE FanControlProofs --------------------------
(***************************************************************************)
(* The inductive invariant of FanControl, proved for every value of the    *)
(* constants, the safety properties that follow from it, the refinement of *)
(* FanHandoff, what the callers wait for, and what the history variables   *)
(* observe.                                                                *)
(***************************************************************************)
EXTENDS FanControlHandoff, FanControlHistory, FanCurveProofs

-----------------------------------------------------------------------------
(* Types of what the actions put together *)

LEMMA CurveIsValid == ASSUME NEW c \in Curves PROVE ValidCurve(c)
  BY CurvesAssumption

LEMMA CallCount ==
    ASSUME NEW op
    PROVE  /\ Len(CallsOf(op)) = IF op.kind = "init" THEN 4 ELSE 2
           /\ Len(CallsOf(op)) \in Int /\ Len(CallsOf(op)) <= 4
  BY DEF CallsOf, InitCalls, WriteCalls

LEMMA FanCallType ==
    ASSUME NEW op \in FanOps, NEW k \in 1 .. Len(CallsOf(op))
    PROVE  /\ By("fan", CallsOf(op)[k]) \in Calls
           /\ By("fan", CallsOf(op)[k]).by = "fan"
  <1>1. FanPercentToSpeed(op.percent) \in Duty
    BY SpeedIsDuty DEF FanOps
  <1>2. CASE op.kind = "init"
    <2>1. k \in {1, 2, 3, 4} /\ CallsOf(op) = InitCalls
      BY <1>2, CallCount DEF CallsOf
    <2>2. InitCalls[k] \in [method : Methods, data : Duty]
      BY <2>1 DEF InitCalls, Methods, Duty
    <2> QED
      BY <2>1, <2>2 DEF By, Calls
  <1>3. CASE op.kind # "init"
    BY <1>1, <1>3, CallCount DEF CallsOf, WriteCalls, By, Calls, Methods
  <1> QED
    BY <1>2, <1>3

LEMMA RestoreCallType ==
    ASSUME NEW by \in Restorers
    PROVE  By(by, RestoreCalls[1]) \in Calls /\ By(by, RestoreCalls[2]) \in Calls
  BY DEF RestoreCalls, By, Calls, Methods, Duty

LEMMA AfterType ==
    ASSUME NEW fw \in Firmware, NEW call \in Calls
    PROVE  After(fw, call) \in Firmware
  BY DEF After, Firmware, Calls

LEMMA OutcomeType ==
    ASSUME TypeOK, NEW call \in Calls
    PROVE  Outcomes(call) \subseteq Firmware
  BY AfterType DEF Outcomes, TypeOK, NativeTypes

LEMMA WriteOpType ==
    ASSUME NEW percent \in Percent, NEW expected \in Nat \cup {Null},
           NEW owner \in Owners
    PROVE  WriteOp(percent, expected, owner) \in FanOps
  BY DEF WriteOp, FanOps

LEMMA InitOpType ==
    ASSUME NEW owner \in Owners
    PROVE  InitOp(owner) \in FanOps
  BY DEF InitOp, FanOps, Percent
LEMMA SensorCallType == SensorCall \in Calls
  BY DEF SensorCall, Calls, Methods, Duty

LEMMA HeadOp ==
    ASSUME TypeOK, fanWriteQueue # <<>>
    PROVE  /\ Head(fanWriteQueue) \in FanOps
           /\ Head(fanWriteQueue).owner \in Owners
           /\ Tail(fanWriteQueue) \in Seq(FanOps)
  <1>1. /\ Head(fanWriteQueue) \in FanOps
        /\ Tail(fanWriteQueue) \in Seq(FanOps)
    BY DEF TypeOK, QueueTypes
  <1> QED
    BY <1>1 DEF FanOps

LEMMA HeadCall ==
    ASSUME TypeOK, nativeCalls # <<>>
    PROVE  /\ Head(nativeCalls) \in Calls
           /\ Tail(nativeCalls) \in Seq(Calls)
           /\ Head(nativeCalls) \in Issued(nativeCalls)
  BY DEF TypeOK, NativeTypes, Issued

LEMMA PublishType ==
    ASSUME TypeOK, NEW speed \in Percent \cup {Null}, NEW measured,
           Publish(speed, measured)
    PROVE  activity' \in Activities \cup {Null}
  BY DEF Publish, Activities, TypeOK, CycleTypes

-----------------------------------------------------------------------------
(* Type correctness *)

\* Every step keeps the types, given what the queue invariants say of a step.
LEMMA TypeStep ==
    ASSUME TypeOK, OneWritePerOwner, CallersBelongToTheRun, OneFanCall, Next
    PROVE  TypeOK'
  <1> USE DEF TypeOK, vars, serverVars, settingVars, manualVars, runVars,
              queueVars, outputVars, loopVars, cycleVars, collectVars, rampVars,
              restoreVars, platformVars, boundVars
  <1>1. CASE DropFanWrite
    <2>1. fanWriteQueue # <<>>
      BY <1>1 DEF DropFanWrite, HeadWaits
    <2>2. QueueTypes'
      BY <1>1, <2>1, HeadOp DEF DropFanWrite, SettleHead, Outcome, QueueTypes
    <2>3. (SettingTypes /\ RunTypes /\ OutputTypes)'
      BY <1>1 DEF DropFanWrite, FanFrame, SettingTypes, RunTypes, OutputTypes
    <2>4. (CycleTypes /\ RampTypes /\ NativeTypes)'
      BY <1>1 DEF DropFanWrite, FanFrame, CycleTypes, RampTypes, NativeTypes
    <2> QED
      BY <2>2, <2>3, <2>4
  <1>2. CASE StartFanWrite
    <2>1. Head(fanWriteQueue) \in FanOps
      BY <1>2, HeadOp DEF StartFanWrite, HeadWaits
    <2>2. By("fan", CallsOf(Head(fanWriteQueue))[1]) \in Calls
      BY <2>1, FanCallType, CallCount
    <2>3. QueueTypes'
      BY <1>2 DEF StartFanWrite, FanFrame, QueueTypes
    <2>4. OutputTypes'
      BY <1>2 DEF StartFanWrite, OutputTypes
    <2>5. NativeTypes'
      BY <1>2, <2>2 DEF StartFanWrite, FanFrame, NativeTypes
    <2>6. (SettingTypes /\ RunTypes /\ CycleTypes)'
      BY <1>2 DEF StartFanWrite, FanFrame, SettingTypes, RunTypes, CycleTypes
    <2>7. RampTypes'
      BY <1>2 DEF StartFanWrite, FanFrame, RampTypes
    <2> QED
      BY <2>3, <2>4, <2>5, <2>6, <2>7
  <1>3. CASE DecideAbandon
    <2>1. (SettingTypes /\ RunTypes /\ QueueTypes)'
      BY <1>3 DEF DecideAbandon, SettingTypes, RunTypes, QueueTypes
    <2>2. (OutputTypes /\ CycleTypes /\ RampTypes)'
      BY <1>3 DEF DecideAbandon, OutputTypes, CycleTypes, RampTypes
    <2>3. NativeTypes'
      BY <1>3 DEF DecideAbandon, NativeTypes
    <2> QED
      BY <2>1, <2>2, <2>3
  <1>4. CASE DecideFixedBlind
    <2>1. WriteOp(fixedPercentage, cycleVersion, "cycle") \in FanOps
      BY WriteOpType DEF Owners, SettingTypes, CycleTypes
    <2>2. QueueTypes'
      BY <1>4, <2>1 DEF DecideFixedBlind, CycleWrites, CycleEndsHere,
         EnqueueFanWrite, DecisionFrame, QueueTypes
    <2>3. CycleTypes'
      BY <1>4, PublishType DEF DecideFixedBlind, CycleWrites, CycleEndsHere,
         OutputTypes, DecisionFrame, CycleTypes
    <2>4. RampTypes'
      BY <1>4 DEF DecideFixedBlind, DecisionFrame, CycleTypes, RampTypes
    <2>5. (SettingTypes /\ RunTypes /\ OutputTypes)'
      BY <1>4 DEF DecideFixedBlind, DecisionFrame, CycleWrites, CycleEndsHere,
         SettingTypes, RunTypes, OutputTypes
    <2>6. NativeTypes'
      BY <1>4 DEF DecideFixedBlind, DecisionFrame, CycleWrites, CycleEndsHere,
         NativeTypes
    <2> QED
      BY <2>2, <2>3, <2>4, <2>5, <2>6
  <1>5. CASE DecideFailHot
    <2>1. HighestFanTarget(curve) \in Percent
      BY HighestSpeed, CurveIsValid DEF SettingTypes
    <2>2. WriteOp(HighestFanTarget(curve), cycleVersion, "cycle") \in FanOps
      BY WriteOpType, <2>1 DEF Owners, CycleTypes
    <2>3. QueueTypes'
      BY <1>5, <2>2 DEF DecideFailHot, CycleWrites, EnqueueFanWrite,
         DecisionFrame, QueueTypes
    <2>4. (SettingTypes /\ RunTypes /\ OutputTypes)'
      BY <1>5 DEF DecideFailHot, DownCycle, UpCycle, AwaitsFirstTarget,
         CycleWrites, DecisionFrame, SettingTypes, RunTypes, OutputTypes
    <2>5. (CycleTypes /\ RampTypes /\ NativeTypes)'
      BY <1>5 DEF DecideFailHot, DownCycle, UpCycle, AwaitsFirstTarget,
         CycleWrites, DecisionFrame, CycleTypes, RampTypes, NativeTypes
    <2> QED
      BY <2>3, <2>4, <2>5
  <1>6. CASE DecideFixed
    <2>1. WriteOp(fixedPercentage, cycleVersion, "cycle") \in FanOps
      BY WriteOpType DEF Owners, SettingTypes, CycleTypes
    <2>2. DownCycle \in Nat /\ UpCycle \in Nat
      BY DEF DownCycle, UpCycle, RampTypes
    <2>3. rampDownCycle' \in Nat /\ rampUpCycle' \in Nat
      BY <1>6, <2>2 DEF DecideFixed
    <2>4. curveSeen' \in BOOLEAN
      BY <1>6 DEF DecideFixed, RampTypes
    <2>5. QueueTypes'
      BY <1>6, <2>1 DEF DecideFixed, CycleWrites, CycleEndsHere,
         EnqueueFanWrite, DecisionFrame, QueueTypes
    <2>6. CycleTypes'
      BY <1>6, PublishType DEF DecideFixed, CycleWrites, CycleEndsHere,
         OutputTypes, DecisionFrame, CycleTypes
    <2>7. RampTypes'
      BY <1>6, <2>3, <2>4 DEF DecideFixed, DecisionFrame, CycleTypes, RampTypes
    <2>8. (SettingTypes /\ RunTypes /\ OutputTypes)'
      BY <1>6 DEF DecideFixed, DecisionFrame, CycleWrites, CycleEndsHere,
         SettingTypes, RunTypes, OutputTypes
    <2>9. NativeTypes'
      BY <1>6 DEF DecideFixed, DecisionFrame, CycleWrites, CycleEndsHere,
         NativeTypes
    <2> QED
      BY <2>5, <2>6, <2>7, <2>8, <2>9
  <1>7. CASE DecideDirect
    <2>1. \A m \in Measurements : CurveTarget(curve, m) \in Percent
      BY TargetBelowHighest, CurveIsValid, MeasurementsAssumption DEF
         SettingTypes
    <2>2. WriteOp(CurveTarget(curve, lastAverages'), cycleVersion, "cycle") \in FanOps
      BY <1>7, <2>1, WriteOpType DEF DecideDirect, Owners, CycleTypes
    <2>3. QueueTypes'
      BY <1>7, <2>2 DEF DecideDirect, CycleWrites, EnqueueFanWrite,
         DecisionFrame, QueueTypes
    <2>4. (SettingTypes /\ RunTypes /\ OutputTypes)'
      BY <1>7 DEF DecideDirect, DownCycle, UpCycle, AwaitsFirstTarget,
         CycleWrites, DecisionFrame, SettingTypes, RunTypes, OutputTypes
    <2>5. (CycleTypes /\ RampTypes /\ NativeTypes)'
      BY <1>7 DEF DecideDirect, DownCycle, UpCycle, AwaitsFirstTarget,
         CycleWrites, DecisionFrame, CycleTypes, RampTypes, NativeTypes
    <2> QED
      BY <2>3, <2>4, <2>5
  <1>8. CASE DecideRamp
    <2>1. \A m \in Measurements : CurveTarget(curve, m) \in Percent
      BY TargetBelowHighest, CurveIsValid, MeasurementsAssumption DEF
         SettingTypes
    <2>2. appliedFanPercentage \in Percent
      BY <1>8 DEF DecideRamp, ApplyDirectly, OutputTypes
    <2>3. \A m \in Measurements : WriteOp(GetGradientTarget(appliedFanPercentage, CurveTarget(curve, m)), cycleVersion, "cycle") \in FanOps
      BY <2>1, <2>2, GradientBetween, WriteOpType DEF Owners, CycleTypes
    <2>4. QueueTypes'
      BY <1>8, <2>3 DEF DecideRamp, RampUp, RampDown, Hold, CycleWrites,
         CycleEndsHere, EnqueueFanWrite, DecisionFrame, QueueTypes
    <2>5. CycleTypes'
      BY <1>8, <2>2, PublishType DEF DecideRamp, RampUp, RampDown, Hold,
         CycleWrites, CycleEndsHere, DecisionFrame, CycleTypes
    <2>6. RampTypes'
      BY <1>8 DEF DecideRamp, RampUp, RampDown, Hold, DownCycle, UpCycle,
         AwaitsFirstTarget, DecisionFrame, CycleTypes, RampTypes
    <2>7. (SettingTypes /\ RunTypes /\ OutputTypes)'
      BY <1>8 DEF DecideRamp, DecisionFrame, RampUp, RampDown, Hold,
         CycleWrites, CycleEndsHere, SettingTypes, RunTypes, OutputTypes
    <2>8. NativeTypes'
      BY <1>8 DEF DecideRamp, DecisionFrame, RampUp, RampDown, Hold,
         CycleWrites, CycleEndsHere, NativeTypes
    <2> QED
      BY <2>4, <2>5, <2>6, <2>7, <2>8
  <1>9. CASE CycleWriteDone
    <2>1. QueueTypes'
      BY <1>9 DEF CycleWriteDone, ResumeFrame, Outcome, Owners, QueueTypes
    <2>2. CycleTypes'
      BY <1>9, PublishType DEF CycleWriteDone, ResumeFrame, OutputTypes,
         CycleTypes
    <2>3. RampTypes'
      BY <1>9 DEF CycleWriteDone, ResumeFrame, RampTypes
    <2>4. (SettingTypes /\ RunTypes /\ OutputTypes)'
      BY <1>9 DEF CycleWriteDone, ResumeFrame, SettingTypes, RunTypes,
         OutputTypes
    <2>5. NativeTypes'
      BY <1>9 DEF CycleWriteDone, ResumeFrame, NativeTypes
    <2> QED
      BY <2>1, <2>2, <2>3, <2>4, <2>5
  <1>10. CASE CycleWriteFailed
    <2>1. QueueTypes'
      BY <1>10 DEF CycleWriteFailed, ResumeFrame, Outcome, Owners, QueueTypes
    <2>2. CycleTypes'
      BY <1>10, PublishType DEF CycleWriteFailed, ResumeFrame, CycleTypes
    <2>3. (SettingTypes /\ RunTypes /\ OutputTypes)'
      BY <1>10 DEF CycleWriteFailed, ResumeFrame, SettingTypes, RunTypes,
         OutputTypes
    <2>4. (RampTypes /\ NativeTypes)'
      BY <1>10 DEF CycleWriteFailed, ResumeFrame, RampTypes, NativeTypes
    <2> QED
      BY <2>1, <2>2, <2>3, <2>4
  <1>11. CASE RunAppliesFirstSpeed
    <2>1. HighestFanTarget(curve) \in Percent
      BY HighestSpeed, CurveIsValid DEF SettingTypes
    <2>2. WriteOp(IF doFixedSpeed THEN fixedPercentage ELSE HighestFanTarget(curve), Null, "run") \in FanOps
      BY <2>1, WriteOpType DEF Owners, SettingTypes
    <2>3. QueueTypes'
      BY <1>11, <2>2 DEF RunAppliesFirstSpeed, EnqueueFanWrite, RunFrame,
         Outcome, Owners, QueueTypes
    <2>4. RampTypes'
      BY <1>11 DEF RunAppliesFirstSpeed, SettingTypes, RunFrame, RampTypes
    <2>5. (SettingTypes /\ RunTypes /\ OutputTypes)'
      BY <1>11 DEF RunAppliesFirstSpeed, RunFrame, SettingTypes, RunTypes,
         OutputTypes
    <2>6. (CycleTypes /\ NativeTypes)'
      BY <1>11 DEF RunAppliesFirstSpeed, RunFrame, CycleTypes, NativeTypes
    <2> QED
      BY <2>3, <2>4, <2>5, <2>6
  <1>12. CASE RunEntersLoop
    <2>1. QueueTypes'
      BY <1>12 DEF RunEntersLoop, RunFrame, Outcome, Owners, QueueTypes
    <2>2. RampTypes'
      BY <1>12 DEF RunEntersLoop, SettingTypes, RampTypes
    <2>3. (SettingTypes /\ RunTypes /\ OutputTypes)'
      BY <1>12 DEF RunEntersLoop, RunFrame, SettingTypes, RunTypes, OutputTypes
    <2>4. (CycleTypes /\ NativeTypes)'
      BY <1>12 DEF RunEntersLoop, RunFrame, CycleTypes, NativeTypes
    <2> QED
      BY <2>1, <2>2, <2>3, <2>4
  <1>13. CASE RunStops
    <2>1. QueueTypes'
      BY <1>13 DEF RunStops, RunFrame, Outcome, Owners, QueueTypes
    <2>2. (SettingTypes /\ RunTypes /\ OutputTypes)'
      BY <1>13 DEF RunStops, RunFrame, SettingTypes, RunTypes, OutputTypes
    <2>3. (CycleTypes /\ RampTypes /\ NativeTypes)'
      BY <1>13 DEF RunStops, RunFrame, CycleTypes, RampTypes, NativeTypes
    <2> QED
      BY <2>1, <2>2, <2>3
  <1>14. CASE RunFails
    <2>1. QueueTypes'
      BY <1>14 DEF RunFails, RunFrame, Outcome, Owners, QueueTypes
    <2>2. NativeTypes'
      BY <1>14 DEF RunFails, RunFrame, Restorers, NativeTypes
    <2>3. (SettingTypes /\ RunTypes /\ OutputTypes)'
      BY <1>14 DEF RunFails, RunFrame, SettingTypes, RunTypes, OutputTypes
    <2>4. (CycleTypes /\ RampTypes)'
      BY <1>14 DEF RunFails, RunFrame, CycleTypes, RampTypes
    <2> QED
      BY <2>1, <2>2, <2>3, <2>4
  <1>15. CASE ReinitSettles
    <2>1. QueueTypes'
      BY <1>15 DEF ReinitSettles, Outcome, Owners, QueueTypes
    <2>2. (SettingTypes /\ RunTypes /\ OutputTypes)'
      BY <1>15 DEF ReinitSettles, FlagAfter, SettingTypes, RunTypes,
         OutputTypes
    <2>3. (CycleTypes /\ RampTypes /\ NativeTypes)'
      BY <1>15 DEF ReinitSettles, FlagAfter, CycleTypes, RampTypes, NativeTypes
    <2> QED
      BY <2>1, <2>2, <2>3
  <1>16. CASE CommandSettles
    <2>1. command \in Commands /\ pendingManualWrites = 1
      BY <1>16 DEF CommandSettles, HandlerWakes, OneWritePerOwner, Busy,
         Owners, CallersBelongToTheRun, SettingTypes
    <2>2. doFixedSpeed' \in BOOLEAN /\ fixedPercentage' \in Percent
      BY <1>16, <2>1 DEF CommandSettles, Commands, SettingTypes
    <2>3. QueueTypes'
      BY <1>16 DEF CommandSettles, CommandFrame, Outcome, Owners, QueueTypes
    <2>4. SettingTypes'
      BY <1>16, <2>1, <2>2 DEF CommandSettles, CommandFrame, SettingTypes
    <2>5. (RunTypes /\ OutputTypes /\ CycleTypes)'
      BY <1>16 DEF CommandSettles, CommandFrame, RunTypes, OutputTypes,
         CycleTypes
    <2>6. (RampTypes /\ NativeTypes)'
      BY <1>16 DEF CommandSettles, CommandFrame, RampTypes, NativeTypes
    <2> QED
      BY <2>3, <2>4, <2>5, <2>6
  <1>17. ASSUME NEW by \in Restorers, RestoreIssues(by) PROVE TypeOK'
    <2>1. NativeTypes'
      BY <1>17, RestoreCallType DEF RestoreIssues, RestoreFrame, Restorers,
         NativeTypes
    <2>2. (SettingTypes /\ RunTypes /\ QueueTypes)'
      BY <1>17 DEF RestoreIssues, RestoreFrame, SettingTypes, RunTypes,
         QueueTypes
    <2>3. (OutputTypes /\ CycleTypes /\ RampTypes)'
      BY <1>17 DEF RestoreIssues, RestoreFrame, OutputTypes, CycleTypes,
         RampTypes
    <2> QED
      BY <2>1, <2>2, <2>3
  <1>18. CASE FanCallContinues
    <2>1. fanStep > 0 /\ fanWriteQueue # <<>> /\ nativeCalls # <<>>
      BY <1>18, HeadCall DEF FanCallContinues, HeadCallBy, OneFanCall,
         NativeTypes
    <2>2. Head(nativeCalls) \in Calls /\ Tail(nativeCalls) \in Seq(Calls)
      BY <2>1, HeadCall
    <2>3. Head(fanWriteQueue) \in FanOps
      BY <2>1, HeadOp
    <2>4. fanStep + 1 \in 1 .. Len(CallsOf(Head(fanWriteQueue)))
      BY <1>18, <2>1, CallCount DEF FanCallContinues, OperationEnds,
         OneFanCall, QueueTypes
    <2>5. By("fan", CallsOf(Head(fanWriteQueue))[fanStep + 1]) \in Calls
      BY <2>3, <2>4, FanCallType
    <2>6. Len(CallsOf(Head(fanWriteQueue))) \in Int /\ Len(CallsOf(Head(fanWriteQueue))) <= 4
      BY CallCount
    <2>7. fanStep \in Nat /\ fanStep + 1 <= 4
      BY <2>4, <2>6 DEF QueueTypes
    <2>8. After(firmware, Head(nativeCalls)) \in Firmware
      BY <2>2, AfterType DEF NativeTypes
    <2>9. QueueTypes'
      BY <1>18, <2>7 DEF FanCallContinues, FanFrame, QueueTypes
    <2>10. NativeTypes'
      BY <1>18, <2>2, <2>5, <2>8 DEF FanCallContinues, FanFrame, NativeTypes
    <2>11. (SettingTypes /\ RunTypes /\ OutputTypes)'
      BY <1>18 DEF FanCallContinues, FanFrame, SettingTypes, RunTypes,
         OutputTypes
    <2>12. (CycleTypes /\ RampTypes)'
      BY <1>18 DEF FanCallContinues, FanFrame, CycleTypes, RampTypes
    <2> QED
      BY <2>9, <2>10, <2>11, <2>12
  <1>19. CASE FanCallCompletes
    <2>1. fanStep > 0 /\ fanWriteQueue # <<>> /\ nativeCalls # <<>>
      BY <1>19, HeadCall DEF FanCallCompletes, HeadCallBy, OneFanCall,
         NativeTypes
    <2>2. Head(nativeCalls) \in Calls /\ Tail(nativeCalls) \in Seq(Calls)
      BY <2>1, HeadCall
    <2>3. Head(fanWriteQueue) \in FanOps
      BY <2>1, HeadOp
    <2>4. QueueTypes'
      BY <1>19, <2>1, HeadOp DEF FanCallCompletes, SettleHead, Outcome,
         QueueTypes
    <2>5. OutputTypes'
      BY <1>19, <2>3 DEF FanCallCompletes, Confirm, FanOps, OutputTypes
    <2>6. NativeTypes'
      BY <1>19, <2>2, AfterType DEF FanCallCompletes, FanFrame, NativeTypes
    <2>7. (SettingTypes /\ RunTypes /\ CycleTypes)'
      BY <1>19 DEF FanCallCompletes, FanFrame, SettingTypes, RunTypes,
         CycleTypes
    <2>8. RampTypes'
      BY <1>19 DEF FanCallCompletes, FanFrame, RampTypes
    <2> QED
      BY <2>4, <2>5, <2>6, <2>7, <2>8
  <1>20. CASE FanCallFails
    <2>1. fanStep > 0 /\ fanWriteQueue # <<>> /\ nativeCalls # <<>>
      BY <1>20, HeadCall DEF FanCallFails, HeadCallBy, OneFanCall, NativeTypes
    <2>2. Head(nativeCalls) \in Calls /\ Tail(nativeCalls) \in Seq(Calls)
      BY <2>1, HeadCall
    <2>3. Head(fanWriteQueue) \in FanOps
      BY <2>1, HeadOp
    <2>4. Outcomes(Head(nativeCalls)) \subseteq Firmware
      BY <2>2, OutcomeType
    <2>5. QueueTypes'
      BY <1>20, <2>1, HeadOp DEF FanCallFails, SettleHead, Outcome, QueueTypes
    <2>6. OutputTypes'
      BY <1>20, <2>3 DEF FanCallFails, Confirm, FanOps, OutputTypes
    <2>7. NativeTypes'
      BY <1>20, <2>2, <2>4, BoundsAssumption DEF FanCallFails, Fault, FanFrame,
         NativeTypes
    <2>8. (SettingTypes /\ RunTypes /\ CycleTypes)'
      BY <1>20 DEF FanCallFails, FanFrame, SettingTypes, RunTypes, CycleTypes
    <2>9. RampTypes'
      BY <1>20 DEF FanCallFails, FanFrame, RampTypes
    <2> QED
      BY <2>5, <2>6, <2>7, <2>8, <2>9
  <1>21. CASE SensorAnswers
    <2>1. nativeCalls # <<>>
      BY <1>21 DEF SensorAnswers, HeadCallBy
    <2>2. Head(nativeCalls) \in Calls /\ Tail(nativeCalls) \in Seq(Calls)
      BY <2>1, HeadCall
    <2>3. CycleTypes'
      BY <1>21 DEF SensorAnswers, CollectFrame, CycleTypes
    <2>4. NativeTypes'
      BY <1>21, <2>2, SensorCallType DEF SensorAnswers, CollectFrame,
         NativeTypes
    <2>5. (SettingTypes /\ RunTypes /\ QueueTypes)'
      BY <1>21 DEF SensorAnswers, CollectFrame, SettingTypes, RunTypes,
         QueueTypes
    <2>6. (OutputTypes /\ RampTypes)'
      BY <1>21 DEF SensorAnswers, CollectFrame, OutputTypes, RampTypes
    <2> QED
      BY <2>3, <2>4, <2>5, <2>6
  <1>22. CASE SensorFails
    <2>1. nativeCalls # <<>>
      BY <1>22 DEF SensorFails, HeadCallBy
    <2>2. Head(nativeCalls) \in Calls /\ Tail(nativeCalls) \in Seq(Calls)
      BY <2>1, HeadCall
    <2>3. NativeTypes'
      BY <1>22, <2>2, BoundsAssumption DEF SensorFails, SensorFault, Fault,
         CollectFrame, NativeTypes
    <2>4. (SettingTypes /\ RunTypes /\ QueueTypes)'
      BY <1>22 DEF SensorFails, CollectFrame, SettingTypes, RunTypes,
         QueueTypes
    <2>5. (OutputTypes /\ CycleTypes /\ RampTypes)'
      BY <1>22 DEF SensorFails, CollectFrame, OutputTypes, CycleTypes,
         RampTypes
    <2> QED
      BY <2>3, <2>4, <2>5
  <1>23. CASE SensorReadTimesOut
    <2>1. NativeTypes'
      BY <1>23, BoundsAssumption DEF SensorReadTimesOut, SensorFault, Fault,
         CollectFrame, NativeTypes
    <2>2. (SettingTypes /\ RunTypes /\ QueueTypes)'
      BY <1>23 DEF SensorReadTimesOut, CollectFrame, SettingTypes, RunTypes,
         QueueTypes
    <2>3. (OutputTypes /\ CycleTypes /\ RampTypes)'
      BY <1>23 DEF SensorReadTimesOut, CollectFrame, OutputTypes, CycleTypes,
         RampTypes
    <2> QED
      BY <2>1, <2>2, <2>3
  <1>24. CASE SensorAnswersLate
    <2>1. nativeCalls # <<>>
      BY <1>24 DEF SensorAnswersLate, HeadCallBy
    <2>2. Head(nativeCalls) \in Calls /\ Tail(nativeCalls) \in Seq(Calls)
      BY <2>1, HeadCall
    <2>3. NativeTypes'
      BY <1>24, <2>2 DEF SensorAnswersLate, CollectFrame, NativeTypes
    <2>4. (SettingTypes /\ RunTypes /\ QueueTypes)'
      BY <1>24 DEF SensorAnswersLate, CollectFrame, SettingTypes, RunTypes,
         QueueTypes
    <2>5. OutputTypes' /\ RampTypes'
      BY <1>24 DEF SensorAnswersLate, CollectFrame, OutputTypes, RampTypes
    <2>6. CycleTypes'
      BY <1>24 DEF SensorAnswersLate, CollectFrame, CycleTypes
    <2> QED
      BY <2>3, <2>4, <2>5, <2>6
  <1>25. CASE SampleSleepEnds
    <2>1. CycleTypes'
      BY <1>25 DEF SampleSleepEnds, RunTypes, CollectFrame, CycleTypes
    <2>2. NativeTypes'
      BY <1>25, SensorCallType DEF SampleSleepEnds, CollectFrame, NativeTypes
    <2>3. (SettingTypes /\ RunTypes /\ QueueTypes)'
      BY <1>25 DEF SampleSleepEnds, CollectFrame, SettingTypes, RunTypes,
         QueueTypes
    <2>4. (OutputTypes /\ RampTypes)'
      BY <1>25 DEF SampleSleepEnds, CollectFrame, OutputTypes, RampTypes
    <2> QED
      BY <2>1, <2>2, <2>3, <2>4
  <1>26. CASE StartCycle
    <2>1. CycleTypes'
      BY <1>26, CyclesAssumption DEF StartCycle, SettingTypes, CycleTypes
    <2>2. NativeTypes'
      BY <1>26, SensorCallType DEF StartCycle, CollectFrame, NativeTypes
    <2>3. (SettingTypes /\ RunTypes /\ QueueTypes)'
      BY <1>26 DEF StartCycle, CollectFrame, SettingTypes, RunTypes, QueueTypes
    <2>4. (OutputTypes /\ RampTypes)'
      BY <1>26 DEF StartCycle, CollectFrame, OutputTypes, RampTypes
    <2> QED
      BY <2>1, <2>2, <2>3, <2>4
  <1>27. ASSUME NEW by \in Restorers, RestoreCallSucceeds(by) PROVE TypeOK'
    <2>1. nativeCalls # <<>>
      BY <1>27 DEF RestoreCallSucceeds, HeadCallBy
    <2>2. Head(nativeCalls) \in Calls /\ Tail(nativeCalls) \in Seq(Calls)
      BY <2>1, HeadCall
    <2>3. NativeTypes'
      BY <1>27, <2>2, AfterType DEF RestoreCallSucceeds, RestoreSettles,
         FailedSoFar, RestoreFrame, Restorers, NativeTypes
    <2>4. OutputTypes'
      BY <1>27 DEF RestoreCallSucceeds, RestoreSettles, FailedSoFar, StillOwed,
         RestoreFrame, OutputTypes
    <2>5. (SettingTypes /\ RunTypes /\ QueueTypes)'
      BY <1>27 DEF RestoreCallSucceeds, RestoreSettles, RestoreFrame,
         SettingTypes, RunTypes, QueueTypes
    <2>6. (CycleTypes /\ RampTypes)'
      BY <1>27 DEF RestoreCallSucceeds, RestoreSettles, RestoreFrame,
         CycleTypes, RampTypes
    <2> QED
      BY <2>3, <2>4, <2>5, <2>6
  <1>28. ASSUME NEW by \in Restorers, RestoreCallFails(by) PROVE TypeOK'
    <2>1. nativeCalls # <<>>
      BY <1>28 DEF RestoreCallFails, HeadCallBy
    <2>2. Head(nativeCalls) \in Calls /\ Tail(nativeCalls) \in Seq(Calls)
      BY <2>1, HeadCall
    <2>3. Outcomes(Head(nativeCalls)) \subseteq Firmware
      BY <2>2, OutcomeType
    <2>4. NativeTypes'
      BY <1>28, <2>2, <2>3, BoundsAssumption DEF RestoreCallFails,
         RestoreSettles, Fault, RestoreFrame, Restorers, NativeTypes
    <2>5. OutputTypes'
      BY <1>28 DEF RestoreCallFails, RestoreSettles, StillOwed, RestoreFrame,
         OutputTypes
    <2>6. (SettingTypes /\ RunTypes /\ QueueTypes)'
      BY <1>28 DEF RestoreCallFails, RestoreSettles, RestoreFrame,
         SettingTypes, RunTypes, QueueTypes
    <2>7. (CycleTypes /\ RampTypes)'
      BY <1>28 DEF RestoreCallFails, RestoreSettles, RestoreFrame, CycleTypes,
         RampTypes
    <2> QED
      BY <2>4, <2>5, <2>6, <2>7
  <1>29. CASE ReinitTick
    <2>1. QueueTypes'
      BY <1>29, InitOpType DEF ReinitTick, EnqueueFanWrite, Owners, QueueTypes
    <2>2. (SettingTypes /\ RunTypes /\ OutputTypes)'
      BY <1>29 DEF ReinitTick, SettingTypes, RunTypes, OutputTypes
    <2>3. (CycleTypes /\ RampTypes /\ NativeTypes)'
      BY <1>29 DEF ReinitTick, CycleTypes, RampTypes, NativeTypes
    <2> QED
      BY <2>1, <2>2, <2>3
  <1>30. CASE HandleFixedPercentage
    <2>1. \A percent \in Percent : WriteOp(percent, Null, "manual") \in FanOps
      BY WriteOpType DEF Owners
    <2>2. QueueTypes'
      BY <1>30, <2>1, PercentagesAssumption DEF HandleFixedPercentage,
         ApplyFixedFan, EnqueueFanWrite, CommandFrame, QueueTypes
    <2>3. SettingTypes'
      BY <1>30, PercentagesAssumption DEF HandleFixedPercentage, ApplyFixedFan,
         Commands, CommandFrame, SettingTypes
    <2>4. NativeTypes'
      BY <1>30, BoundsAssumption DEF HandleFixedPercentage, MayHandle,
         CommandFrame, NativeTypes
    <2>5. (RunTypes /\ OutputTypes /\ CycleTypes)'
      BY <1>30 DEF HandleFixedPercentage, CommandFrame, RunTypes, OutputTypes,
         CycleTypes
    <2>6. RampTypes'
      BY <1>30 DEF HandleFixedPercentage, CommandFrame, RampTypes
    <2> QED
      BY <2>2, <2>3, <2>4, <2>5, <2>6
  <1>31. CASE HandleDoFixedSpeed
    <2>1. \A percent \in Percent : WriteOp(percent, Null, "manual") \in FanOps
      BY WriteOpType DEF Owners
    <2>2. command' \in Commands \cup {Null}
      BY <1>31 DEF HandleDoFixedSpeed, ApplyFixedFan, Commands, SettingTypes
    <2>3. doFixedSpeed' \in BOOLEAN
      BY <1>31 DEF HandleDoFixedSpeed, SettingTypes
    <2>4. manualWriteVersion' \in Nat /\ pendingManualWrites' \in Nat
      BY <1>31 DEF HandleDoFixedSpeed, ApplyFixedFan, SettingTypes
    <2>5. QueueTypes'
      BY <1>31, <2>1 DEF HandleDoFixedSpeed, ApplyFixedFan, EnqueueFanWrite,
         CommandFrame, SettingTypes, QueueTypes
    <2>6. SettingTypes'
      BY <1>31, <2>2, <2>3, <2>4 DEF HandleDoFixedSpeed, CommandFrame,
         SettingTypes
    <2>7. NativeTypes'
      BY <1>31, BoundsAssumption DEF HandleDoFixedSpeed, MayHandle,
         CommandFrame, NativeTypes
    <2>8. (RunTypes /\ OutputTypes /\ CycleTypes)'
      BY <1>31 DEF HandleDoFixedSpeed, CommandFrame, RunTypes, OutputTypes,
         CycleTypes
    <2>9. RampTypes'
      BY <1>31 DEF HandleDoFixedSpeed, CommandFrame, RampTypes
    <2> QED
      BY <2>5, <2>6, <2>7, <2>8, <2>9
  <1>32. CASE HandleFanTable
    <2>1. NativeTypes'
      BY <1>32, BoundsAssumption DEF HandleFanTable, MayHandle, CommandFrame,
         NativeTypes
    <2>2. (SettingTypes /\ RunTypes /\ QueueTypes)'
      BY <1>32 DEF HandleFanTable, CommandFrame, SettingTypes, RunTypes,
         QueueTypes
    <2>3. OutputTypes' /\ RampTypes'
      BY <1>32 DEF HandleFanTable, CommandFrame, OutputTypes, RampTypes
    <2>4. CycleTypes'
      BY <1>32 DEF HandleFanTable, CommandFrame, CycleTypes
    <2> QED
      BY <2>1, <2>2, <2>3, <2>4
  <1>33. CASE ChannelFails
    <2>1. nativeCalls # <<>> => Outcomes(Head(nativeCalls)) \subseteq Firmware
      BY HeadCall, OutcomeType
    <2>2. firmware' \in Firmware
      BY <1>33, <2>1 DEF ChannelFails, NativeTypes
    <2>3. faults' \in 0 .. MaxFaults
      BY <1>33, BoundsAssumption DEF ChannelFails, NativeTypes
    <2>4. NativeTypes'
      BY <1>33, <2>2, <2>3 DEF ChannelFails, NativeTypes
    <2>5. (SettingTypes /\ RunTypes /\ QueueTypes)'
      BY <1>33 DEF ChannelFails, SettingTypes, RunTypes, QueueTypes
    <2>6. (OutputTypes /\ CycleTypes /\ RampTypes)'
      BY <1>33 DEF ChannelFails, OutputTypes, CycleTypes, RampTypes
    <2> QED
      BY <2>4, <2>5, <2>6
  <1>34. CASE FirmwareReverts
    <2>1. firmware' \in Firmware
      BY <1>34 DEF FirmwareReverts, Firmware, NativeTypes
    <2>2. NativeTypes'
      BY <1>34, <2>1, BoundsAssumption DEF FirmwareReverts, RestoreFrame,
         NativeTypes
    <2>3. (SettingTypes /\ RunTypes /\ QueueTypes)'
      BY <1>34 DEF FirmwareReverts, RestoreFrame, SettingTypes, RunTypes,
         QueueTypes
    <2>4. (OutputTypes /\ CycleTypes /\ RampTypes)'
      BY <1>34 DEF FirmwareReverts, RestoreFrame, OutputTypes, CycleTypes,
         RampTypes
    <2> QED
      BY <2>2, <2>3, <2>4
  <1>35. CASE RunStarts
    <2>1. QueueTypes'
      BY <1>35, InitOpType DEF RunStarts, EnqueueFanWrite, Owners, QueueTypes
    <2>2. (SettingTypes /\ RunTypes /\ OutputTypes)'
      BY <1>35 DEF RunStarts, SettingTypes, RunTypes, OutputTypes
    <2>3. (CycleTypes /\ RampTypes /\ NativeTypes)'
      BY <1>35 DEF RunStarts, CycleTypes, RampTypes, NativeTypes
    <2> QED
      BY <2>1, <2>2, <2>3
  <1>36. CASE StartFanControlShutdown
    <2>1. (SettingTypes /\ RunTypes /\ QueueTypes)'
      BY <1>36 DEF StartFanControlShutdown, RestoreFrame, SettingTypes,
         RunTypes, QueueTypes
    <2>2. (OutputTypes /\ CycleTypes /\ RampTypes)'
      BY <1>36 DEF StartFanControlShutdown, RestoreFrame, OutputTypes,
         CycleTypes, RampTypes
    <2>3. NativeTypes'
      BY <1>36 DEF StartFanControlShutdown, RestoreFrame, NativeTypes
    <2> QED
      BY <2>1, <2>2, <2>3
  <1>37. CASE ShutdownRestores
    <2>1. NativeTypes'
      BY <1>37 DEF ShutdownRestores, RestoreFrame, Restorers, NativeTypes
    <2>2. (SettingTypes /\ RunTypes /\ QueueTypes)'
      BY <1>37 DEF ShutdownRestores, RestoreFrame, SettingTypes, RunTypes,
         QueueTypes
    <2>3. (OutputTypes /\ CycleTypes /\ RampTypes)'
      BY <1>37 DEF ShutdownRestores, RestoreFrame, OutputTypes, CycleTypes,
         RampTypes
    <2> QED
      BY <2>1, <2>2, <2>3
  <1> QED
    BY <1>1, <1>2, <1>3, <1>4, <1>5, <1>6, <1>7, <1>8, <1>9, <1>10,
       <1>11, <1>12, <1>13, <1>14, <1>15, <1>16, <1>17, <1>18, <1>19, <1>20,
       <1>21, <1>22, <1>23, <1>24, <1>25, <1>26, <1>27, <1>28, <1>29, <1>30,
       <1>31, <1>32, <1>33, <1>34, <1>35, <1>36, <1>37 DEF Next,
       FanControlStep, Microtask, NativeCallSettles, HandleCommand, Decide

-----------------------------------------------------------------------------
(* The callers and the fan write queue: what a step may do to it. *)

OwnersStayBusy(others) == \A o \in others : Busy(o) => Busy(o)'

LEMMA QueueElement ==
    ASSUME TypeOK, NEW i \in InQueue
    PROVE  fanWriteQueue[i] \in FanOps /\ fanWriteQueue[i].owner \in Owners
  <1>1. fanWriteQueue[i] \in FanOps
    BY DEF TypeOK, QueueTypes, InQueue
  <1> QED
    BY <1>1 DEF FanOps

LEMMA QueueUntouched ==
    ASSUME TypeOK, OneWritePerOwner, UNCHANGED <<fanWriteQueue, settled>>,
           OwnersStayBusy(Owners)
    PROVE  OneWritePerOwner'
  <1>1. \A i \in InQueue : fanWriteQueue[i].owner \in Owners
    BY QueueElement
  <1>2. InQueue' = InQueue
    BY DEF InQueue
  <1> QED
    BY <1>1, <1>2 DEF OneWritePerOwner, OwnersStayBusy

\* A caller that has no write left enqueues one.
LEMMA QueueGrows ==
    ASSUME TypeOK, OneWritePerOwner, NEW op \in FanOps, EnqueueFanWrite(op),
           ~Busy(op.owner) \/ settled[op.owner] # "none",
           settled' = [settled EXCEPT ![op.owner] = "none"],
           Busy(op.owner)', OwnersStayBusy(Owners \ {op.owner})
    PROVE  OneWritePerOwner'
  <1>1. /\ fanWriteQueue \in Seq(FanOps) /\ Len(fanWriteQueue) \in Nat
        /\ op.owner \in Owners /\ settled \in [Owners -> Outcome]
    BY DEF TypeOK, QueueTypes, FanOps
  <1>2. ASSUME NEW i \in InQueue PROVE fanWriteQueue[i].owner # op.owner
    BY DEF OneWritePerOwner
  <1>3. /\ fanWriteQueue' = Append(fanWriteQueue, op)
        /\ Len(fanWriteQueue') = Len(fanWriteQueue) + 1
        /\ fanWriteQueue'[Len(fanWriteQueue) + 1] = op
    BY <1>1 DEF EnqueueFanWrite
  <1>4. ASSUME NEW i \in InQueue'
        PROVE  \/ i \in InQueue /\ fanWriteQueue'[i] = fanWriteQueue[i]
               \/ i = Len(fanWriteQueue) + 1 /\ fanWriteQueue'[i] = op
    BY <1>1, <1>3 DEF InQueue
  <1>5. ASSUME NEW i \in InQueue', NEW j \in InQueue',
               fanWriteQueue'[i].owner = fanWriteQueue'[j].owner
        PROVE  i = j
    BY <1>2, <1>4, <1>5 DEF OneWritePerOwner
  <1>6. /\ settled'[op.owner] = "none"
        /\ \A o \in Owners \ {op.owner} : settled'[o] = settled[o]
    BY <1>1
  <1>7. ASSUME NEW i \in InQueue'
        PROVE  (Busy(fanWriteQueue[i].owner) /\ settled[fanWriteQueue[i].owner] = "none")'
    <2>1. CASE i \in InQueue /\ fanWriteQueue'[i] = fanWriteQueue[i]
      <3>1. fanWriteQueue[i].owner \in Owners \ {op.owner}
        BY <1>2, <2>1, QueueElement
      <3>2. Busy(fanWriteQueue[i].owner) /\ settled[fanWriteQueue[i].owner] = "none"
        BY <2>1 DEF OneWritePerOwner
      <3> QED
        BY <1>6, <2>1, <3>1, <3>2 DEF OwnersStayBusy, Busy
    <2>2. CASE fanWriteQueue'[i] = op
      BY <1>6, <2>2 DEF Busy
    <2> QED
      BY <1>4, <2>1, <2>2
  <1>8. \A o \in Owners : settled'[o] # "none" => Busy(o)'
    BY <1>6 DEF OneWritePerOwner, OwnersStayBusy
  <1> QED
    BY <1>5, <1>7, <1>8 DEF OneWritePerOwner

\* The head settles and its caller still waits.
LEMMA QueueShrinks ==
    ASSUME TypeOK, OneWritePerOwner, fanWriteQueue # <<>>, NEW outcome \in Outcome,
           SettleHead(outcome), OwnersStayBusy(Owners)
    PROVE  OneWritePerOwner'
  <1> DEFINE owner == Head(fanWriteQueue).owner
  <1>1. /\ fanWriteQueue \in Seq(FanOps) /\ Len(fanWriteQueue) \in Nat
        /\ owner \in Owners /\ settled \in [Owners -> Outcome]
    BY HeadOp DEF TypeOK, QueueTypes
  <1>2. 1 \in InQueue /\ owner = fanWriteQueue[1].owner
    BY <1>1 DEF InQueue
  <1>3. ASSUME NEW i \in InQueue'
        PROVE  /\ i + 1 \in InQueue /\ i + 1 # 1 /\ i \in Int
               /\ fanWriteQueue'[i] = fanWriteQueue[i + 1]
    BY <1>1 DEF SettleHead, InQueue
  <1>4. /\ settled'[owner] = outcome
        /\ \A o \in Owners \ {owner} : settled'[o] = settled[o]
    BY <1>1 DEF SettleHead
  <1>5. Busy(owner)
    BY <1>2 DEF OneWritePerOwner
  <1> HIDE DEF owner
  <1>6. ASSUME NEW i \in InQueue', NEW j \in InQueue',
               fanWriteQueue'[i].owner = fanWriteQueue'[j].owner
        PROVE  i = j
    <2>1. i + 1 = j + 1
      BY <1>3, <1>6 DEF OneWritePerOwner
    <2> QED
      BY <1>3, <2>1
  <1>7. ASSUME NEW i \in InQueue'
        PROVE  (Busy(fanWriteQueue[i].owner) /\ settled[fanWriteQueue[i].owner] = "none")'
    <2>1. fanWriteQueue[i + 1].owner \in Owners \ {owner}
      BY <1>2, <1>3, QueueElement DEF OneWritePerOwner
    <2>2. Busy(fanWriteQueue[i + 1].owner) /\ settled[fanWriteQueue[i + 1].owner] = "none"
      BY <1>3 DEF OneWritePerOwner
    <2> QED
      BY <1>3, <1>4, <2>1, <2>2 DEF OwnersStayBusy, Busy
  <1>8. \A o \in Owners : settled'[o] # "none" => Busy(o)'
    BY <1>1, <1>4, <1>5 DEF OneWritePerOwner, OwnersStayBusy
  <1> QED
    BY <1>6, <1>7, <1>8 DEF OneWritePerOwner

\* A caller whose write has settled goes on, busy or not.
LEMMA OwnerWakes ==
    ASSUME TypeOK, OneWritePerOwner, NEW owner \in Owners,
           settled[owner] # "none", settled' = [settled EXCEPT ![owner] = "none"],
           UNCHANGED fanWriteQueue, OwnersStayBusy(Owners \ {owner})
    PROVE  OneWritePerOwner'
  <1>1. \A i \in InQueue : fanWriteQueue[i].owner \in Owners \ {owner}
    BY QueueElement DEF OneWritePerOwner
  <1>2. /\ settled'[owner] = "none"
        /\ \A o \in Owners \ {owner} : settled'[o] = settled[o]
    BY DEF TypeOK, QueueTypes
  <1>3. InQueue' = InQueue
    BY DEF InQueue
  <1> QED
    BY <1>1, <1>2, <1>3 DEF OneWritePerOwner, OwnersStayBusy
LEMMA QueueGrowsFromIdle ==
    ASSUME TypeOK, OneWritePerOwner, NEW op \in FanOps, EnqueueFanWrite(op),
           ~Busy(op.owner), UNCHANGED settled,
           Busy(op.owner)', OwnersStayBusy(Owners \ {op.owner})
    PROVE  OneWritePerOwner'
  <1>1. op.owner \in Owners /\ settled \in [Owners -> Outcome]
    BY DEF TypeOK, QueueTypes, FanOps
  <1>2. settled[op.owner] = "none"
    BY <1>1 DEF OneWritePerOwner
  <1>3. settled' = [settled EXCEPT ![op.owner] = "none"]
    BY <1>1, <1>2
  <1> QED
    BY <1>3, QueueGrows

\* What a deciding cycle does to the queue: one write, or nothing.
LEMMA CycleWritesOnce ==
    ASSUME TypeOK, OneWritePerOwner, cyclePhase # "write",
           NEW percent \in Percent, NEW then, CycleWrites(percent, then),
           UNCHANGED <<settled, command, runPhase, reinitInFlight>>
    PROVE  OneWritePerOwner'
  <1> DEFINE op == WriteOp(percent, cycleVersion, "cycle")
  <1>1. op \in FanOps /\ op.owner = "cycle"
    BY WriteOpType DEF WriteOp, Owners, TypeOK, CycleTypes
  <1>2. ~Busy("cycle") /\ Busy("cycle")' /\ OwnersStayBusy(Owners \ {"cycle"})
    BY DEF Busy, OwnersStayBusy, CycleWrites
  <1>3. EnqueueFanWrite(op)
    BY DEF CycleWrites
  <1> HIDE DEF op
  <1> QED
    BY <1>1, <1>2, <1>3, QueueGrowsFromIdle

LEMMA CycleEndsQuietly ==
    ASSUME TypeOK, OneWritePerOwner, cyclePhase # "write",
           NEW measured, CycleEndsHere(measured),
           UNCHANGED <<settled, command, runPhase, reinitInFlight>>
    PROVE  OneWritePerOwner'
  <1>1. OwnersStayBusy(Owners)
    BY DEF Busy, OwnersStayBusy, CycleEndsHere
  <1> QED
    BY <1>1, QueueUntouched DEF CycleEndsHere

LEMMA CommandWritesOnce ==
    ASSUME TypeOK, OneWritePerOwner, command = Null,
           UNCHANGED <<settled, runPhase, reinitInFlight, cyclePhase>>,
           \/ \E percent \in Percent, kind \in {"fixedpercentage", "dofixedspeed"} : ApplyFixedFan(kind, percent)
           \/ UNCHANGED <<manualVars, fanWriteQueue>>
    PROVE  OneWritePerOwner'
  <1>1. CASE \E percent \in Percent, kind \in {"fixedpercentage", "dofixedspeed"} : ApplyFixedFan(kind, percent)
    <2>1. PICK percent \in Percent, kind \in {"fixedpercentage", "dofixedspeed"} : ApplyFixedFan(kind, percent)
      BY <1>1
    <2> DEFINE op == WriteOp(percent, Null, "manual")
    <2>2. op \in FanOps /\ op.owner = "manual" /\ EnqueueFanWrite(op)
      BY <2>1, WriteOpType DEF WriteOp, Owners, ApplyFixedFan
    <2>3. command' # Null
      BY <2>1, NullAssumption DEF ApplyFixedFan, Commands
    <2>4. ~Busy("manual") /\ Busy("manual")' /\ OwnersStayBusy(Owners \ {"manual"})
      BY <2>3 DEF Busy, OwnersStayBusy
    <2> HIDE DEF op
    <2> QED
      BY <2>2, <2>4, QueueGrowsFromIdle
  <1>2. CASE UNCHANGED <<manualVars, fanWriteQueue>>
    <2>1. OwnersStayBusy(Owners)
      BY <1>2 DEF Busy, OwnersStayBusy, manualVars
    <2> QED
      BY <1>2, <2>1, QueueUntouched
  <1> QED
    BY <1>1, <1>2

\* Each caller keeps to one write, whatever step is taken.
LEMMA QueueStep ==
    ASSUME TypeOK, OneWritePerOwner, CallersBelongToTheRun, OneFanCall, Next
    PROVE  OneWritePerOwner'
  <1> USE DEF serverVars, settingVars, manualVars, runVars, queueVars, loopVars,
              cycleVars, collectVars
  <1>1. CASE DropFanWrite
    <2>1. fanWriteQueue # <<>>
      BY <1>1 DEF DropFanWrite, HeadWaits
    <2>2. \E outcome \in Outcome : SettleHead(outcome)
      BY <1>1 DEF DropFanWrite, Outcome
    <2>3. OwnersStayBusy(Owners)
      BY <1>1 DEF DropFanWrite, FanFrame, OwnersStayBusy, Busy
    <2> QED
      BY <2>1, <2>2, <2>3, QueueShrinks
  <1>2. CASE StartFanWrite
    <2>1. UNCHANGED <<fanWriteQueue, settled>> /\ OwnersStayBusy(Owners)
      BY <1>2 DEF StartFanWrite, FanFrame, OwnersStayBusy, Busy
    <2> QED
      BY <2>1, QueueUntouched
  <1>3. CASE DecideAbandon
    <2>1. UNCHANGED <<fanWriteQueue, settled>> /\ OwnersStayBusy(Owners)
      BY <1>3 DEF DecideAbandon, OwnersStayBusy, Busy
    <2> QED
      BY <2>1, QueueUntouched
  <1>4. CASE DecideFixedBlind
    <2>1. UNCHANGED <<settled, command, runPhase, reinitInFlight>> /\ cyclePhase # "write"
      BY <1>4 DEF DecideFixedBlind, DecisionFrame, Deciding
    <2>2. fixedPercentage \in Percent
      BY DEF TypeOK, SettingTypes
    <2>3. \/ \E then : CycleWrites(fixedPercentage, then)
          \/ CycleEndsHere(lastAverages)
      BY <1>4 DEF DecideFixedBlind
    <2> QED
      BY <2>1, <2>2, <2>3, CycleWritesOnce, CycleEndsQuietly
  <1>5. CASE DecideFixed
    <2>1. UNCHANGED <<settled, command, runPhase, reinitInFlight>> /\ cyclePhase # "write"
      BY <1>5 DEF DecideFixed, DecisionFrame, Deciding
    <2>2. fixedPercentage \in Percent
      BY DEF TypeOK, SettingTypes
    <2>3. \/ \E then : CycleWrites(fixedPercentage, then)
          \/ CycleEndsHere(lastAverages')
      BY <1>5 DEF DecideFixed
    <2> QED
      BY <2>1, <2>2, <2>3, CycleWritesOnce, CycleEndsQuietly
  <1>6. CASE DecideFailHot
    <2>1. UNCHANGED <<settled, command, runPhase, reinitInFlight>> /\ cyclePhase # "write"
      BY <1>6 DEF DecideFailHot, DecisionFrame, Deciding
    <2>2. HighestFanTarget(curve) \in Percent
      BY HighestSpeed, CurveIsValid DEF TypeOK, SettingTypes
    <2> QED
      BY <1>6, <2>1, <2>2, CycleWritesOnce DEF DecideFailHot
  <1>7. CASE DecideDirect
    <2>1. UNCHANGED <<settled, command, runPhase, reinitInFlight>> /\ cyclePhase # "write"
      BY <1>7 DEF DecideDirect, DecisionFrame, Deciding
    <2>2. CurveTarget(curve, lastAverages') \in Percent
      BY <1>7, TargetBelowHighest, CurveIsValid, MeasurementsAssumption DEF
         DecideDirect, TypeOK, SettingTypes
    <2> QED
      BY <1>7, <2>1, <2>2, CycleWritesOnce DEF DecideDirect
  <1>8. CASE DecideRamp
    <2>1. UNCHANGED <<settled, command, runPhase, reinitInFlight>> /\ cyclePhase # "write"
      BY <1>8 DEF DecideRamp, DecisionFrame, Deciding
    <2>2. CurveTarget(curve, lastAverages') \in Percent
      BY <1>8, TargetBelowHighest, CurveIsValid, MeasurementsAssumption DEF
         DecideRamp, TypeOK, SettingTypes
    <2>3. appliedFanPercentage \in Percent
      BY <1>8 DEF DecideRamp, ApplyDirectly, TypeOK, OutputTypes
    <2>4. GetGradientTarget(appliedFanPercentage, CurveTarget(curve, lastAverages'))
            \in Percent
      BY <2>2, <2>3, GradientBetween
    <2>5. \/ CycleWrites(GetGradientTarget(appliedFanPercentage,
                                          CurveTarget(curve, lastAverages')), "ramp")
          \/ CycleEndsHere(lastAverages')
      BY <1>8 DEF DecideRamp, RampUp, RampDown, Hold
    <2> QED
      BY <2>1, <2>4, <2>5, CycleWritesOnce, CycleEndsQuietly
  <1>9. CASE CycleWriteDone
    <2>1. /\ settled["cycle"] # "none" /\ UNCHANGED fanWriteQueue
          /\ settled' = [settled EXCEPT !["cycle"] = "none"]
      BY <1>9 DEF CycleWriteDone, ResumeFrame
    <2>2. OwnersStayBusy(Owners \ {"cycle"})
      BY <1>9 DEF CycleWriteDone, ResumeFrame, OwnersStayBusy, Busy
    <2> QED
      BY <2>1, <2>2, OwnerWakes DEF Owners
  <1>10. CASE CycleWriteFailed
    <2>1. /\ settled["cycle"] # "none" /\ UNCHANGED fanWriteQueue
          /\ settled' = [settled EXCEPT !["cycle"] = "none"]
      BY <1>10 DEF CycleWriteFailed, ResumeFrame
    <2>2. OwnersStayBusy(Owners \ {"cycle"})
      BY <1>10 DEF CycleWriteFailed, ResumeFrame, OwnersStayBusy, Busy
    <2> QED
      BY <2>1, <2>2, OwnerWakes DEF Owners
  <1>11. CASE RunAppliesFirstSpeed
    <2>1. HighestFanTarget(curve) \in Percent /\ fixedPercentage \in Percent
      BY HighestSpeed, CurveIsValid DEF TypeOK, SettingTypes
    <2>2. PICK percent \in Percent : EnqueueFanWrite(WriteOp(percent, Null, "run"))
      BY <1>11, <2>1 DEF RunAppliesFirstSpeed
    <2>3. /\ WriteOp(percent, Null, "run") \in FanOps
          /\ WriteOp(percent, Null, "run").owner = "run"
      BY WriteOpType DEF WriteOp, Owners
    <2>4. /\ settled["run"] # "none"
          /\ settled' = [settled EXCEPT !["run"] = "none"]
      BY <1>11 DEF RunAppliesFirstSpeed, RunFrame
    <2>5. Busy("run")' /\ OwnersStayBusy(Owners \ {"run"})
      BY <1>11 DEF RunAppliesFirstSpeed, RunFrame, OwnersStayBusy, Busy
    <2> QED
      BY <2>2, <2>3, <2>4, <2>5, QueueGrows
  <1>12. CASE RunEntersLoop
    <2>1. /\ settled["run"] # "none" /\ UNCHANGED fanWriteQueue
          /\ settled' = [settled EXCEPT !["run"] = "none"]
      BY <1>12 DEF RunEntersLoop, RunFrame
    <2>2. OwnersStayBusy(Owners \ {"run"})
      BY <1>12 DEF RunEntersLoop, RunFrame, OwnersStayBusy, Busy
    <2> QED
      BY <2>1, <2>2, OwnerWakes DEF Owners
  <1>13. CASE RunStops
    <2>1. /\ settled["run"] # "none" /\ UNCHANGED fanWriteQueue
          /\ settled' = [settled EXCEPT !["run"] = "none"]
      BY <1>13 DEF RunStops, RunFrame
    <2>2. OwnersStayBusy(Owners \ {"run"})
      BY <1>13 DEF RunStops, RunFrame, OwnersStayBusy, Busy
    <2> QED
      BY <2>1, <2>2, OwnerWakes DEF Owners
  <1>14. CASE RunFails
    <2>1. /\ settled["run"] # "none" /\ UNCHANGED fanWriteQueue
          /\ settled' = [settled EXCEPT !["run"] = "none"]
      BY <1>14 DEF RunFails, RunFrame
    <2>2. OwnersStayBusy(Owners \ {"run"})
      BY <1>14 DEF RunFails, RunFrame, OwnersStayBusy, Busy
    <2> QED
      BY <2>1, <2>2, OwnerWakes DEF Owners
  <1>15. CASE ReinitSettles
    <2>1. /\ settled["reinit"] # "none" /\ UNCHANGED fanWriteQueue
          /\ settled' = [settled EXCEPT !["reinit"] = "none"]
      BY <1>15 DEF ReinitSettles
    <2>2. OwnersStayBusy(Owners \ {"reinit"})
      BY <1>15 DEF ReinitSettles, OwnersStayBusy, Busy
    <2> QED
      BY <2>1, <2>2, OwnerWakes DEF Owners
  <1>16. CASE CommandSettles
    <2>1. /\ settled["manual"] # "none" /\ UNCHANGED fanWriteQueue
          /\ settled' = [settled EXCEPT !["manual"] = "none"]
      BY <1>16 DEF CommandSettles, CommandFrame, HandlerWakes
    <2>2. OwnersStayBusy(Owners \ {"manual"})
      BY <1>16 DEF CommandSettles, CommandFrame, HandlerWakes, OwnersStayBusy,
         Busy
    <2> QED
      BY <2>1, <2>2, OwnerWakes DEF Owners
  <1>17. ASSUME NEW by \in Restorers, RestoreIssues(by) PROVE OneWritePerOwner'
    <2>1. UNCHANGED <<fanWriteQueue, settled>> /\ OwnersStayBusy(Owners)
      BY <1>17 DEF RestoreIssues, RestoreFrame, OwnersStayBusy, Busy
    <2> QED
      BY <2>1, QueueUntouched
  <1>18. CASE FanCallContinues
    <2>1. UNCHANGED <<fanWriteQueue, settled>> /\ OwnersStayBusy(Owners)
      BY <1>18 DEF FanCallContinues, FanFrame, OwnersStayBusy, Busy
    <2> QED
      BY <2>1, QueueUntouched
  <1>19. CASE FanCallCompletes
    <2>1. fanWriteQueue # <<>>
      BY <1>19, HeadCall DEF FanCallCompletes, HeadCallBy, OneFanCall, TypeOK,
         NativeTypes
    <2>2. \E outcome \in Outcome : SettleHead(outcome)
      BY <1>19 DEF FanCallCompletes, Outcome
    <2>3. OwnersStayBusy(Owners)
      BY <1>19 DEF FanCallCompletes, FanFrame, OwnersStayBusy, Busy
    <2> QED
      BY <2>1, <2>2, <2>3, QueueShrinks
  <1>20. CASE FanCallFails
    <2>1. fanWriteQueue # <<>>
      BY <1>20, HeadCall DEF FanCallFails, HeadCallBy, OneFanCall, TypeOK,
         NativeTypes
    <2>2. \E outcome \in Outcome : SettleHead(outcome)
      BY <1>20 DEF FanCallFails, Outcome
    <2>3. OwnersStayBusy(Owners)
      BY <1>20 DEF FanCallFails, FanFrame, OwnersStayBusy, Busy
    <2> QED
      BY <2>1, <2>2, <2>3, QueueShrinks
  <1>21. CASE SensorAnswers
    <2>1. UNCHANGED <<fanWriteQueue, settled>> /\ OwnersStayBusy(Owners)
      BY <1>21 DEF SensorAnswers, CollectFrame, AwaitingRead, OwnersStayBusy,
         Busy
    <2> QED
      BY <2>1, QueueUntouched
  <1>22. CASE SensorFails
    <2>1. UNCHANGED <<fanWriteQueue, settled>> /\ OwnersStayBusy(Owners)
      BY <1>22 DEF SensorFails, CollectFrame, AwaitingRead, OwnersStayBusy,
         Busy
    <2> QED
      BY <2>1, QueueUntouched
  <1>23. CASE SensorReadTimesOut
    <2>1. UNCHANGED <<fanWriteQueue, settled>> /\ OwnersStayBusy(Owners)
      BY <1>23 DEF SensorReadTimesOut, CollectFrame, AwaitingRead,
         OwnersStayBusy, Busy
    <2> QED
      BY <2>1, QueueUntouched
  <1>24. CASE SensorAnswersLate
    <2>1. UNCHANGED <<fanWriteQueue, settled>> /\ OwnersStayBusy(Owners)
      BY <1>24 DEF SensorAnswersLate, CollectFrame, OwnersStayBusy, Busy
    <2> QED
      BY <2>1, QueueUntouched
  <1>25. CASE SampleSleepEnds
    <2>1. UNCHANGED <<fanWriteQueue, settled>> /\ OwnersStayBusy(Owners)
      BY <1>25 DEF SampleSleepEnds, CollectFrame, OwnersStayBusy, Busy
    <2> QED
      BY <2>1, QueueUntouched
  <1>26. CASE StartCycle
    <2>1. UNCHANGED <<fanWriteQueue, settled>> /\ OwnersStayBusy(Owners)
      BY <1>26 DEF StartCycle, CollectFrame, NoCollection, OwnersStayBusy, Busy
    <2> QED
      BY <2>1, QueueUntouched
  <1>27. ASSUME NEW by \in Restorers, RestoreCallSucceeds(by) PROVE OneWritePerOwner'
    <2>1. UNCHANGED <<fanWriteQueue, settled>> /\ OwnersStayBusy(Owners)
      BY <1>27 DEF RestoreCallSucceeds, RestoreSettles, RestoreFrame,
         OwnersStayBusy, Busy
    <2> QED
      BY <2>1, QueueUntouched
  <1>28. ASSUME NEW by \in Restorers, RestoreCallFails(by) PROVE OneWritePerOwner'
    <2>1. UNCHANGED <<fanWriteQueue, settled>> /\ OwnersStayBusy(Owners)
      BY <1>28 DEF RestoreCallFails, RestoreSettles, RestoreFrame,
         OwnersStayBusy, Busy
    <2> QED
      BY <2>1, QueueUntouched
  <1>29. CASE ReinitTick
    <2>1. InitOp("reinit") \in FanOps /\ InitOp("reinit").owner = "reinit"
      BY InitOpType DEF InitOp, Owners
    <2>2. /\ ~Busy("reinit") /\ Busy("reinit")'
          /\ OwnersStayBusy(Owners \ {"reinit"})
      BY <1>29 DEF ReinitTick, OwnersStayBusy, Busy
    <2> QED
      BY <1>29, <2>1, <2>2, QueueGrowsFromIdle DEF ReinitTick
  <1>30. CASE HandleFixedPercentage
    <2>1. \/ \E percent \in Percent, kind \in {"fixedpercentage", "dofixedspeed"} :
                ApplyFixedFan(kind, percent)
          \/ UNCHANGED <<manualVars, fanWriteQueue>>
      BY <1>30, PercentagesAssumption DEF HandleFixedPercentage, TypeOK,
         SettingTypes
    <2>2. UNCHANGED <<settled, runPhase, reinitInFlight, cyclePhase>> /\ command = Null
      BY <1>30 DEF HandleFixedPercentage, CommandFrame, MayHandle
    <2> QED
      BY <2>1, <2>2, CommandWritesOnce
  <1>31. CASE HandleDoFixedSpeed
    <2>1. \/ \E percent \in Percent, kind \in {"fixedpercentage", "dofixedspeed"} :
                ApplyFixedFan(kind, percent)
          \/ UNCHANGED <<manualVars, fanWriteQueue>>
      BY <1>31, PercentagesAssumption DEF HandleDoFixedSpeed, TypeOK,
         SettingTypes
    <2>2. UNCHANGED <<settled, runPhase, reinitInFlight, cyclePhase>> /\ command = Null
      BY <1>31 DEF HandleDoFixedSpeed, CommandFrame, MayHandle
    <2> QED
      BY <2>1, <2>2, CommandWritesOnce
  <1>32. CASE HandleFanTable
    <2>1. UNCHANGED <<fanWriteQueue, settled>> /\ OwnersStayBusy(Owners)
      BY <1>32 DEF HandleFanTable, CommandFrame, OwnersStayBusy, Busy
    <2> QED
      BY <2>1, QueueUntouched
  <1>33. CASE ChannelFails
    <2>1. UNCHANGED <<fanWriteQueue, settled>> /\ OwnersStayBusy(Owners)
      BY <1>33 DEF ChannelFails, OwnersStayBusy, Busy
    <2> QED
      BY <2>1, QueueUntouched
  <1>34. CASE FirmwareReverts
    <2>1. UNCHANGED <<fanWriteQueue, settled>> /\ OwnersStayBusy(Owners)
      BY <1>34 DEF FirmwareReverts, RestoreFrame, OwnersStayBusy, Busy
    <2> QED
      BY <2>1, QueueUntouched
  <1>35. CASE RunStarts
    <2>1. InitOp("run") \in FanOps /\ InitOp("run").owner = "run"
      BY InitOpType DEF InitOp, Owners
    <2>2. /\ ~Busy("run") /\ Busy("run")'
          /\ OwnersStayBusy(Owners \ {"run"})
      BY <1>35 DEF RunStarts, OwnersStayBusy, Busy
    <2> QED
      BY <1>35, <2>1, <2>2, QueueGrowsFromIdle DEF RunStarts
  <1>36. CASE StartFanControlShutdown
    <2>1. UNCHANGED <<fanWriteQueue, settled>> /\ OwnersStayBusy(Owners)
      BY <1>36 DEF StartFanControlShutdown, RestoreFrame, OwnersStayBusy, Busy
    <2> QED
      BY <2>1, QueueUntouched
  <1>37. CASE ShutdownRestores
    <2>1. UNCHANGED <<fanWriteQueue, settled>> /\ OwnersStayBusy(Owners)
      BY <1>37 DEF ShutdownRestores, RestoreFrame, OwnersStayBusy, Busy
    <2> QED
      BY <2>1, QueueUntouched
  <1> QED
    BY <1>1, <1>2, <1>3, <1>4, <1>5, <1>6, <1>7, <1>8, <1>9, <1>10, <1>11,
       <1>12, <1>13, <1>14, <1>15, <1>16, <1>17, <1>18, <1>19, <1>20, <1>21,
       <1>22, <1>23, <1>24, <1>25, <1>26, <1>27, <1>28, <1>29, <1>30, <1>31,
       <1>32, <1>33, <1>34, <1>35, <1>36, <1>37 DEF Next, FanControlStep,
       Microtask, NativeCallSettles, HandleCommand, Decide

-----------------------------------------------------------------------------
(* The callers and the run phase *)

\* A step that starts no caller and leaves the run phase alone.
CallersOnlyStop ==
    /\ UNCHANGED <<command, pendingManualWrites, runPhase>>
    /\ timersOn' => timersOn
    /\ reinitInFlight' => reinitInFlight
    /\ cyclePhase' # "idle" => cyclePhase # "idle"

\* A caller is started only in the phase "on", and each command is counted.
LEMMA CallersStep ==
    ASSUME TypeOK, OneWritePerOwner, CallersBelongToTheRun, Next
    PROVE  CallersBelongToTheRun'
  <1> USE DEF serverVars, settingVars, manualVars, runVars, queueVars, loopVars,
              cycleVars, collectVars, CallersOnlyStop
  <1>1. CASE DropFanWrite \/ StartFanWrite \/ FanCallContinues
             \/ FanCallCompletes \/ FanCallFails
    <2>1. CallersOnlyStop
      BY <1>1 DEF DropFanWrite, StartFanWrite, FanCallContinues,
                  FanCallCompletes, FanCallFails, FanFrame
    <2> QED
      BY <2>1 DEF CallersBelongToTheRun
  <1>2. CASE Decide
    <2>1. CASE DecideAbandon
      BY <2>1 DEF DecideAbandon, CallersBelongToTheRun
    <2>2. CASE ~DecideAbandon
      <3>1. DecisionFrame /\ cyclePhase # "idle"
        BY <1>2, <2>2 DEF Decide, DecideFixedBlind, DecideFailHot, DecideFixed,
                          DecideDirect, DecideRamp, Deciding
      <3> QED
        BY <3>1 DEF DecisionFrame, CallersBelongToTheRun
    <2> QED
      BY <2>1, <2>2
  <1>3. CASE CycleWriteDone \/ CycleWriteFailed
    BY <1>3 DEF CycleWriteDone, CycleWriteFailed, ResumeFrame,
                CallersBelongToTheRun
  <1>4. CASE SensorAnswers \/ SensorFails \/ SensorReadTimesOut
             \/ SensorAnswersLate \/ SampleSleepEnds
    <2>1. UNCHANGED <<command, pendingManualWrites, runPhase, timersOn, reinitInFlight>>
      BY <1>4 DEF SensorAnswers, SensorFails, SensorReadTimesOut,
                  SensorAnswersLate, SampleSleepEnds, CollectFrame
    <2>2. cyclePhase' # "idle" => cyclePhase # "idle"
      BY <1>4 DEF SensorAnswers, SensorFails, SensorReadTimesOut, AwaitingRead,
                  SensorAnswersLate, SampleSleepEnds
    <2> QED
      BY <2>1, <2>2 DEF CallersBelongToTheRun
  <1>5. CASE StartCycle
    BY <1>5 DEF StartCycle, CollectFrame, CallersBelongToTheRun
  <1>6. CASE RunAppliesFirstSpeed \/ RunEntersLoop \/ RunStops \/ RunFails
    <2>1. runPhase \in {"takeover", "first"}
      BY <1>6 DEF RunAppliesFirstSpeed, RunEntersLoop, RunStops, RunFails,
                  OneWritePerOwner, Busy, Owners
    <2> QED
      BY <1>6, <2>1 DEF RunAppliesFirstSpeed, RunEntersLoop, RunStops, RunFails,
                        RunFrame, CallersBelongToTheRun
  <1>7. CASE RunStarts
    BY <1>7 DEF RunStarts, CallersBelongToTheRun
  <1>8. CASE ReinitTick
    BY <1>8 DEF ReinitTick, CallersBelongToTheRun
  <1>9. CASE ReinitSettles
    <2>1. CallersOnlyStop
      BY <1>9 DEF ReinitSettles, FlagAfter
    <2> QED
      BY <2>1 DEF CallersBelongToTheRun
  <1>10. CASE HandleCommand
    <2>1. /\ UNCHANGED <<runPhase, timersOn, reinitInFlight, cyclePhase>>
          /\ runPhase = "on" /\ command = Null
      BY <1>10 DEF HandleCommand, HandleFixedPercentage, HandleDoFixedSpeed,
                   HandleFanTable, CommandFrame, MayHandle
    <2>2. \/ UNCHANGED <<command, pendingManualWrites>>
          \/ command' \in Commands /\ pendingManualWrites' = pendingManualWrites + 1
      <3>1. Percentages \subseteq Percent /\ fixedPercentage \in Percent
        BY PercentagesAssumption DEF TypeOK, SettingTypes
      <3> QED
        BY <1>10, <3>1 DEF HandleCommand, HandleFixedPercentage, HandleDoFixedSpeed,
                     HandleFanTable, ApplyFixedFan, Commands
    <2> QED
      BY <2>1, <2>2, NullAssumption DEF CallersBelongToTheRun
  <1>11. CASE CommandSettles
    <2>1. command # Null
      BY <1>11 DEF CommandSettles, HandlerWakes, OneWritePerOwner, Busy, Owners
    <2> QED
      BY <1>11, <2>1 DEF CommandSettles, CommandFrame, CallersBelongToTheRun
  <1>12. CASE StartFanControlShutdown \/ ShutdownRestores \/ ChannelFails
              \/ FirmwareReverts
    <2>1. CallersOnlyStop
      BY <1>12 DEF StartFanControlShutdown, ShutdownRestores, ChannelFails,
                   FirmwareReverts, RestoreFrame
    <2> QED
      BY <2>1 DEF CallersBelongToTheRun
  <1>13. ASSUME NEW by \in Restorers,
                RestoreIssues(by) \/ RestoreCallSucceeds(by) \/ RestoreCallFails(by)
         PROVE  CallersBelongToTheRun'
    <2>1. RestoreFrame /\ UNCHANGED timersOn
      <3>1. RestoreIssues(by) \/ \E failed : RestoreSettles(by, failed)
        BY <1>13 DEF RestoreCallSucceeds, RestoreCallFails
      <3> QED
        BY <3>1 DEF RestoreIssues, RestoreSettles
    <2>2. CallersOnlyStop
      BY <2>1 DEF RestoreFrame
    <2> QED
      BY <2>2 DEF CallersBelongToTheRun
  <1> QED
    BY <1>1, <1>2, <1>3, <1>4, <1>5, <1>6, <1>7, <1>8, <1>9, <1>10, <1>11, <1>12,
       <1>13 DEF Next, FanControlStep, Microtask, NativeCallSettles

-----------------------------------------------------------------------------
(* The native call queue as a sequence *)

LEMMA IssuedTail ==
    ASSUME NEW calls \in Seq(Calls), calls # <<>>
    PROVE  /\ Issued(calls) = Issued(Tail(calls)) \cup {Head(calls)}
           /\ Issued(calls) \subseteq Calls
  <1>1. ASSUME NEW i \in 1 .. Len(calls)
        PROVE  calls[i] \in Issued(Tail(calls)) \cup {Head(calls)}
    <2>1. CASE i = 1
      BY <2>1
    <2>2. CASE i # 1
      <3>1. /\ i - 1 \in 1 .. Len(Tail(calls))
            /\ Tail(calls)[i - 1] = calls[i]
        BY <2>2
      <3> QED
        BY <3>1 DEF Issued
    <2> QED
      BY <2>1, <2>2
  <1>2. ASSUME NEW i \in 1 .. Len(Tail(calls))
        PROVE  Tail(calls)[i] \in Issued(calls)
    <2>1. i + 1 \in 1 .. Len(calls) /\ Tail(calls)[i] = calls[i + 1]
      OBVIOUS
    <2> QED
      BY <2>1 DEF Issued
  <1>3. Head(calls) \in Issued(calls)
    BY DEF Issued
  <1>4. Issued(calls) \subseteq Calls
    BY DEF Issued
  <1> QED
    BY <1>1, <1>2, <1>3, <1>4 DEF Issued

LEMMA IssuedAppend ==
    ASSUME NEW calls \in Seq(Calls), NEW call \in Calls
    PROVE  /\ Issued(Append(calls, call)) = Issued(calls) \cup {call}
           /\ Append(calls, call) \in Seq(Calls)
  <1>1. /\ Len(Append(calls, call)) = Len(calls) + 1 /\ Len(calls) \in Nat
        /\ Append(calls, call)[Len(calls) + 1] = call
        /\ \A i \in 1 .. Len(calls) : Append(calls, call)[i] = calls[i]
    OBVIOUS
  <1>2. \A i \in 1 .. Len(calls) + 1 : i \in 1 .. Len(calls) \/ i = Len(calls) + 1
    BY <1>1
  <1>3. 1 .. Len(calls) \subseteq 1 .. Len(calls) + 1 /\ Len(calls) + 1 \in 1 .. Len(calls) + 1
    BY <1>1
  <1> QED
    BY <1>1, <1>2, <1>3 DEF Issued

LEMMA AloneTail ==
    ASSUME NEW calls \in Seq(Calls), calls # <<>>, NEW who, Alone(who, calls)
    PROVE  /\ Alone(who, Tail(calls))
           /\ Head(calls).by = who =>
                \A call \in Issued(Tail(calls)) : call.by # who
  <1>1. \A i \in 1 .. Len(Tail(calls)) :
            i + 1 \in 2 .. Len(calls) /\ Tail(calls)[i] = calls[i + 1] /\ i \in Int
    OBVIOUS
  <1>2. 1 \in 1 .. Len(calls) /\ Head(calls) = calls[1]
    OBVIOUS
  <1>3. ASSUME NEW i \in 1 .. Len(Tail(calls)), NEW j \in 1 .. Len(Tail(calls)),
               Tail(calls)[i].by = who, Tail(calls)[j].by = who
        PROVE  i = j
    <2>1. i + 1 = j + 1
      BY <1>1, <1>3 DEF Alone
    <2> QED
      BY <1>1, <2>1
  <1>4. ASSUME Head(calls).by = who, NEW i \in 1 .. Len(Tail(calls))
        PROVE  Tail(calls)[i].by # who
    BY <1>1, <1>2, <1>4 DEF Alone
  <1> QED
    BY <1>3, <1>4 DEF Alone, Issued

LEMMA AloneAppend ==
    ASSUME NEW calls \in Seq(Calls), NEW call \in Calls, NEW who, Alone(who, calls),
           call.by # who \/ \A other \in Issued(calls) : other.by # who
    PROVE  Alone(who, Append(calls, call))
  <1>1. /\ Len(Append(calls, call)) = Len(calls) + 1 /\ Len(calls) \in Nat
        /\ Append(calls, call)[Len(calls) + 1] = call
        /\ \A i \in 1 .. Len(calls) : Append(calls, call)[i] = calls[i]
    OBVIOUS
  <1>2. \A i \in 1 .. Len(Append(calls, call)) :
            i \in 1 .. Len(calls) \/ i = Len(calls) + 1
    BY <1>1
  <1>3. call.by # who \/ \A i \in 1 .. Len(calls) : calls[i].by # who
    BY DEF Issued
  <1> QED
    BY <1>1, <1>2, <1>3 DEF Alone

LEMMA PairedTail ==
    ASSUME NEW calls \in Seq(Calls), calls # <<>>, NEW by, Paired(by, calls)
    PROVE  Paired(by, Tail(calls))
  <1>1. Len(calls) \in Nat /\ Len(Tail(calls)) = Len(calls) - 1
    OBVIOUS
  <1>2. \A i \in 1 .. Len(Tail(calls)) :
            i + 1 \in 1 .. Len(calls) /\ Tail(calls)[i] = calls[i + 1] /\ i \in Int
    OBVIOUS
  <1>3. ASSUME NEW i \in 1 .. Len(Tail(calls)),
               Tail(calls)[i] = FirstRestoreCall(by)
        PROVE  /\ i + 1 \in 1 .. Len(Tail(calls))
               /\ Tail(calls)[i + 1] = LastRestoreCall(by)
    <2>1. /\ i + 1 + 1 \in 1 .. Len(calls)
          /\ calls[i + 1 + 1] = LastRestoreCall(by)
      BY <1>2, <1>3 DEF Paired
    <2>2. i + 1 \in 1 .. Len(Tail(calls))
      BY <1>1, <1>2, <2>1
    <2> QED
      BY <1>2, <2>1, <2>2
  <1> QED
    BY <1>3 DEF Paired

LEMMA PairedAppend ==
    ASSUME NEW calls \in Seq(Calls), NEW call \in Calls, NEW by, Paired(by, calls),
           call # FirstRestoreCall(by)
    PROVE  Paired(by, Append(calls, call))
  <1>1. /\ Len(Append(calls, call)) = Len(calls) + 1 /\ Len(calls) \in Nat
        /\ Append(calls, call)[Len(calls) + 1] = call
        /\ \A i \in 1 .. Len(calls) : Append(calls, call)[i] = calls[i]
    OBVIOUS
  <1>2. ASSUME NEW i \in 1 .. Len(Append(calls, call)),
               Append(calls, call)[i] = FirstRestoreCall(by)
        PROVE  /\ i + 1 \in 1 .. Len(Append(calls, call))
               /\ Append(calls, call)[i + 1] = LastRestoreCall(by)
    <2>1. i \in 1 .. Len(calls)
      BY <1>1, <1>2
    <2>2. i + 1 \in 1 .. Len(calls) /\ calls[i + 1] = LastRestoreCall(by)
      BY <1>1, <1>2, <2>1 DEF Paired
    <2> QED
      BY <1>1, <2>2
  <1> QED
    BY <1>2 DEF Paired

\* The pair a restore puts at the end of the queue.
LEMMA IssuedPair ==
    ASSUME NEW calls \in Seq(Calls), NEW first \in Calls, NEW last \in Calls
    PROVE  Issued(calls \o <<first, last>>) = Issued(calls) \cup {first, last}
  <1>1. calls \o <<first, last>> = Append(Append(calls, first), last)
    OBVIOUS
  <1>2. /\ Issued(Append(calls, first)) = Issued(calls) \cup {first}
        /\ Append(calls, first) \in Seq(Calls)
    BY IssuedAppend
  <1>3. Issued(calls \o <<first, last>>) = Issued(Append(calls, first)) \cup {last}
    BY <1>1, <1>2, IssuedAppend
  <1> QED
    BY <1>2, <1>3

LEMMA PairedPair ==
    ASSUME NEW calls \in Seq(Calls), NEW by \in Restorers, NEW other \in Restorers,
           Paired(other, calls)
    PROVE  Paired(other, calls \o <<FirstRestoreCall(by), LastRestoreCall(by)>>)
  <1> DEFINE first == FirstRestoreCall(by)
             last == LastRestoreCall(by)
             pair == calls \o <<first, last>>
  <1>1. /\ first \in Calls /\ last \in Calls
        /\ last # FirstRestoreCall(other)
        /\ first = FirstRestoreCall(other) => last = LastRestoreCall(other)
    BY RestoreCallType DEF FirstRestoreCall, LastRestoreCall, By, RestoreCalls
  <1> HIDE DEF first, last
  <1>2. /\ Len(pair) = Len(calls) + 2 /\ Len(calls) \in Nat
        /\ pair[Len(calls) + 1] = first /\ pair[Len(calls) + 2] = last
        /\ \A i \in 1 .. Len(calls) : pair[i] = calls[i]
    BY <1>1
  <1>3. ASSUME NEW i \in 1 .. Len(pair), pair[i] = FirstRestoreCall(other)
        PROVE  i + 1 \in 1 .. Len(pair) /\ pair[i + 1] = LastRestoreCall(other)
    <2>1. i \in 1 .. Len(calls) \/ i = Len(calls) + 1
      <3>1. i \in 1 .. Len(calls) \/ i = Len(calls) + 1 \/ i = Len(calls) + 2
        BY <1>2
      <3> QED
        BY <1>1, <1>2, <1>3, <3>1
    <2>2. CASE i \in 1 .. Len(calls)
      <3>1. i + 1 \in 1 .. Len(calls) /\ calls[i + 1] = LastRestoreCall(other)
        BY <1>2, <1>3, <2>2 DEF Paired
      <3> QED
        BY <1>2, <3>1
    <2>3. CASE i = Len(calls) + 1
      BY <1>1, <1>2, <1>3, <2>3
    <2> QED
      BY <2>1, <2>2, <2>3
  <1> HIDE DEF pair
  <1>4. Paired(other, pair)
    BY <1>3 DEF Paired
  <1> QED
    BY <1>4 DEF pair, first, last

-----------------------------------------------------------------------------
(* Sensor calls *)

\* The step leaves the queue, the sensor flag and the sleep of a cycle alone.
SensorsUntouched ==
    /\ UNCHANGED <<nativeCalls, sensorReadInFlight>>
    /\ cyclePhase' = "sleep" => cyclePhase = "sleep"

\* The call the head operation makes next, and the one it starts with.
LEMMA NextFanCall ==
    ASSUME TypeOK, fanWriteQueue # <<>>,
           NEW k \in 1 .. Len(CallsOf(Head(fanWriteQueue)))
    PROVE  /\ By("fan", CallsOf(Head(fanWriteQueue))[k]) \in Calls
           /\ By("fan", CallsOf(Head(fanWriteQueue))[k]).by = "fan"
  BY HeadOp, FanCallType

LEMMA RestoreCallsBy ==
    ASSUME NEW by \in Restorers
    PROVE  /\ FirstRestoreCall(by) \in Calls /\ LastRestoreCall(by) \in Calls
           /\ FirstRestoreCall(by).by = by /\ LastRestoreCall(by).by = by
           /\ FirstRestoreCall(by) # LastRestoreCall(by)
           /\ by # "fan" /\ by # "sensor"
  BY RestoreCallType DEF FirstRestoreCall, LastRestoreCall, By, RestoreCalls, Restorers

\* A sensor call is issued only when the flag is down, and raises it.
LEMMA SensorStep ==
    ASSUME TypeOK, OneFanCall, SensorCallIsKnown, OneSensorCall, Next
    PROVE  SensorCallIsKnown' /\ OneSensorCall'
  <1> DEFINE None(calls) == \A call \in Issued(calls) : call.by # "sensor"
  <1> USE DEF serverVars, settingVars, manualVars, runVars, queueVars, loopVars,
              cycleVars, collectVars
  <1>1. nativeCalls \in Seq(Calls) /\ Alone("sensor", nativeCalls)
    BY DEF TypeOK, NativeTypes, OneSensorCall, Alone
  <1>2. ASSUME Alone("sensor", nativeCalls') PROVE OneSensorCall'
    BY <1>2 DEF Alone, OneSensorCall
  <1>3. SensorCall \in Calls /\ SensorCall.by = "sensor"
    BY SensorCallType DEF SensorCall
  <1>4. ASSUME nativeCalls # <<>>, HeadCallBy("sensor")
        PROVE  Tail(nativeCalls) \in Seq(Calls) /\ None(Tail(nativeCalls))
    BY <1>1, <1>4, AloneTail, HeadCall DEF HeadCallBy
  <1>5. ASSUME SensorsUntouched PROVE SensorCallIsKnown' /\ OneSensorCall'
    BY <1>5 DEF SensorsUntouched, SensorCallIsKnown, OneSensorCall
  <1>6. ASSUME nativeCalls # <<>>, nativeCalls' = Tail(nativeCalls),
               UNCHANGED <<sensorReadInFlight, cyclePhase>>
        PROVE  SensorCallIsKnown' /\ OneSensorCall'
    BY <1>1, <1>2, <1>6, IssuedTail, AloneTail DEF SensorCallIsKnown
  <1>8. ASSUME NEW calls \in Seq(Calls), None(calls), nativeCalls' = Append(calls, SensorCall),
               sensorReadInFlight', cyclePhase' # "sleep"
        PROVE  SensorCallIsKnown' /\ OneSensorCall'
    <2>1. Alone("sensor", calls)
      BY <1>8 DEF Issued, Alone
    <2>2. Alone("sensor", nativeCalls')
      BY <1>3, <1>8, <2>1, AloneAppend
    <2>3. Issued(nativeCalls') = Issued(calls) \cup {SensorCall}
      BY <1>3, <1>8, IssuedAppend
    <2> QED
      BY <1>2, <1>8, <2>2, <2>3 DEF SensorCallIsKnown
  <1>9. ~sensorReadInFlight => None(nativeCalls)
    BY DEF SensorCallIsKnown
  <1>10. ASSUME None(nativeCalls'), ~sensorReadInFlight'
         PROVE  SensorCallIsKnown' /\ OneSensorCall'
    <2>1. Alone("sensor", nativeCalls')
      BY <1>10 DEF Issued, Alone
    <2> QED
      BY <1>2, <1>10, <2>1 DEF SensorCallIsKnown
  <1> HIDE DEF None
  <1>11. CASE DropFanWrite \/ StartFanControlShutdown \/ ShutdownRestores
              \/ ChannelFails \/ FirmwareReverts
    <2>1. SensorsUntouched
      BY <1>11 DEF DropFanWrite, StartFanControlShutdown, ShutdownRestores,
                   ChannelFails, FirmwareReverts, FanFrame, RestoreFrame, SensorsUntouched
    <2> QED
      BY <1>5, <2>1
  <1>12. CASE Decide
    <2>1. UNCHANGED <<nativeCalls, sensorReadInFlight>>
      BY <1>12 DEF Decide, DecideAbandon, DecideFixedBlind, DecideFailHot,
                   DecideFixed, DecideDirect, DecideRamp, DecisionFrame
    <2>2. cyclePhase' # "sleep"
      BY <1>12 DEF Decide, DecideAbandon, DecideFixedBlind, DecideFailHot,
                   DecideFixed, DecideDirect, DecideRamp, CycleWrites,
                   CycleEndsHere, RampUp, RampDown, Hold
    <2> QED
      BY <1>5, <2>1, <2>2 DEF SensorsUntouched
  <1>13. CASE \/ CycleWriteDone \/ CycleWriteFailed \/ RunStarts
              \/ RunAppliesFirstSpeed \/ RunEntersLoop \/ RunStops \/ RunFails
              \/ ReinitTick \/ ReinitSettles
    <2>1. SensorsUntouched
      BY <1>13 DEF CycleWriteDone, CycleWriteFailed, RunStarts, RunAppliesFirstSpeed,
                   RunEntersLoop, RunStops, RunFails, ReinitTick, ReinitSettles,
                   ResumeFrame, RunFrame, SensorsUntouched
    <2> QED
      BY <1>5, <2>1
  <1>14. CASE HandleCommand \/ CommandSettles
    <2>1. CommandFrame
      BY <1>14 DEF HandleCommand, HandleFixedPercentage, HandleDoFixedSpeed,
                   HandleFanTable, CommandSettles
    <2> QED
      BY <1>5, <2>1 DEF CommandFrame, SensorsUntouched
  <1>15. CASE SensorReadTimesOut
    BY <1>5, <1>15 DEF SensorReadTimesOut, CollectFrame, SensorsUntouched
  <1>16. CASE StartFanWrite
    <2>1. fanWriteQueue # <<>> /\ 1 \in 1 .. Len(CallsOf(Head(fanWriteQueue)))
      BY <1>16, CallCount DEF StartFanWrite, HeadWaits
    <2>2. PICK call \in Calls : call.by = "fan" /\ nativeCalls' = Append(nativeCalls, call)
      BY <1>16, <2>1, NextFanCall DEF StartFanWrite
    <2>3. UNCHANGED <<sensorReadInFlight, cyclePhase>>
      BY <1>16 DEF StartFanWrite, FanFrame
    <2>4. Issued(nativeCalls') = Issued(nativeCalls) \cup {call}
      BY <1>1, <2>2, IssuedAppend
    <2>5. Alone("sensor", nativeCalls')
      BY <1>1, <2>2, AloneAppend
    <2> QED
      BY <1>2, <2>2, <2>3, <2>4, <2>5 DEF SensorCallIsKnown
  <1>17. CASE FanCallContinues
    <2>1. fanWriteQueue # <<>> /\ nativeCalls # <<>> /\ fanStep > 0
      BY <1>17, HeadCall DEF FanCallContinues, HeadCallBy, OneFanCall
    <2>2. fanStep + 1 \in 1 .. Len(CallsOf(Head(fanWriteQueue)))
      BY <1>17, <2>1, CallCount DEF FanCallContinues, OperationEnds, OneFanCall,
                                    TypeOK, QueueTypes
    <2>3. PICK call \in Calls : /\ call.by = "fan"
                                /\ nativeCalls' = Append(Tail(nativeCalls), call)
      BY <1>17, <2>1, <2>2, NextFanCall DEF FanCallContinues
    <2>4. UNCHANGED <<sensorReadInFlight, cyclePhase>>
      BY <1>17 DEF FanCallContinues, FanFrame
    <2>5. /\ Tail(nativeCalls) \in Seq(Calls) /\ Alone("sensor", Tail(nativeCalls))
          /\ Issued(Tail(nativeCalls)) \subseteq Issued(nativeCalls)
      BY <1>1, <2>1, HeadCall, AloneTail, IssuedTail
    <2>6. Issued(nativeCalls') = Issued(Tail(nativeCalls)) \cup {call}
      BY <2>3, <2>5, IssuedAppend
    <2>7. Alone("sensor", nativeCalls')
      BY <2>3, <2>5, AloneAppend
    <2> QED
      BY <1>2, <2>3, <2>4, <2>5, <2>6, <2>7 DEF SensorCallIsKnown
  <1>18. CASE FanCallCompletes \/ FanCallFails
    <2>1. nativeCalls # <<>> /\ nativeCalls' = Tail(nativeCalls)
      BY <1>18 DEF FanCallCompletes, FanCallFails, HeadCallBy
    <2>2. UNCHANGED <<sensorReadInFlight, cyclePhase>>
      BY <1>18 DEF FanCallCompletes, FanCallFails, FanFrame
    <2> QED
      BY <1>6, <2>1, <2>2
  <1>19. ASSUME NEW by \in Restorers, RestoreCallSucceeds(by) \/ RestoreCallFails(by)
         PROVE  SensorCallIsKnown' /\ OneSensorCall'
    <2>1. nativeCalls # <<>> /\ \E failed : RestoreSettles(by, failed)
      BY <1>19 DEF RestoreCallSucceeds, RestoreCallFails, HeadCallBy
    <2>2. /\ nativeCalls' = Tail(nativeCalls)
          /\ UNCHANGED <<sensorReadInFlight, cyclePhase>>
      BY <2>1 DEF RestoreSettles, RestoreFrame
    <2> QED
      BY <1>6, <2>1, <2>2
  <1>20. ASSUME NEW by \in Restorers, RestoreIssues(by)
         PROVE  SensorCallIsKnown' /\ OneSensorCall'
    <2> DEFINE first == FirstRestoreCall(by)
               last == LastRestoreCall(by)
    <2>1. nativeCalls' = nativeCalls \o <<first, last>>
      BY <1>20 DEF RestoreIssues, FirstRestoreCall, LastRestoreCall
    <2>2. UNCHANGED <<sensorReadInFlight, cyclePhase>>
      BY <1>20 DEF RestoreIssues, RestoreFrame
    <2>3. first \in Calls /\ last \in Calls /\ first.by # "sensor" /\ last.by # "sensor"
      BY RestoreCallsBy
    <2> HIDE DEF first, last
    <2>4. nativeCalls' = Append(Append(nativeCalls, first), last)
      BY <1>1, <2>1, <2>3
    <2>5. /\ Append(nativeCalls, first) \in Seq(Calls)
          /\ Alone("sensor", Append(nativeCalls, first))
          /\ Issued(Append(nativeCalls, first)) = Issued(nativeCalls) \cup {first}
      BY <1>1, <2>3, AloneAppend, IssuedAppend
    <2>6. Alone("sensor", nativeCalls')
      BY <2>3, <2>4, <2>5, AloneAppend
    <2>7. Issued(nativeCalls') = Issued(Append(nativeCalls, first)) \cup {last}
      BY <2>3, <2>4, <2>5, IssuedAppend
    <2> QED
      BY <1>2, <2>2, <2>3, <2>5, <2>6, <2>7 DEF SensorCallIsKnown
  <1>21. CASE StartCycle
    <2>1. /\ None(nativeCalls) /\ nativeCalls' = Append(nativeCalls, SensorCall)
          /\ sensorReadInFlight' /\ cyclePhase' # "sleep"
      BY <1>9, <1>21 DEF StartCycle, NoCollection
    <2> QED
      BY <1>1, <1>8, <2>1
  <1>22. CASE SensorAnswers
    <2>1. nativeCalls # <<>> /\ HeadCallBy("sensor")
      BY <1>22 DEF SensorAnswers, HeadCallBy
    <2>2. \/ /\ nativeCalls' = Append(Tail(nativeCalls), SensorCall)
             /\ sensorReadInFlight' /\ cyclePhase' # "sleep"
          \/ nativeCalls' = Tail(nativeCalls) /\ ~sensorReadInFlight'
      BY <1>22 DEF SensorAnswers
    <2> QED
      BY <1>4, <1>8, <1>10, <2>1, <2>2
  <1>23. CASE SensorFails \/ SensorAnswersLate
    <2>1. nativeCalls # <<>> /\ HeadCallBy("sensor")
      BY <1>23 DEF SensorFails, SensorAnswersLate, HeadCallBy
    <2>2. nativeCalls' = Tail(nativeCalls) /\ ~sensorReadInFlight'
      BY <1>23 DEF SensorFails, SensorAnswersLate
    <2> QED
      BY <1>4, <1>10, <2>1, <2>2
  <1>24. CASE SampleSleepEnds
    <2>1. None(nativeCalls)
      BY <1>9, <1>24 DEF SampleSleepEnds, SensorCallIsKnown
    <2>2. \/ /\ nativeCalls' = Append(nativeCalls, SensorCall)
             /\ sensorReadInFlight' /\ cyclePhase' # "sleep"
          \/ nativeCalls' = nativeCalls /\ ~sensorReadInFlight'
      BY <1>24 DEF SampleSleepEnds, TypeOK, RunTypes
    <2> QED
      BY <1>1, <1>8, <1>10, <2>1, <2>2
  <1> QED
    BY <1>11, <1>12, <1>13, <1>14, <1>15, <1>16, <1>17, <1>18, <1>19, <1>20, <1>21,
       <1>22, <1>23, <1>24 DEF Next, FanControlStep, Microtask, NativeCallSettles

-----------------------------------------------------------------------------
(* What most steps leave alone *)

HeadStays ==
    fanWriteQueue # <<>>
        => fanWriteQueue' # <<>> /\ Head(fanWriteQueue') = Head(fanWriteQueue)

\* Steps that issue no call, settle none and leave the head operation alone.
QuietAction ==
    \/ Decide \/ CycleWriteDone \/ CycleWriteFailed \/ SensorReadTimesOut
    \/ RunStarts \/ RunAppliesFirstSpeed \/ RunEntersLoop \/ RunStops \/ RunFails
    \/ ReinitTick \/ ReinitSettles \/ HandleCommand \/ CommandSettles
    \/ StartFanControlShutdown \/ ShutdownRestores

SensorAction ==
    StartCycle \/ SensorAnswers \/ SensorFails \/ SensorAnswersLate \/ SampleSleepEnds

LEMMA EnqueueKeepsHead ==
    ASSUME TypeOK, NEW op, EnqueueFanWrite(op)
    PROVE  HeadStays
  BY DEF TypeOK, QueueTypes, EnqueueFanWrite, HeadStays

LEMMA QuietStep ==
    ASSUME TypeOK, QuietAction
    PROVE  /\ UNCHANGED <<nativeCalls, firmware, fanStep, outputVars, restoreFailed>>
           /\ HeadStays
  <1> USE DEF serverVars, settingVars, manualVars, runVars, queueVars, loopVars,
              cycleVars, collectVars, outputVars, restoreVars, platformVars
  <1> DEFINE Goal == /\ UNCHANGED <<nativeCalls, firmware, fanStep, outputVars, restoreFailed>>
                     /\ HeadStays
  <1>1. ASSUME UNCHANGED fanWriteQueue PROVE HeadStays
    BY <1>1 DEF HeadStays
  <1>2. CASE Decide
    <2>1. UNCHANGED <<nativeCalls, firmware, fanStep, outputVars, restoreFailed>>
      BY <1>2 DEF Decide, DecideAbandon, DecideFixedBlind, DecideFailHot,
                  DecideFixed, DecideDirect, DecideRamp, DecisionFrame
    <2>2. UNCHANGED fanWriteQueue \/ \E op : EnqueueFanWrite(op)
      BY <1>2 DEF Decide, DecideAbandon, DecideFixedBlind, DecideFailHot,
                  DecideFixed, DecideDirect, DecideRamp, CycleWrites,
                  CycleEndsHere, RampUp, RampDown, Hold
    <2> QED
      BY <1>1, <2>1, <2>2, EnqueueKeepsHead
  <1>3. CASE CycleWriteDone \/ CycleWriteFailed \/ SensorReadTimesOut
    BY <1>1, <1>3 DEF CycleWriteDone, CycleWriteFailed, SensorReadTimesOut,
                      ResumeFrame, CollectFrame
  <1>4. CASE RunStarts \/ RunAppliesFirstSpeed
    <2>1. UNCHANGED <<nativeCalls, firmware, fanStep, outputVars, restoreFailed>>
      BY <1>4 DEF RunStarts, RunAppliesFirstSpeed, RunFrame
    <2>2. \E op : EnqueueFanWrite(op)
      BY <1>4 DEF RunStarts, RunAppliesFirstSpeed
    <2> QED
      BY <2>1, <2>2, EnqueueKeepsHead
  <1>5. CASE RunEntersLoop \/ RunStops \/ RunFails \/ ReinitSettles
    BY <1>1, <1>5 DEF RunEntersLoop, RunStops, RunFails, ReinitSettles, RunFrame
  <1>6. CASE ReinitTick
    BY <1>6, EnqueueKeepsHead DEF ReinitTick
  <1>7. CASE HandleCommand \/ CommandSettles
    <2>1. CommandFrame
      BY <1>7 DEF HandleCommand, HandleFixedPercentage, HandleDoFixedSpeed,
                  HandleFanTable, CommandSettles
    <2>2. UNCHANGED fanWriteQueue \/ \E op : EnqueueFanWrite(op)
      BY <1>7 DEF HandleCommand, HandleFixedPercentage, HandleDoFixedSpeed,
                  HandleFanTable, CommandSettles, ApplyFixedFan
    <2> QED
      BY <1>1, <2>1, <2>2, EnqueueKeepsHead DEF CommandFrame
  <1>8. CASE StartFanControlShutdown \/ ShutdownRestores
    BY <1>1, <1>8 DEF StartFanControlShutdown, ShutdownRestores, RestoreFrame
  <1> QED
    BY <1>2, <1>3, <1>4, <1>5, <1>6, <1>7, <1>8 DEF QuietAction

\* A sensor step does not touch the calls of the others.
LEMMA SensorsApart ==
    ASSUME TypeOK, SensorAction
    PROVE  /\ UNCHANGED <<queueVars, firmware, outputVars, restoreVars, runPhase,
                          isShuttingDown>>
           /\ \A call \in Calls : call.by # "sensor" =>
                (call \in Issued(nativeCalls') <=> call \in Issued(nativeCalls))
           /\ Alone("fan", nativeCalls) => Alone("fan", nativeCalls')
           /\ \A by \in Restorers :
                Paired(by, nativeCalls) => Paired(by, nativeCalls')
  <1>1. UNCHANGED <<queueVars, firmware, outputVars, restoreVars, runPhase, isShuttingDown>>
    BY DEF SensorAction, StartCycle, SensorAnswers, SensorFails, SensorAnswersLate,
           SampleSleepEnds, CollectFrame, serverVars, runVars
  <1>2. PICK calls : /\ \/ calls = nativeCalls
                        \/ calls = Tail(nativeCalls) /\ HeadCallBy("sensor")
                     /\ nativeCalls' = calls \/ nativeCalls' = Append(calls, SensorCall)
    BY DEF SensorAction, StartCycle, SensorAnswers, SensorFails, SensorAnswersLate,
           SampleSleepEnds
  <1>3. nativeCalls \in Seq(Calls)
    BY DEF TypeOK, NativeTypes
  <1>4. /\ SensorCall \in Calls /\ SensorCall.by = "sensor"
        /\ \A by \in Restorers : SensorCall # FirstRestoreCall(by)
    BY SensorCallType, RestoreCallsBy DEF SensorCall
  <1>5. /\ calls \in Seq(Calls)
        /\ Alone("fan", nativeCalls) => Alone("fan", calls)
        /\ \A by \in Restorers : Paired(by, nativeCalls) => Paired(by, calls)
        /\ \A call \in Calls : call.by # "sensor" =>
             (call \in Issued(calls) <=> call \in Issued(nativeCalls))
    <2>1. CASE calls = nativeCalls
      BY <1>3, <2>1
    <2>2. CASE calls = Tail(nativeCalls) /\ HeadCallBy("sensor")
      <3>1. /\ nativeCalls # <<>> /\ calls \in Seq(Calls)
            /\ Issued(nativeCalls) = Issued(calls) \cup {Head(nativeCalls)}
        BY <1>3, <2>2, HeadCall, IssuedTail DEF HeadCallBy
      <3>2. /\ Alone("fan", nativeCalls) => Alone("fan", calls)
            /\ \A by \in Restorers : Paired(by, nativeCalls) => Paired(by, calls)
        BY <1>3, <2>2, <3>1, AloneTail, PairedTail
      <3> QED
        BY <2>2, <3>1, <3>2 DEF HeadCallBy
    <2> QED
      BY <1>2, <2>1, <2>2
  <1>6. CASE nativeCalls' = Append(calls, SensorCall)
    <2>1. Issued(nativeCalls') = Issued(calls) \cup {SensorCall}
      BY <1>4, <1>5, <1>6, IssuedAppend
    <2>2. Alone("fan", nativeCalls) => Alone("fan", nativeCalls')
      BY <1>4, <1>5, <1>6, AloneAppend
    <2>3. \A by \in Restorers : Paired(by, nativeCalls) => Paired(by, nativeCalls')
      BY <1>4, <1>5, <1>6, PairedAppend
    <2> QED
      BY <1>1, <1>4, <1>5, <2>1, <2>2, <2>3
  <1> QED
    BY <1>1, <1>2, <1>5, <1>6

\* The settled head call leaves the others as they were.
LEMMA CallSettled ==
    ASSUME TypeOK, nativeCalls # <<>>, nativeCalls' = Tail(nativeCalls)
    PROVE  /\ Issued(nativeCalls) = Issued(nativeCalls') \cup {Head(nativeCalls)}
           /\ \A who : Alone(who, nativeCalls) => Alone(who, nativeCalls')
           /\ \A by : Paired(by, nativeCalls) => Paired(by, nativeCalls')
  BY IssuedTail, AloneTail, PairedTail DEF TypeOK, NativeTypes

\* A settling restore call.
LEMMA RestoreSettlesFirst ==
    ASSUME NEW by \in Restorers, RestoreCallSucceeds(by) \/ RestoreCallFails(by)
    PROVE  /\ nativeCalls # <<>> /\ Head(nativeCalls).by = by
           /\ nativeCalls' = Tail(nativeCalls)
           /\ \E failed : RestoreSettles(by, failed)
           /\ UNCHANGED <<queueVars, appliedFanPercentage, runPhase, isShuttingDown>>
  <1>1. \E failed : RestoreSettles(by, failed)
    BY DEF RestoreCallSucceeds, RestoreCallFails
  <1>2. HeadCallBy(by)
    BY DEF RestoreCallSucceeds, RestoreCallFails
  <1> QED
    BY <1>1, <1>2 DEF RestoreSettles, RestoreFrame, HeadCallBy

\* A fan call that settles is the current call of the head operation.
LEMMA FanCallIsCurrent ==
    ASSUME TypeOK, OneFanCall, HeadCallBy("fan")
    PROVE  /\ nativeCalls # <<>> /\ fanWriteQueue # <<>>
           /\ fanStep > 0 /\ fanStep \in 1 .. Len(CallsOf(Head(fanWriteQueue)))
           /\ Head(nativeCalls) = By("fan", CallsOf(Head(fanWriteQueue))[fanStep])
           /\ Tail(nativeCalls) \in Seq(Calls)
           /\ \A call \in Issued(Tail(nativeCalls)) : call.by # "fan"
  <1>1. nativeCalls # <<>> /\ Head(nativeCalls) \in Issued(nativeCalls)
    BY HeadCall DEF HeadCallBy
  <1>2. \A call \in Issued(Tail(nativeCalls)) : call.by # "fan"
    BY <1>1, AloneTail DEF OneFanCall, TypeOK, NativeTypes, HeadCallBy
  <1> QED
    BY <1>1, <1>2, HeadCall, CallCount DEF OneFanCall, HeadCallBy, TypeOK, QueueTypes

-----------------------------------------------------------------------------
(* The fan call *)

LEMMA OneFanCallStep ==
    ASSUME TypeOK, OneFanCall, Next
    PROVE  OneFanCall'
  <1> DEFINE None(calls) == \A call \in Issued(calls) : call.by # "fan"
             Current == By("fan", CallsOf(Head(fanWriteQueue))[fanStep])
  <1>1. nativeCalls \in Seq(Calls)
    BY DEF TypeOK, NativeTypes
  <1>2. ASSUME NEW calls, None(calls) PROVE Alone("fan", calls)
    BY <1>2 DEF Issued, Alone
  <1>3. CASE QuietAction
    BY <1>3, QuietStep DEF OneFanCall, HeadStays
  <1>4. CASE SensorAction
    <2>1. Issued(nativeCalls') \subseteq Calls
      <3>1. \/ nativeCalls' = nativeCalls
            \/ nativeCalls' = Append(nativeCalls, SensorCall)
            \/ nativeCalls # <<>> /\ nativeCalls' = Tail(nativeCalls)
            \/ nativeCalls # <<>> /\ nativeCalls' = Append(Tail(nativeCalls), SensorCall)
        BY <1>4 DEF SensorAction, StartCycle, SensorAnswers, SensorFails,
                    SensorAnswersLate, SampleSleepEnds, HeadCallBy
      <3>2. nativeCalls' \in Seq(Calls)
        BY <1>1, <3>1, SensorCallType, HeadCall
      <3> QED
        BY <3>2 DEF Issued
    <2> QED
      BY <1>4, <2>1, SensorsApart DEF OneFanCall, queueVars
  <1>5. CASE ChannelFails \/ FirmwareReverts
    <2>1. UNCHANGED <<queueVars, nativeCalls>>
      BY <1>5 DEF ChannelFails, FirmwareReverts, RestoreFrame
    <2> QED
      BY <2>1 DEF OneFanCall, queueVars
  <1>6. CASE DropFanWrite
    <2>1. fanStep = 0 /\ fanStep' = 0 /\ UNCHANGED nativeCalls
      BY <1>6 DEF DropFanWrite, HeadWaits, SettleHead
    <2> QED
      BY <2>1 DEF OneFanCall
  <1>7. CASE StartFanWrite
    <2>1. /\ fanWriteQueue # <<>> /\ fanStep = 0 /\ UNCHANGED fanWriteQueue
          /\ fanStep' = 1 /\ nativeCalls' = Append(nativeCalls, Current')
      BY <1>7 DEF StartFanWrite, HeadWaits
    <2>2. 1 \in 1 .. Len(CallsOf(Head(fanWriteQueue)))
      <3>1. \/ Len(CallsOf(Head(fanWriteQueue))) = 4
            \/ Len(CallsOf(Head(fanWriteQueue))) = 2
        BY CallCount
      <3> QED
        BY <3>1
    <2>3. Current' \in Calls /\ (Current').by = "fan" /\ None(nativeCalls)
      BY <2>1, <2>2, NextFanCall DEF OneFanCall
    <2>4. /\ Issued(nativeCalls') = Issued(nativeCalls) \cup {Current'}
          /\ Alone("fan", nativeCalls')
      BY <1>1, <1>2, <2>1, <2>3, IssuedAppend, AloneAppend
    <2> QED
      BY <2>1, <2>2, <2>3, <2>4 DEF OneFanCall
  <1>8. CASE FanCallContinues
    <2>1. HeadCallBy("fan") /\ ~OperationEnds(Head(fanWriteQueue))
      BY <1>8 DEF FanCallContinues
    <2>2. fanStep + 1 \in 1 .. Len(CallsOf(Head(fanWriteQueue)))
      BY <2>1, FanCallIsCurrent, CallCount DEF OperationEnds, TypeOK, QueueTypes
    <2>3. /\ UNCHANGED fanWriteQueue /\ fanStep' = fanStep + 1
          /\ nativeCalls' = Append(Tail(nativeCalls), Current')
      BY <1>8 DEF FanCallContinues
    <2>4. /\ Current' \in Calls /\ (Current').by = "fan" /\ fanWriteQueue # <<>>
          /\ Tail(nativeCalls) \in Seq(Calls) /\ None(Tail(nativeCalls))
      BY <2>1, <2>2, <2>3, FanCallIsCurrent, NextFanCall
    <2>5. /\ Issued(nativeCalls') = Issued(Tail(nativeCalls)) \cup {Current'}
          /\ Alone("fan", nativeCalls')
      BY <1>2, <2>3, <2>4, IssuedAppend, AloneAppend
    <2>6. fanStep' > 0 /\ fanStep' <= Len(CallsOf(Head(fanWriteQueue)))
      BY <2>2, <2>3, CallCount
    <2> QED
      BY <2>3, <2>4, <2>5, <2>6 DEF OneFanCall
  <1>9. CASE FanCallCompletes \/ FanCallFails
    <2>1. HeadCallBy("fan") /\ nativeCalls' = Tail(nativeCalls) /\ fanStep' = 0
      BY <1>9 DEF FanCallCompletes, FanCallFails, SettleHead
    <2>2. None(nativeCalls')
      BY <2>1, FanCallIsCurrent
    <2> QED
      BY <1>2, <2>1, <2>2 DEF OneFanCall
  <1>10. ASSUME NEW by \in Restorers, RestoreCallSucceeds(by) \/ RestoreCallFails(by)
         PROVE  OneFanCall'
    BY <1>10, RestoreSettlesFirst, CallSettled DEF OneFanCall, queueVars
  <1>11. ASSUME NEW by \in Restorers, RestoreIssues(by) PROVE OneFanCall'
    <2>1. /\ nativeCalls' = nativeCalls \o <<FirstRestoreCall(by), LastRestoreCall(by)>>
          /\ UNCHANGED queueVars /\ fanWriteQueue = <<>>
      BY <1>11 DEF RestoreIssues, RestoreFrame, FirstRestoreCall, LastRestoreCall
    <2>2. None(nativeCalls) /\ ~(fanStep > 0)
      BY <2>1 DEF OneFanCall
    <2>3. Issued(nativeCalls')
            = Issued(nativeCalls) \cup {FirstRestoreCall(by), LastRestoreCall(by)}
      BY <1>1, <2>1, RestoreCallsBy, IssuedPair
    <2>4. None(nativeCalls')
      BY <2>2, <2>3, RestoreCallsBy
    <2> QED
      BY <1>2, <2>1, <2>2, <2>4 DEF OneFanCall, queueVars
  <1> QED
    BY <1>3, <1>4, <1>5, <1>6, <1>7, <1>8, <1>9, <1>10, <1>11
       DEF Next, FanControlStep, Microtask, NativeCallSettles, QuietAction, SensorAction

-----------------------------------------------------------------------------
(* The effects of calls on the firmware *)

\* Sensor and restore calls leave the speeds alone and never take the fans
\* from the BIOS.
LEMMA OtherCallsAreHarmless ==
    ASSUME TypeOK, SensorCallIsKnown, RestoreInOrder, NEW fw \in Firmware,
           NEW call \in Issued(nativeCalls), call.by # "fan"
    PROVE  /\ After(fw, call).cpu = fw.cpu /\ After(fw, call).gpu = fw.gpu
           /\ After(fw, call).fixed => fw.fixed
           /\ fw.auto => After(fw, call).auto
  <1>1. call \in Calls
    BY DEF TypeOK, NativeTypes, Issued
  <1>2. CASE call.by = "sensor"
    BY <1>2 DEF SensorCallIsKnown, SensorCall, After
  <1>3. CASE call.by \in Restorers
    <2>1. call \in {FirstRestoreCall(call.by), LastRestoreCall(call.by)}
      BY <1>3 DEF RestoreInOrder
    <2>2. \/ call.method = "SetFixedFanStatus" /\ call.data = 0
          \/ call.method = "SetAutoFanStatus" /\ call.data = 1
      BY <2>1 DEF FirstRestoreCall, LastRestoreCall, By, RestoreCalls
    <2> QED
      BY <2>2 DEF After, Firmware
  <1> QED
    BY <1>1, <1>2, <1>3 DEF Calls

LEMMA FanCallEffect ==
    ASSUME NEW fw \in Firmware, NEW op \in FanOps, NEW k \in 1 .. Len(CallsOf(op)),
           NEW after, after = After(fw, By("fan", CallsOf(op)[k]))
    PROVE  /\ op.kind = "init" => after.cpu = fw.cpu /\ after.gpu = fw.gpu
           /\ op.kind # "init" =>
                /\ after.auto = fw.auto /\ after.fixed = fw.fixed
                /\ k = 1 => after.cpu = FanPercentToSpeed(op.percent)
                /\ k = 2 => /\ after.cpu = fw.cpu
                            /\ after.gpu = FanPercentToSpeed(op.percent)
                /\ k \in {1, 2}
  <1>1. CASE op.kind = "init"
    <2>1. k \in {1, 2, 3, 4} /\ CallsOf(op) = InitCalls
      BY <1>1, CallCount DEF CallsOf
    <2>2. /\ By("fan", CallsOf(op)[k]).method # "SetFixedFanSpeed"
          /\ By("fan", CallsOf(op)[k]).method # "SetGPUFanDuty"
      BY <2>1 DEF InitCalls, By
    <2> QED
      BY <1>1, <2>2 DEF After, Firmware
  <1>2. CASE op.kind # "init"
    <2>1. k \in {1, 2} /\ CallsOf(op) = WriteCalls(op.percent)
      BY <1>2, CallCount DEF CallsOf
    <2>2. CASE k = 1
      BY <1>2, <2>1, <2>2 DEF WriteCalls, By, After, Firmware
    <2>3. CASE k = 2
      BY <1>2, <2>1, <2>3 DEF WriteCalls, By, After, Firmware
    <2> QED
      BY <2>1, <2>2, <2>3
  <1> QED
    BY <1>1, <1>2

-----------------------------------------------------------------------------
(* The confirmed speed *)

LEMMA SpeedStep ==
    ASSUME TypeOK, OneFanCall, SensorCallIsKnown, RestoreInOrder,
           HalfWritten, ConfirmedSpeedIsReal, Next
    PROVE  HalfWritten' /\ ConfirmedSpeedIsReal'
  <1> DEFINE op == Head(fanWriteQueue)
             SpeedsKept == /\ firmware'.cpu = firmware.cpu
                           /\ firmware'.gpu = firmware.gpu
             ByCall(fw) == \/ fw = firmware
                           \/ fw = After(firmware, Head(nativeCalls))
  <1>1. firmware \in Firmware
    BY DEF TypeOK, NativeTypes
  <1>2. ASSUME SpeedsKept, UNCHANGED <<fanStep, appliedFanPercentage>>, HeadStays
        PROVE  HalfWritten' /\ ConfirmedSpeedIsReal'
    BY <1>2 DEF HalfWritten, ConfirmedSpeedIsReal, WritingSpeed, FansAt, HeadStays,
                OneFanCall
  <1>3. ASSUME nativeCalls # <<>>, Head(nativeCalls).by # "fan", ByCall(firmware')
        PROVE  SpeedsKept
    BY <1>1, <1>3, HeadCall, OtherCallsAreHarmless
  <1>4. ASSUME UNCHANGED fanWriteQueue PROVE HeadStays
    BY <1>4 DEF HeadStays
  \* The effect of a fan call, whether or not the call then fails.
  <1>5. ASSUME HeadCallBy("fan"), ByCall(firmware')
        PROVE  /\ op \in FanOps /\ op.kind \in {"init", "write"} /\ fanStep > 0
               /\ op.kind = "init" => SpeedsKept
               /\ op.kind # "init" /\ fanStep = 2 => firmware'.cpu = firmware.cpu
    BY <1>1, <1>5, FanCallIsCurrent, HeadOp, FanCallEffect DEF FanOps
  <1>6. CASE QuietAction
    BY <1>2, <1>6, QuietStep DEF outputVars
  <1>7. CASE SensorAction
    BY <1>2, <1>4, <1>7, SensorsApart DEF queueVars, outputVars
  <1>8. CASE FirmwareReverts
    <2>1. SpeedsKept
      BY <1>1, <1>8 DEF FirmwareReverts, Firmware
    <2> QED
      BY <1>2, <1>4, <1>8, <2>1 DEF FirmwareReverts, RestoreFrame, queueVars
  <1>9. CASE ChannelFails
    <2>1. UNCHANGED <<queueVars, outputVars>>
      BY <1>9 DEF ChannelFails
    <2>2. firmware' = firmware \/ (nativeCalls # <<>> /\ ByCall(firmware'))
      BY <1>9 DEF ChannelFails, Outcomes
    <2>3. CASE SpeedsKept
      BY <1>2, <1>4, <2>1, <2>3 DEF queueVars, outputVars
    <2>4. CASE ~SpeedsKept
      <3>1. HeadCallBy("fan") /\ ByCall(firmware')
        BY <1>3, <2>2, <2>4 DEF HeadCallBy
      <3>2. op.kind = "write" /\ fanStep > 0
        BY <1>5, <2>4, <3>1
      <3>3. fanStep = 2 => firmware'.cpu = firmware.cpu
        BY <1>5, <3>1, <3>2
      <3> QED
        BY <2>1, <3>2, <3>3 DEF HalfWritten, ConfirmedSpeedIsReal, WritingSpeed,
                                queueVars
    <2> QED
      BY <2>3, <2>4
  <1>10. CASE DropFanWrite
    <2>1. /\ fanStep = 0 /\ fanStep' = 0
          /\ UNCHANGED <<firmware, appliedFanPercentage>>
      BY <1>10 DEF DropFanWrite, HeadWaits, SettleHead, outputVars, platformVars
    <2> QED
      BY <2>1 DEF HalfWritten, ConfirmedSpeedIsReal, WritingSpeed, FansAt
  <1>11. CASE StartFanWrite
    <2>1. /\ fanStep = 0 /\ fanStep' = 1
          /\ UNCHANGED <<firmware, appliedFanPercentage>>
      BY <1>11 DEF StartFanWrite, HeadWaits, platformVars
    <2> QED
      BY <2>1 DEF HalfWritten, ConfirmedSpeedIsReal, WritingSpeed, FansAt
  <1>12. CASE FanCallContinues
    <2>1. /\ HeadCallBy("fan") /\ firmware' = After(firmware, Head(nativeCalls))
          /\ fanStep' = fanStep + 1 /\ UNCHANGED <<fanWriteQueue, appliedFanPercentage>>
      BY <1>12 DEF FanCallContinues, outputVars
    <2>2. /\ op \in FanOps /\ fanStep \in 1 .. Len(CallsOf(op))
          /\ Head(nativeCalls) = By("fan", CallsOf(op)[fanStep])
      BY <2>1, FanCallIsCurrent, HeadOp
    <2>3. CASE op.kind = "init"
      BY <1>5, <2>1, <2>3 DEF HalfWritten, ConfirmedSpeedIsReal, WritingSpeed, FansAt
    <2>4. CASE op.kind # "init"
      <3>1. op.kind = "write" /\ fanStep' > 0
        BY <1>5, <2>1, <2>2, <2>4
      <3>2. fanStep' = 2 => firmware'.cpu = FanPercentToSpeed(op.percent)
        <4>1. fanStep = 1 => firmware'.cpu = FanPercentToSpeed(op.percent)
          BY <1>1, <2>1, <2>2, <2>4, FanCallEffect
        <4> QED
          BY <2>1, <2>2, <4>1
      <3> QED
        BY <2>1, <3>1, <3>2 DEF HalfWritten, ConfirmedSpeedIsReal, WritingSpeed
    <2> QED
      BY <2>3, <2>4
  <1>13. CASE FanCallCompletes
    <2> DEFINE last == fanStep = Len(CallsOf(op))
               outcome == IF last \/ op.kind = "init" THEN "ok" ELSE "error"
    <2>1. /\ HeadCallBy("fan") /\ firmware' = After(firmware, Head(nativeCalls))
          /\ fanStep' = 0 /\ Confirm(op, outcome)
      BY <1>13 DEF FanCallCompletes, SettleHead
    <2>2. /\ op \in FanOps /\ fanStep \in 1 .. Len(CallsOf(op))
          /\ Head(nativeCalls) = By("fan", CallsOf(op)[fanStep])
      BY <2>1, FanCallIsCurrent, HeadOp
    <2>3. HalfWritten'
      BY <2>1 DEF HalfWritten, WritingSpeed
    <2>4. CASE op.kind = "init"
      <3>1. SpeedsKept /\ UNCHANGED appliedFanPercentage /\ ~WritingSpeed
        BY <1>5, <2>1, <2>4 DEF Confirm, WritingSpeed
      <3> QED
        BY <2>3, <3>1 DEF ConfirmedSpeedIsReal, FansAt
    <2>5. CASE op.kind # "init" /\ ~last
      BY <2>1, <2>3, <2>5 DEF Confirm, ConfirmedSpeedIsReal
    <2>6. CASE op.kind # "init" /\ last
      <3>1. fanStep = 2 /\ WritingSpeed
        BY <1>5, <2>1, <2>2, <2>6, CallCount DEF WritingSpeed
      <3>2. /\ firmware'.cpu = firmware.cpu
            /\ firmware'.gpu = FanPercentToSpeed(op.percent)
        BY <1>1, <2>1, <2>2, <2>6, <3>1, FanCallEffect
      <3>3. appliedFanPercentage' = op.percent
        BY <2>1, <2>6 DEF Confirm
      <3> QED
        BY <2>3, <3>1, <3>2, <3>3 DEF HalfWritten, ConfirmedSpeedIsReal, FansAt
    <2> QED
      BY <2>4, <2>5, <2>6
  <1>14. CASE FanCallFails
    <2>1. /\ HeadCallBy("fan") /\ ByCall(firmware')
          /\ fanStep' = 0 /\ Confirm(op, "error")
      BY <1>14 DEF FanCallFails, SettleHead, Outcomes
    <2>2. HalfWritten'
      BY <2>1 DEF HalfWritten, WritingSpeed
    <2>3. CASE op.kind = "init"
      <3>1. SpeedsKept /\ UNCHANGED appliedFanPercentage /\ ~WritingSpeed
        BY <1>5, <2>1, <2>3 DEF Confirm, WritingSpeed
      <3> QED
        BY <2>2, <3>1 DEF ConfirmedSpeedIsReal, FansAt
    <2>4. CASE op.kind # "init"
      BY <2>1, <2>2, <2>4 DEF Confirm, ConfirmedSpeedIsReal
    <2> QED
      BY <2>3, <2>4
  <1>15. ASSUME NEW by \in Restorers, RestoreCallSucceeds(by) \/ RestoreCallFails(by)
         PROVE  HalfWritten' /\ ConfirmedSpeedIsReal'
    <2>1. ByCall(firmware')
      BY <1>15 DEF RestoreCallSucceeds, RestoreCallFails, Outcomes
    <2>2. /\ nativeCalls # <<>> /\ Head(nativeCalls).by # "fan"
          /\ UNCHANGED <<queueVars, appliedFanPercentage>>
      BY <1>15, RestoreSettlesFirst, RestoreCallsBy
    <2> QED
      BY <1>2, <1>3, <1>4, <2>1, <2>2 DEF queueVars
  <1>16. ASSUME NEW by \in Restorers, RestoreIssues(by)
         PROVE  HalfWritten' /\ ConfirmedSpeedIsReal'
    BY <1>2, <1>4, <1>16 DEF RestoreIssues, RestoreFrame, queueVars
  <1> QED
    BY <1>6, <1>7, <1>8, <1>9, <1>10, <1>11, <1>12, <1>13, <1>14, <1>15, <1>16
       DEF Next, FanControlStep, Microtask, NativeCallSettles, QuietAction, SensorAction

-----------------------------------------------------------------------------
(* The handoff *)

\* Restores are over or not begun, and the queue takes no operation that a
\* restore would have had to wait for.
LEMMA RestoreComesLastStep ==
    ASSUME TypeOK, OneWritePerOwner, CallersBelongToTheRun, OneFanCall,
           RestoreComesLast, RestoreInOrder, Next
    PROVE  RestoreComesLast'
  <1> USE DEF serverVars, settingVars, manualVars, runVars, queueVars, loopVars,
              cycleVars, collectVars, restoreVars
  <1> DEFINE StaysEmpty == fanWriteQueue = <<>> => fanWriteQueue' = <<>>
  <1>1. ASSUME UNCHANGED <<restore, runPhase>>, StaysEmpty,
               isShuttingDown => isShuttingDown'
        PROVE  RestoreComesLast'
    BY <1>1 DEF RestoreComesLast
  \* Only a running, undisturbed process enqueues.
  <1>2. ASSUME UNCHANGED restore, ~isShuttingDown, runPhase # "failed"
        PROVE  RestoreComesLast'
    BY <1>2 DEF RestoreComesLast, Restorers
  <1>3. CASE DropFanWrite \/ StartFanWrite \/ FanCallContinues
             \/ FanCallCompletes \/ FanCallFails
    <2>1. UNCHANGED <<restore, runPhase, isShuttingDown>>
      BY <1>3 DEF DropFanWrite, StartFanWrite, FanCallContinues,
                  FanCallCompletes, FanCallFails, FanFrame
    <2>2. StaysEmpty
      BY <1>3, FanCallIsCurrent DEF DropFanWrite, StartFanWrite, FanCallContinues,
                  FanCallCompletes, FanCallFails, HeadWaits
    <2> QED
      BY <1>1, <2>1, <2>2
  <1>4. CASE SensorAction \/ SensorReadTimesOut
    <2>1. UNCHANGED <<restore, runPhase, isShuttingDown, fanWriteQueue>>
      BY <1>4, SensorsApart DEF SensorReadTimesOut, CollectFrame
    <2> QED
      BY <1>1, <2>1
  <1>5. CASE Decide
    <2>1. CASE DecideAbandon
      BY <1>1, <2>1 DEF DecideAbandon
    <2>2. CASE ~DecideAbandon
      <3>1. DecisionFrame /\ Deciding
        BY <1>5, <2>2 DEF Decide, DecideFixedBlind, DecideFailHot, DecideFixed,
                          DecideDirect, DecideRamp
      <3>2. ~isShuttingDown /\ runPhase = "on" /\ UNCHANGED restore
        BY <3>1 DEF Deciding, Overtaken, CallersBelongToTheRun, DecisionFrame
      <3> QED
        BY <1>2, <3>2
    <2> QED
      BY <2>1, <2>2
  <1>6. CASE CycleWriteDone \/ CycleWriteFailed \/ ReinitSettles \/ CommandSettles
             \/ StartFanControlShutdown \/ ChannelFails \/ FirmwareReverts
    <2>1. /\ UNCHANGED <<restore, runPhase, fanWriteQueue>>
          /\ isShuttingDown => isShuttingDown'
      BY <1>6 DEF CycleWriteDone, CycleWriteFailed, ReinitSettles, CommandSettles,
                  StartFanControlShutdown, ChannelFails, FirmwareReverts,
                  ResumeFrame, CommandFrame, RestoreFrame
    <2> QED
      BY <1>1, <2>1
  <1>7. CASE HandleCommand
    <2>1. ~isShuttingDown /\ runPhase = "on" /\ UNCHANGED restore
      BY <1>7 DEF HandleCommand, HandleFixedPercentage, HandleDoFixedSpeed,
                  HandleFanTable, MayHandle, CommandFrame
    <2> QED
      BY <1>2, <2>1
  <1>8. CASE RunStarts \/ ReinitTick
    <2>1. ~isShuttingDown /\ runPhase # "failed" /\ UNCHANGED restore
      BY <1>8 DEF RunStarts, ReinitTick, CallersBelongToTheRun
    <2> QED
      BY <1>2, <2>1
  <1>9. CASE RunAppliesFirstSpeed \/ RunEntersLoop \/ RunStops \/ RunFails
    <2>1. runPhase \in {"takeover", "first"}
      BY <1>9 DEF RunAppliesFirstSpeed, RunEntersLoop, RunStops, RunFails,
                  OneWritePerOwner, Busy, Owners
    <2>2. restore["startup"] = "idle"
      BY <2>1 DEF RestoreComesLast
    <2>3. CASE RunAppliesFirstSpeed \/ RunEntersLoop
      BY <1>2, <2>1, <2>3 DEF RunAppliesFirstSpeed, RunEntersLoop, RunFrame
    <2>4. CASE RunStops
      <3>1. UNCHANGED <<restore, fanWriteQueue, isShuttingDown>>
        BY <2>4 DEF RunStops, RunFrame
      <3> QED
        BY <2>2, <3>1 DEF RestoreComesLast
    <2>5. CASE RunFails
      <3>1. /\ restore' \in {restore, [restore EXCEPT !["startup"] = "waiting"]}
            /\ runPhase' = "failed" /\ UNCHANGED <<fanWriteQueue, isShuttingDown>>
        BY <2>5 DEF RunFails, RunFrame
      <3>2. \A by \in Restorers : \/ restore'[by] = restore[by]
                                  \/ by = "startup" /\ restore'[by] = "waiting"
        BY <3>1 DEF TypeOK, NativeTypes
      <3> QED
        BY <3>1, <3>2 DEF RestoreComesLast, Restorers
    <2> QED
      BY <1>9, <2>3, <2>4, <2>5
  <1>10. CASE ShutdownRestores
    <2>1. /\ restore' = [restore EXCEPT !["shutdown"] = "waiting"]
          /\ UNCHANGED <<runPhase, fanWriteQueue, isShuttingDown>> /\ isShuttingDown
      BY <1>10 DEF ShutdownRestores, RestoreFrame
    <2>2. \A by \in Restorers : \/ by # "shutdown" /\ restore'[by] = restore[by]
                                \/ by = "shutdown" /\ restore'[by] = "waiting"
      BY <2>1 DEF TypeOK, NativeTypes
    <2> QED
      BY <2>1, <2>2 DEF RestoreComesLast, Restorers
  <1>11. ASSUME NEW by \in Restorers, RestoreIssues(by) PROVE RestoreComesLast'
    <2>1. /\ restore[by] = "waiting" /\ fanWriteQueue = <<>> /\ fanWriteQueue' = <<>>
          /\ restore' = [restore EXCEPT ![by] = "calling"]
          /\ UNCHANGED <<runPhase, isShuttingDown>>
      BY <1>11 DEF RestoreIssues, RestoreFrame
    <2>2. \A other \in Restorers : other # by => restore'[other] = restore[other]
      BY <2>1 DEF TypeOK, NativeTypes
    <2> QED
      BY <2>1, <2>2 DEF RestoreComesLast, Restorers
  <1>12. ASSUME NEW by \in Restorers, RestoreCallSucceeds(by) \/ RestoreCallFails(by)
         PROVE  RestoreComesLast'
    <2>1. /\ restore[by] = "calling"
          /\ UNCHANGED <<fanWriteQueue, runPhase, isShuttingDown>>
      BY <1>12, RestoreSettlesFirst, HeadCall DEF RestoreInOrder
    <2>2. \/ restore' = restore
          \/ \E outcome : restore' = [restore EXCEPT ![by] = outcome]
      BY <1>12, RestoreSettlesFirst DEF RestoreSettles
    <2>3. \A other \in Restorers : other # by => restore'[other] = restore[other]
      BY <2>2 DEF TypeOK, NativeTypes
    <2> QED
      BY <2>1, <2>3 DEF RestoreComesLast, Restorers
  <1> QED
    BY <1>3, <1>4, <1>5, <1>6, <1>7, <1>8, <1>9, <1>10, <1>11, <1>12
       DEF Next, FanControlStep, Microtask, NativeCallSettles, SensorAction

\* A restore in progress, or over, finds no write begun.
LEMMA NoWriteBesideRestore ==
    ASSUME TypeOK, OneFanCall, RestoreComesLast, NEW by \in Restorers,
           restore[by] \in {"calling", "ok", "failed"}
    PROVE  fanWriteQueue = <<>> /\ fanStep = 0
  BY DEF RestoreComesLast, OneFanCall, TypeOK, QueueTypes

LEMMA TakeoverIsOwedStep ==
    ASSUME TypeOK, OneFanCall, TakeoverIsOwed, RestoreComesLast, RestoreInOrder, Next
    PROVE  TakeoverIsOwed'
  <1>1. ASSUME UNCHANGED <<fanStep, requiresBiosRestore>>, HeadStays
        PROVE  TakeoverIsOwed'
    BY <1>1 DEF TakeoverIsOwed, HeadStays, OneFanCall
  <1>2. ASSUME UNCHANGED fanWriteQueue PROVE HeadStays
    BY <1>2 DEF HeadStays
  <1>3. CASE QuietAction
    BY <1>1, <1>3, QuietStep DEF outputVars
  <1>4. CASE SensorAction
    BY <1>1, <1>2, <1>4, SensorsApart DEF queueVars, outputVars
  <1>5. CASE ChannelFails \/ FirmwareReverts
    BY <1>1, <1>2, <1>5 DEF ChannelFails, FirmwareReverts, RestoreFrame,
                            queueVars, outputVars
  <1>6. CASE DropFanWrite \/ FanCallCompletes \/ FanCallFails
    BY <1>6 DEF DropFanWrite, FanCallCompletes, FanCallFails, SettleHead,
                TakeoverIsOwed
  <1>7. CASE StartFanWrite
    BY <1>7 DEF StartFanWrite, TakeoverIsOwed, TypeOK, OutputTypes
  <1>8. CASE FanCallContinues
    <2>1. HeadCallBy("fan") /\ UNCHANGED <<fanWriteQueue, requiresBiosRestore>>
      BY <1>8 DEF FanCallContinues, outputVars
    <2> QED
      BY <2>1, FanCallIsCurrent DEF TakeoverIsOwed
  <1>9. ASSUME NEW by \in Restorers, RestoreCallSucceeds(by) \/ RestoreCallFails(by)
        PROVE  TakeoverIsOwed'
    <2>1. restore[by] = "calling" /\ UNCHANGED fanStep
      BY <1>9, RestoreSettlesFirst, HeadCall DEF RestoreInOrder, queueVars
    <2> QED
      BY <2>1, NoWriteBesideRestore DEF TakeoverIsOwed
  <1>10. ASSUME NEW by \in Restorers, RestoreIssues(by) PROVE TakeoverIsOwed'
    BY <1>1, <1>2, <1>10 DEF RestoreIssues, RestoreFrame, queueVars
  <1> QED
    BY <1>3, <1>4, <1>5, <1>6, <1>7, <1>8, <1>9, <1>10
       DEF Next, FanControlStep, Microtask, NativeCallSettles, QuietAction, SensorAction

\* RestoreInOrder for one restore.
InOrder(by) ==
    /\ \A call \in Issued(nativeCalls) : call.by = by =>
        /\ restore[by] = "calling"
        /\ call \in {FirstRestoreCall(by), LastRestoreCall(by)}
    /\ Paired(by, nativeCalls)
    /\ /\ restore[by] = "calling" /\ ~restoreFailed[by]
       /\ FirstRestoreCall(by) \notin Issued(nativeCalls)
       => ~firmware.fixed

\* The calls behind the head that belong to a restore.
LEMMA OthersAreIssued ==
    ASSUME TypeOK, nativeCalls # <<>>, NEW by
    PROVE  (\E i \in 2 .. Len(nativeCalls) : nativeCalls[i].by = by)
             <=> \E call \in Issued(Tail(nativeCalls)) : call.by = by
  <1>1. /\ nativeCalls \in Seq(Calls) /\ Len(nativeCalls) \in Nat
        /\ Len(Tail(nativeCalls)) = Len(nativeCalls) - 1
    BY DEF TypeOK, NativeTypes
  <1>2. ASSUME NEW i \in 2 .. Len(nativeCalls)
        PROVE  nativeCalls[i] \in Issued(Tail(nativeCalls))
    <2>1. i - 1 \in 1 .. Len(Tail(nativeCalls))
          /\ Tail(nativeCalls)[i - 1] = nativeCalls[i]
      BY <1>1
    <2> QED
      BY <2>1 DEF Issued
  <1>3. ASSUME NEW i \in 1 .. Len(Tail(nativeCalls))
        PROVE  /\ i + 1 \in 2 .. Len(nativeCalls)
               /\ nativeCalls[i + 1] = Tail(nativeCalls)[i]
    BY <1>1
  <1> QED
    BY <1>2, <1>3 DEF Issued

\* The head call, tried by the native queue, never fixes the fans for a
\* process that is not writing.
LEMMA HeadCallIsHarmless ==
    ASSUME TypeOK, SensorCallIsKnown, RestoreInOrder, nativeCalls # <<>>,
           Head(nativeCalls).by # "fan",
           NEW fw, fw = firmware \/ fw = After(firmware, Head(nativeCalls))
    PROVE  (fw.fixed => firmware.fixed) /\ (firmware.auto => fw.auto)
  BY HeadCall, OtherCallsAreHarmless DEF TypeOK, NativeTypes

LEMMA RestoreInOrderStep ==
    ASSUME TypeOK, TypeOK', OneWritePerOwner, OneFanCall, SensorCallIsKnown,
           RestoreComesLast, RestoreInOrder, Next
    PROVE  RestoreInOrder'
  <1> SUFFICES ASSUME NEW by \in Restorers PROVE InOrder(by)'
    BY DEF RestoreInOrder, InOrder
  <1>1. /\ InOrder(by) /\ nativeCalls \in Seq(Calls) /\ nativeCalls' \in Seq(Calls)
        /\ firmware \in Firmware
    BY DEF RestoreInOrder, InOrder, TypeOK, NativeTypes
  <1>2. /\ FirstRestoreCall(by) \in Calls /\ LastRestoreCall(by) \in Calls
        /\ FirstRestoreCall(by).by = by /\ LastRestoreCall(by).by = by
        /\ by # "fan" /\ by # "sensor"
    BY RestoreCallsBy
  <1>3. CASE QuietAction
    <2>1. UNCHANGED <<nativeCalls, firmware, restoreFailed>>
      BY <1>3, QuietStep
    <2>2. \/ restore'[by] = restore[by]
          \/ restore[by] = "idle" /\ restore'[by] = "waiting"
      <3>1. CASE RunFails
        <4>1. restore["startup"] = "idle"
          BY <3>1 DEF RunFails, OneWritePerOwner, Busy, Owners, RestoreComesLast
        <4>2. restore' \in {restore, [restore EXCEPT !["startup"] = "waiting"]}
          BY <3>1 DEF RunFails
        <4> QED
          BY <4>1, <4>2 DEF TypeOK, NativeTypes
      <3>2. CASE ShutdownRestores
        BY <3>2 DEF ShutdownRestores, TypeOK, NativeTypes
      <3>3. CASE ~RunFails /\ ~ShutdownRestores
        <4>1. UNCHANGED restore
          <5>1. CASE Decide
            BY <5>1 DEF Decide, DecideAbandon, DecideFixedBlind, DecideFailHot,
                        DecideFixed, DecideDirect, DecideRamp, DecisionFrame,
                        restoreVars
          <5>2. CASE HandleCommand \/ CommandSettles
            BY <5>2 DEF HandleCommand, HandleFixedPercentage, HandleDoFixedSpeed,
                        HandleFanTable, CommandSettles, CommandFrame, restoreVars
          <5>3. CASE ~Decide /\ ~HandleCommand /\ ~CommandSettles
            BY <1>3, <3>3, <5>3
               DEF QuietAction, CycleWriteDone, CycleWriteFailed, SensorReadTimesOut,
                   RunStarts, RunAppliesFirstSpeed, RunEntersLoop, RunStops,
                   ReinitTick, ReinitSettles, StartFanControlShutdown, ResumeFrame,
                   CollectFrame, restoreVars
          <5> QED
            BY <5>1, <5>2, <5>3
        <4> QED
          BY <4>1
      <3> QED
        BY <3>1, <3>2, <3>3
    <2> QED
      BY <1>1, <2>1, <2>2 DEF InOrder
  <1>4. CASE SensorAction
    <2>1. /\ UNCHANGED <<firmware, restore, restoreFailed>>
          /\ Paired(by, nativeCalls')
          /\ \A call \in Calls : call.by # "sensor" =>
                (call \in Issued(nativeCalls') <=> call \in Issued(nativeCalls))
      BY <1>1, <1>4, SensorsApart DEF InOrder, restoreVars
    <2>2. Issued(nativeCalls') \subseteq Calls
      BY <1>1 DEF Issued
    <2> QED
      BY <1>1, <1>2, <2>1, <2>2 DEF InOrder
  <1>5. CASE FirmwareReverts
    <2>1. ~firmware'.fixed
      BY <1>1, <1>5 DEF FirmwareReverts, Firmware
    <2> QED
      BY <1>1, <1>5, <2>1 DEF FirmwareReverts, restoreVars, InOrder
  <1>6. CASE ChannelFails
    <2>1. UNCHANGED <<nativeCalls, restore, restoreFailed>>
      BY <1>6 DEF ChannelFails, restoreVars
    <2>2. \/ firmware' = firmware
          \/ nativeCalls # <<>> /\ firmware' = After(firmware, Head(nativeCalls))
      BY <1>6 DEF ChannelFails, Outcomes
    <2>3. CASE firmware'.fixed => firmware.fixed
      BY <1>1, <2>1, <2>3 DEF InOrder
    <2>4. CASE ~(firmware'.fixed => firmware.fixed)
      <3>1. HeadCallBy("fan")
        BY <2>2, <2>4, HeadCallIsHarmless DEF HeadCallBy
      <3>2. restore[by] # "calling"
        BY <3>1, FanCallIsCurrent DEF RestoreComesLast
      <3> QED
        BY <1>1, <2>1, <3>2 DEF InOrder
    <2> QED
      BY <2>3, <2>4
  <1>7. CASE DropFanWrite
    BY <1>1, <1>7 DEF DropFanWrite, FanFrame, restoreVars, platformVars, InOrder
  <1>8. CASE StartFanWrite
    <2>1. UNCHANGED <<firmware, restore, restoreFailed>>
      BY <1>8 DEF StartFanWrite, FanFrame, restoreVars, platformVars
    <2>2. fanWriteQueue # <<>> /\ 1 \in 1 .. Len(CallsOf(Head(fanWriteQueue)))
      BY <1>8, CallCount DEF StartFanWrite, HeadWaits
    <2>3. PICK call \in Calls : call.by = "fan" /\ nativeCalls' = Append(nativeCalls, call)
      BY <1>8, <2>2, NextFanCall DEF StartFanWrite
    <2>4. /\ Issued(nativeCalls') = Issued(nativeCalls) \cup {call}
          /\ Paired(by, nativeCalls')
      BY <1>1, <1>2, <2>3, IssuedAppend, PairedAppend DEF InOrder
    <2> QED
      BY <1>1, <1>2, <2>1, <2>3, <2>4 DEF InOrder
  <1>9. CASE FanCallContinues \/ FanCallCompletes \/ FanCallFails
    <2>1. HeadCallBy("fan") /\ UNCHANGED restore
      BY <1>9 DEF FanCallContinues, FanCallCompletes, FanCallFails, FanFrame, restoreVars
    <2>2. restore[by] # "calling"
      BY <2>1, FanCallIsCurrent DEF RestoreComesLast
    <2>3. /\ nativeCalls # <<>> /\ Tail(nativeCalls) \in Seq(Calls)
          /\ Issued(Tail(nativeCalls)) \subseteq Issued(nativeCalls)
          /\ Paired(by, Tail(nativeCalls))
      BY <1>1, <2>1, FanCallIsCurrent, IssuedTail, PairedTail DEF InOrder
    <2>4. \/ nativeCalls' = Tail(nativeCalls)
          \/ \E call \in Calls : /\ call.by = "fan"
                                 /\ nativeCalls' = Append(Tail(nativeCalls), call)
      <3>1. CASE FanCallContinues
        <4>1. fanStep + 1 \in 1 .. Len(CallsOf(Head(fanWriteQueue)))
          BY <2>1, <3>1, FanCallIsCurrent, CallCount
             DEF FanCallContinues, OperationEnds, TypeOK, QueueTypes
        <4> QED
          BY <2>1, <3>1, <4>1, FanCallIsCurrent, NextFanCall DEF FanCallContinues
      <3>2. CASE FanCallCompletes \/ FanCallFails
        BY <3>2 DEF FanCallCompletes, FanCallFails
      <3> QED
        BY <1>9, <3>1, <3>2
    <2>5. CASE nativeCalls' = Tail(nativeCalls)
      BY <1>1, <2>1, <2>2, <2>3, <2>5 DEF InOrder
    <2>6. ASSUME NEW call \in Calls, call.by = "fan",
                 nativeCalls' = Append(Tail(nativeCalls), call)
          PROVE  InOrder(by)'
      <3>1. /\ Issued(nativeCalls') = Issued(Tail(nativeCalls)) \cup {call}
            /\ Paired(by, nativeCalls')
        BY <1>2, <2>3, <2>6, IssuedAppend, PairedAppend
      <3> QED
        BY <1>1, <1>2, <2>1, <2>2, <2>3, <2>6, <3>1 DEF InOrder
    <2> QED
      BY <2>4, <2>5, <2>6
  <1>10. ASSUME NEW issuer \in Restorers, RestoreIssues(issuer) PROVE InOrder(by)'
    <2>1. /\ nativeCalls' = nativeCalls \o <<FirstRestoreCall(issuer), LastRestoreCall(issuer)>>
          /\ restore' = [restore EXCEPT ![issuer] = "calling"]
          /\ UNCHANGED <<firmware, restoreFailed>>
      BY <1>10 DEF RestoreIssues, FirstRestoreCall, LastRestoreCall
    <2>2. /\ Issued(nativeCalls') = Issued(nativeCalls)
                \cup {FirstRestoreCall(issuer), LastRestoreCall(issuer)}
          /\ Paired(by, nativeCalls')
      BY <1>1, <2>1, RestoreCallsBy, IssuedPair, PairedPair DEF InOrder
    <2>3. CASE by = issuer
      <3>1. restore'[by] = "calling"
        BY <2>1, <2>3 DEF TypeOK, NativeTypes
      <3> QED
        BY <1>1, <2>2, <2>3, <3>1 DEF InOrder
    <2>4. CASE by # issuer
      <3>1. /\ restore'[by] = restore[by]
            /\ FirstRestoreCall(issuer).by # by /\ LastRestoreCall(issuer).by # by
        BY <2>1, <2>4, RestoreCallsBy DEF TypeOK, NativeTypes
      <3> QED
        BY <1>1, <2>1, <2>2, <3>1 DEF InOrder
    <2> QED
      BY <2>3, <2>4
  <1>11. ASSUME NEW issuer \in Restorers,
                RestoreCallSucceeds(issuer) \/ RestoreCallFails(issuer)
         PROVE  InOrder(by)'
    <2> DEFINE others == \E i \in 2 .. Len(nativeCalls) : nativeCalls[i].by = issuer
    <2>1. /\ nativeCalls # <<>> /\ Head(nativeCalls).by = issuer
          /\ nativeCalls' = Tail(nativeCalls)
      BY <1>11, RestoreSettlesFirst
    <2>2. PICK failed \in BOOLEAN :
            /\ RestoreSettles(issuer, failed)
            /\ ~failed => /\ firmware' = After(firmware, Head(nativeCalls))
                          /\ ~restoreFailed[issuer]
      BY <1>11 DEF RestoreCallSucceeds, RestoreCallFails, FailedSoFar, TypeOK, NativeTypes
    <2>3. /\ Issued(nativeCalls) = Issued(nativeCalls') \cup {Head(nativeCalls)}
          /\ Paired(by, nativeCalls')
      BY <1>1, <2>1, CallSettled DEF InOrder
    <2>4. firmware'.fixed => firmware.fixed
      <3>1. firmware' = firmware \/ firmware' = After(firmware, Head(nativeCalls))
        BY <1>11 DEF RestoreCallSucceeds, RestoreCallFails, Outcomes
      <3> QED
        BY <2>1, <3>1, HeadCallIsHarmless, RestoreCallsBy
    <2>5. /\ restore' = IF others THEN restore
                        ELSE [restore EXCEPT ![issuer] = IF failed THEN "failed" ELSE "ok"]
          /\ restoreFailed' = [restoreFailed EXCEPT ![issuer] = failed]
      BY <2>2 DEF RestoreSettles
    <2>6. others <=> \E call \in Issued(nativeCalls') : call.by = issuer
      BY <2>1, OthersAreIssued
    <2> HIDE DEF others
    <2>7. CASE by # issuer
      <3>1. restore'[by] = restore[by] /\ restoreFailed'[by] = restoreFailed[by]
        BY <2>5, <2>7 DEF TypeOK, NativeTypes
      <3> QED
        BY <1>1, <1>2, <2>1, <2>3, <2>4, <2>7, <3>1 DEF InOrder
    <2>8. CASE by = issuer /\ ~others
      <3>1. restore'[by] # "calling" /\ \A call \in Issued(nativeCalls') : call.by # by
        BY <2>5, <2>6, <2>8 DEF TypeOK, NativeTypes
      <3> QED
        BY <2>3, <3>1 DEF InOrder
    <2>9. CASE by = issuer /\ others
      <3>1. /\ restore'[by] = restore[by] /\ restoreFailed'[by] = failed
            /\ Head(nativeCalls) \in {FirstRestoreCall(by), LastRestoreCall(by)}
            /\ restore[by] = "calling"
        BY <1>1, <2>1, <2>3, <2>5, <2>9 DEF InOrder, TypeOK, NativeTypes
      <3>2. ASSUME ~failed, FirstRestoreCall(by) \notin Issued(nativeCalls')
            PROVE  ~firmware'.fixed
        <4>1. CASE Head(nativeCalls) = FirstRestoreCall(by)
          <5>1. Head(nativeCalls).method = "SetFixedFanStatus" /\ Head(nativeCalls).data = 0
            BY <4>1 DEF FirstRestoreCall, By, RestoreCalls
          <5> QED
            BY <1>1, <2>2, <3>2, <5>1 DEF After, Firmware
        <4>2. CASE Head(nativeCalls) # FirstRestoreCall(by)
          BY <1>1, <2>2, <2>3, <2>4, <2>9, <3>1, <3>2, <4>2 DEF InOrder
        <4> QED
          BY <4>1, <4>2
      <3> QED
        BY <1>1, <2>3, <3>1, <3>2 DEF InOrder
    <2> QED
      BY <2>7, <2>8, <2>9
  <1> QED
    BY <1>3, <1>4, <1>5, <1>6, <1>7, <1>8, <1>9, <1>10, <1>11
       DEF Next, FanControlStep, Microtask, NativeCallSettles, QuietAction, SensorAction

\* The fans are in manual mode only while a handoff is owed, and a finished
\* handoff finds nobody left to take them back.
LEMMA HandoffStep ==
    ASSUME TypeOK, OneFanCall, SensorCallIsKnown, TakeoverIsOwed, RestoreComesLast,
           RestoreInOrder, ManualModeIsRemembered, HandoffIsFinal, Next
    PROVE  ManualModeIsRemembered' /\ HandoffIsFinal'
  <1> DEFINE BiosKept == BiosInControl => BiosInControl'
             NotFinished == restore'["shutdown"] = "ok" => restore["shutdown"] = "ok"
             ByCall(fw) == fw = firmware \/ fw = After(firmware, Head(nativeCalls))
  <1>1. firmware \in Firmware /\ "shutdown" \in Restorers
    BY DEF TypeOK, NativeTypes, Restorers
  <1>2. ASSUME BiosKept, UNCHANGED requiresBiosRestore, NotFinished,
               fanStep = 0 => fanStep' = 0
        PROVE  ManualModeIsRemembered' /\ HandoffIsFinal'
    BY <1>2 DEF ManualModeIsRemembered, HandoffIsFinal
  <1>3. ASSUME UNCHANGED firmware PROVE BiosKept
    BY <1>3 DEF BiosInControl
  <1>4. ASSUME nativeCalls # <<>>, Head(nativeCalls).by # "fan", ByCall(firmware')
        PROVE  BiosKept
    BY <1>4, HeadCallIsHarmless DEF BiosInControl
  \* What a fan call does, whether or not it then fails.
  <1>5. ASSUME HeadCallBy("fan"), ByCall(firmware'), UNCHANGED <<requiresBiosRestore, restore>>
        PROVE  ManualModeIsRemembered' /\ HandoffIsFinal'
    <2>1. /\ fanWriteQueue # <<>> /\ fanStep > 0
          /\ Head(fanWriteQueue) \in FanOps
          /\ fanStep \in 1 .. Len(CallsOf(Head(fanWriteQueue)))
          /\ Head(nativeCalls) = By("fan", CallsOf(Head(fanWriteQueue))[fanStep])
      BY <1>5, FanCallIsCurrent, HeadOp
    <2>2. restore["shutdown"] # "ok"
      BY <1>1, <2>1 DEF RestoreComesLast
    <2>3. CASE Head(fanWriteQueue).kind = "init"
      BY <1>5, <2>1, <2>2, <2>3 DEF TakeoverIsOwed, ManualModeIsRemembered, HandoffIsFinal
    <2>4. CASE Head(fanWriteQueue).kind # "init"
      <3>1. firmware'.auto = firmware.auto /\ firmware'.fixed = firmware.fixed
        BY <1>1, <1>5, <2>1, <2>4, FanCallEffect
      <3> QED
        BY <1>5, <2>2, <3>1 DEF ManualModeIsRemembered, HandoffIsFinal, BiosInControl
    <2> QED
      BY <2>3, <2>4
  <1>6. CASE QuietAction
    <2>1. UNCHANGED <<firmware, requiresBiosRestore, fanStep>>
      BY <1>6, QuietStep DEF outputVars
    <2>2. NotFinished
      <3>1. CASE Decide
        BY <3>1 DEF Decide, DecideAbandon, DecideFixedBlind, DecideFailHot,
                    DecideFixed, DecideDirect, DecideRamp, DecisionFrame, restoreVars
      <3>2. CASE HandleCommand \/ CommandSettles
        BY <3>2 DEF HandleCommand, HandleFixedPercentage, HandleDoFixedSpeed,
                    HandleFanTable, CommandSettles, CommandFrame, restoreVars
      <3>3. CASE RunFails \/ ShutdownRestores
        BY <1>1, <3>3 DEF RunFails, ShutdownRestores, TypeOK, NativeTypes
      <3>4. CASE ~Decide /\ ~HandleCommand /\ ~CommandSettles
                 /\ ~RunFails /\ ~ShutdownRestores
        BY <1>6, <3>4
           DEF QuietAction, CycleWriteDone, CycleWriteFailed, SensorReadTimesOut,
               RunStarts, RunAppliesFirstSpeed, RunEntersLoop, RunStops,
               ReinitTick, ReinitSettles, StartFanControlShutdown, ResumeFrame,
               CollectFrame, restoreVars
      <3> QED
        BY <3>1, <3>2, <3>3, <3>4
    <2> QED
      BY <1>2, <1>3, <2>1, <2>2
  <1>7. CASE SensorAction
    BY <1>2, <1>3, <1>7, SensorsApart DEF queueVars, outputVars, restoreVars
  <1>8. CASE FirmwareReverts
    <2>1. BiosInControl'
      BY <1>1, <1>8 DEF FirmwareReverts, Firmware, BiosInControl
    <2> QED
      BY <1>2, <1>8, <2>1 DEF FirmwareReverts, RestoreFrame, restoreVars, queueVars
  <1>9. CASE ChannelFails
    <2>1. /\ firmware' = firmware \/ (nativeCalls # <<>> /\ ByCall(firmware'))
          /\ UNCHANGED <<requiresBiosRestore, restore, fanStep>>
      BY <1>9 DEF ChannelFails, Outcomes, outputVars, restoreVars, queueVars
    <2> QED
      BY <1>2, <1>3, <1>4, <1>5, <2>1 DEF HeadCallBy
  <1>10. CASE DropFanWrite
    BY <1>2, <1>3, <1>10 DEF DropFanWrite, SettleHead, FanFrame, restoreVars,
                             outputVars, platformVars
  <1>11. CASE StartFanWrite
    <2>1. /\ UNCHANGED <<firmware, restore>> /\ fanWriteQueue # <<>>
          /\ requiresBiosRestore => requiresBiosRestore'
      BY <1>11 DEF StartFanWrite, HeadWaits, FanFrame, restoreVars, platformVars
    <2> QED
      BY <1>1, <2>1 DEF ManualModeIsRemembered, HandoffIsFinal, RestoreComesLast,
                        BiosInControl
  <1>12. CASE FanCallContinues \/ FanCallCompletes \/ FanCallFails
    <2>1. /\ HeadCallBy("fan") /\ ByCall(firmware')
          /\ UNCHANGED <<requiresBiosRestore, restore>>
      BY <1>12 DEF FanCallContinues, FanCallCompletes, FanCallFails, FanFrame,
                   Outcomes, outputVars, restoreVars
    <2> QED
      BY <1>5, <2>1
  <1>13. ASSUME NEW by \in Restorers, RestoreIssues(by)
         PROVE  ManualModeIsRemembered' /\ HandoffIsFinal'
    <2>1. UNCHANGED <<firmware, requiresBiosRestore, fanStep>>
      BY <1>13 DEF RestoreIssues, RestoreFrame, queueVars
    <2>2. NotFinished
      BY <1>13 DEF RestoreIssues, TypeOK, NativeTypes
    <2> QED
      BY <1>2, <1>3, <2>1, <2>2
  <1>14. ASSUME NEW by \in Restorers, RestoreCallSucceeds(by) \/ RestoreCallFails(by)
         PROVE  ManualModeIsRemembered' /\ HandoffIsFinal'
    <2> DEFINE others == \E i \in 2 .. Len(nativeCalls) : nativeCalls[i].by = by
    <2>1. /\ nativeCalls # <<>> /\ Head(nativeCalls).by = by
          /\ nativeCalls' = Tail(nativeCalls) /\ UNCHANGED queueVars
      BY <1>14, RestoreSettlesFirst
    <2>2. PICK failed \in BOOLEAN :
            /\ RestoreSettles(by, failed)
            /\ ~failed => /\ firmware' = After(firmware, Head(nativeCalls))
                          /\ ~restoreFailed[by]
      BY <1>14 DEF RestoreCallSucceeds, RestoreCallFails, FailedSoFar, TypeOK, NativeTypes
    <2>3. BiosKept
      <3>1. ByCall(firmware')
        BY <1>14 DEF RestoreCallSucceeds, RestoreCallFails, Outcomes
      <3> QED
        BY <1>4, <2>1, <3>1, RestoreCallsBy
    <2>4. /\ restore' = IF others THEN restore
                        ELSE [restore EXCEPT ![by] = IF failed THEN "failed" ELSE "ok"]
          /\ requiresBiosRestore' = (requiresBiosRestore /\ (others \/ failed))
      BY <2>2 DEF RestoreSettles, StillOwed
    <2>5. /\ restore[by] = "calling" /\ Paired(by, nativeCalls)
          /\ Head(nativeCalls) \in {FirstRestoreCall(by), LastRestoreCall(by)}
          /\ nativeCalls \in Seq(Calls)
      BY <2>1, HeadCall DEF RestoreInOrder, TypeOK, NativeTypes
    <2>6. fanStep = 0 /\ fanStep' = 0
      BY <2>1, <2>5, NoWriteBesideRestore DEF queueVars
    <2>7. ASSUME ~others, ~failed PROVE BiosInControl'
      <3>1. Head(nativeCalls) # FirstRestoreCall(by)
        <4>1. SUFFICES ASSUME Head(nativeCalls) = FirstRestoreCall(by) PROVE FALSE
          OBVIOUS
        <4>2. 1 \in DOMAIN nativeCalls /\ nativeCalls[1] = FirstRestoreCall(by)
          BY <2>1, <2>5, <4>1
        <4>3. 2 \in DOMAIN nativeCalls /\ nativeCalls[2] = LastRestoreCall(by)
          BY <2>5, <4>2 DEF Paired
        <4>4. 2 \in 2 .. Len(nativeCalls) /\ nativeCalls[2] = LastRestoreCall(by)
          BY <2>5, <4>3
        <4> QED
          BY <2>7, <4>4, RestoreCallsBy
      <3>2. FirstRestoreCall(by) \notin Issued(nativeCalls)
        <4>1. \A call \in Issued(Tail(nativeCalls)) : call.by # by
          BY <2>1, <2>7, OthersAreIssued
        <4> QED
          BY <2>1, <2>5, <3>1, <4>1, IssuedTail, RestoreCallsBy
      <3>3. ~firmware.fixed
        BY <2>2, <2>5, <2>7, <3>2 DEF RestoreInOrder
      <3>4. Head(nativeCalls).method = "SetAutoFanStatus" /\ Head(nativeCalls).data = 1
        BY <2>5, <3>1 DEF LastRestoreCall, By, RestoreCalls
      <3> QED
        BY <1>1, <2>2, <2>7, <3>3, <3>4 DEF After, Firmware, BiosInControl
    <2> HIDE DEF others
    <2>8. restore'["shutdown"] = "ok" =>
            restore["shutdown"] = "ok" \/ (by = "shutdown" /\ ~others /\ ~failed)
      BY <1>1, <2>4, <2>5 DEF TypeOK, NativeTypes
    <2>9. ManualModeIsRemembered'
      BY <2>3, <2>4, <2>7 DEF ManualModeIsRemembered
    <2>10. HandoffIsFinal'
      BY <2>3, <2>4, <2>6, <2>7, <2>8 DEF HandoffIsFinal
    <2> QED
      BY <2>9, <2>10
  <1> QED
    BY <1>6, <1>7, <1>8, <1>9, <1>10, <1>11, <1>12, <1>13, <1>14
       DEF Next, FanControlStep, Microtask, NativeCallSettles, QuietAction, SensorAction

-----------------------------------------------------------------------------
(* The inductive invariant *)

LEMMA InitInv == Init => Inv
  <1> SUFFICES ASSUME Init PROVE Inv
    OBVIOUS
  <1> USE DEF Init
  <1>1. /\ fanWriteQueue = <<>> /\ Len(fanWriteQueue) = 0
        /\ nativeCalls = <<>> /\ Len(nativeCalls) = 0 /\ Issued(nativeCalls) = {}
    BY DEF Issued
  <1>2. SettingTypes /\ RunTypes
    BY PercentagesAssumption DEF SettingTypes, RunTypes
  <1>3. QueueTypes /\ OutputTypes
    <2>1. settled \in [Owners -> Outcome]
      BY DEF Outcome
    <2>2. fanWriteQueue \in Seq(FanOps) /\ fanStep \in 0 .. 4
      BY <1>1
    <2> QED
      BY <2>1, <2>2 DEF QueueTypes, OutputTypes
  <1>4. CycleTypes /\ RampTypes
    BY DEF CycleTypes, RampTypes
  <1>5. NativeTypes
    <2>1. firmware \in Firmware
      BY DEF Firmware, Duty
    <2> QED
      BY <2>1, BoundsAssumption DEF NativeTypes, Restorers
  <1>6. OneWritePerOwner /\ CallersBelongToTheRun
    BY <1>1 DEF OneWritePerOwner, CallersBelongToTheRun, InQueue, Owners
  <1>7. OneFanCall /\ SensorCallIsKnown /\ OneSensorCall
    BY <1>1 DEF OneFanCall, SensorCallIsKnown, OneSensorCall, Alone
  <1>8. HalfWritten /\ ConfirmedSpeedIsReal /\ TakeoverIsOwed
    BY DEF HalfWritten, ConfirmedSpeedIsReal, TakeoverIsOwed, WritingSpeed
  <1>9. RestoreComesLast /\ RestoreInOrder
    BY <1>1 DEF RestoreComesLast, RestoreInOrder, Paired, Restorers
  <1>10. ManualModeIsRemembered /\ HandoffIsFinal
    BY DEF ManualModeIsRemembered, HandoffIsFinal, BiosInControl, Restorers
  <1> QED
    BY <1>2, <1>3, <1>4, <1>5, <1>6, <1>7, <1>8, <1>9, <1>10 DEF Inv, TypeOK

LEMMA NextInv == Inv /\ Next => Inv'
  <1> SUFFICES ASSUME Inv, Next PROVE Inv'
    OBVIOUS
  <1> USE DEF Inv
  <1>1. TypeOK'
    BY TypeStep
  <1>2. OneWritePerOwner'
    BY QueueStep
  <1>3. CallersBelongToTheRun'
    BY CallersStep
  <1>4. OneFanCall'
    BY OneFanCallStep
  <1>5. SensorCallIsKnown' /\ OneSensorCall'
    BY SensorStep
  <1>6. HalfWritten' /\ ConfirmedSpeedIsReal'
    BY SpeedStep
  <1>7. TakeoverIsOwed'
    BY TakeoverIsOwedStep
  <1>8. RestoreComesLast'
    BY RestoreComesLastStep
  <1>9. RestoreInOrder'
    BY <1>1, RestoreInOrderStep
  <1>10. ManualModeIsRemembered' /\ HandoffIsFinal'
    BY HandoffStep
  <1> QED
    BY <1>1, <1>2, <1>3, <1>4, <1>5, <1>6, <1>7, <1>8, <1>9, <1>10

LEMMA StutterInv == Inv /\ UNCHANGED vars => Inv'
  <1> SUFFICES ASSUME Inv, UNCHANGED vars PROVE Inv'
    OBVIOUS
  <1> USE DEF vars, serverVars, settingVars, manualVars, runVars, queueVars,
              outputVars, loopVars, cycleVars, collectVars, rampVars, restoreVars,
              platformVars, boundVars
  <1>1. TypeOK'
    <2>1. (SettingTypes /\ RunTypes /\ QueueTypes /\ OutputTypes)'
      BY DEF Inv, TypeOK, SettingTypes, RunTypes, QueueTypes, OutputTypes
    <2>2. (CycleTypes /\ RampTypes /\ NativeTypes)'
      BY DEF Inv, TypeOK, CycleTypes, RampTypes, NativeTypes
    <2> QED
      BY <2>1, <2>2 DEF TypeOK
  <1>2. OneWritePerOwner' /\ CallersBelongToTheRun'
    BY DEF Inv, OneWritePerOwner, CallersBelongToTheRun, InQueue, Busy
  <1>3. OneFanCall' /\ SensorCallIsKnown' /\ OneSensorCall'
    BY DEF Inv, OneFanCall, SensorCallIsKnown, OneSensorCall
  <1>4. HalfWritten' /\ ConfirmedSpeedIsReal' /\ TakeoverIsOwed'
    BY DEF Inv, HalfWritten, ConfirmedSpeedIsReal, TakeoverIsOwed, WritingSpeed, FansAt
  <1>5. RestoreComesLast' /\ RestoreInOrder'
    BY DEF Inv, RestoreComesLast, RestoreInOrder
  <1>6. ManualModeIsRemembered' /\ HandoffIsFinal'
    BY DEF Inv, ManualModeIsRemembered, HandoffIsFinal, BiosInControl
  <1> QED
    BY <1>1, <1>2, <1>3, <1>4, <1>5, <1>6 DEF Inv

\* Inv holds in every reachable state of the fan controller, for any curves,
\* measurements, cycle counts and numbers of commands and faults.
THEOREM InvHolds == Spec => []Inv
  <1>1. Inv /\ [Next]_vars => Inv'
    BY NextInv, StutterInv
  <1> QED
    BY <1>1, InitInv, PTL DEF Spec

\* Every variable keeps its type; the ramp counters and the count of pending
\* manual writes never leave the natural numbers.
THEOREM TypeCorrect == Spec => []TypeOK
  <1>1. Inv => TypeOK
    BY DEF Inv
  <1> QED
    BY <1>1, InvHolds, PTL

\* A percentage in appliedFanPercentage is what both fans do: no failed,
\* superseded or interrupted write of src/server/fan-control/index.ts leaves a
\* confirmed speed behind that the firmware does not have.
THEOREM ConfirmedSpeed == Spec => []ConfirmedSpeedIsReal
  <1>1. Inv => ConfirmedSpeedIsReal
    BY DEF Inv
  <1> QED
    BY <1>1, InvHolds, PTL

\* Sensor reads that outlive their deadline never pile up in the native queue.
THEOREM SensorReadsDoNotPileUp == Spec => []OneSensorCall
  <1>1. Inv => OneSensorCall
    BY DEF Inv
  <1> QED
    BY <1>1, InvHolds, PTL

\* The process never holds the fans in manual mode without remembering that
\* the BIOS is to get them back.
THEOREM ManualModeRemembered == Spec => []ManualModeIsRemembered
  <1>1. Inv => ManualModeIsRemembered
    BY DEF Inv
  <1> QED
    BY <1>1, InvHolds, PTL

\* After a successful handoff at shutdown the BIOS keeps the fans.
THEOREM HandoffFinal == Spec => []HandoffIsFinal
  <1>1. Inv => HandoffIsFinal
    BY DEF Inv
  <1> QED
    BY <1>1, InvHolds, PTL

\* The handoff is neither forgotten nor undone.
THEOREM HandoffKept == Spec => []HandoffIsKept
  BY ManualModeRemembered, HandoffFinal, PTL DEF HandoffIsKept

\* Once shutdown has begun the native queue only drains, but for the calls of
\* the handoff: no admitted write, cycle or reassertion issues another.
THEOREM ShutdownOnlyRestores == Spec => ShutdownIssuesOnlyRestore
  <1> DEFINE Drains == nativeCalls # <<>> /\ nativeCalls' = Tail(nativeCalls)
             Restores == \E by \in Restorers :
                nativeCalls' = nativeCalls \o <<By(by, RestoreCalls[1]),
                                                By(by, RestoreCalls[2])>>
             Goal == isShuttingDown /\ nativeCalls' # nativeCalls => Drains \/ Restores
  <1>1. ASSUME Inv, Next PROVE Goal
    <2> SUFFICES ASSUME isShuttingDown, nativeCalls' # nativeCalls
                 PROVE  Drains \/ Restores
      OBVIOUS
    <2>1. CASE QuietAction
      BY <1>1, <2>1, QuietStep DEF Inv
    <2>2. CASE SensorAction
      BY <2>2 DEF SensorAction, StartCycle, SensorAnswers, SensorFails,
                  SensorAnswersLate, SampleSleepEnds, HeadCallBy
    <2>3. CASE ChannelFails \/ FirmwareReverts \/ DropFanWrite \/ StartFanWrite
      BY <2>3 DEF ChannelFails, FirmwareReverts, DropFanWrite, StartFanWrite
    <2>4. CASE FanCallContinues \/ FanCallCompletes \/ FanCallFails
      BY <2>4 DEF FanCallContinues, FanCallCompletes, FanCallFails, OperationEnds,
                  HeadCallBy
    <2>5. ASSUME NEW by \in Restorers, RestoreCallSucceeds(by) \/ RestoreCallFails(by)
          PROVE  Drains
      BY <2>5, RestoreSettlesFirst
    <2>6. ASSUME NEW by \in Restorers, RestoreIssues(by) PROVE Restores
      BY <2>6 DEF RestoreIssues
    <2> QED
      BY <1>1, <2>1, <2>2, <2>3, <2>4, <2>5, <2>6
         DEF Next, FanControlStep, Microtask, NativeCallSettles, QuietAction, SensorAction
  <1>2. [Next]_vars /\ Inv => [Goal]_vars
    BY <1>1
  <1> QED
    BY <1>2, InvHolds, PTL DEF Spec, ShutdownIssuesOnlyRestore

-----------------------------------------------------------------------------
(* The refinement of FanHandoff *)

\* Whatever becomes of a call that is not a fan write's, the BIOS does not
\* lose the fans to it.
LEMMA OthersOnlyYield ==
    ASSUME Inv, nativeCalls # <<>>, Head(nativeCalls).by # "fan",
           firmware' = firmware \/ firmware' = After(firmware, Head(nativeCalls))
    PROVE  BiosInControl => BiosInControl'
  BY HeadCallIsHarmless DEF Inv, BiosInControl

\* A step that may only give the fans back yields, or stutters.
LEMMA OnlyYields ==
    ASSUME BiosInControl => BiosInControl',
           UNCHANGED <<requiresBiosRestore, isShuttingDown, ShutdownHandoff>>
    PROVE  [Handoff!Next]_(Handoff!vars)
  <1>1. (~BiosInControl)' = FALSE \/ (~BiosInControl)' = (~BiosInControl)
    BY DEF BiosInControl
  <1>2. CASE (~BiosInControl)' = FALSE
    BY <1>2 DEF Handoff!Next, Handoff!Yield
  <1>3. CASE (~BiosInControl)' = (~BiosInControl)
    BY <1>3 DEF Handoff!vars
  <1> QED
    BY <1>1, <1>2, <1>3

\* A fan call takes the fans only for a takeover, which is owed, and before
\* the handoff is over.
LEMMA FanCallTakes ==
    ASSUME Inv, HeadCallBy("fan"),
           firmware' = firmware \/ firmware' = After(firmware, Head(nativeCalls)),
           UNCHANGED <<requiresBiosRestore, isShuttingDown, restore>>
    PROVE  [Handoff!Next]_(Handoff!vars)
  <1> USE DEF Inv
  <1>1. /\ firmware \in Firmware
        /\ fanWriteQueue # <<>> /\ fanStep > 0
        /\ Head(fanWriteQueue) \in FanOps
        /\ fanStep \in 1 .. Len(CallsOf(Head(fanWriteQueue)))
        /\ Head(nativeCalls) = By("fan", CallsOf(Head(fanWriteQueue))[fanStep])
    BY FanCallIsCurrent, HeadOp DEF TypeOK, NativeTypes
  <1>2. ShutdownHandoff \in {"none", "pending"} /\ UNCHANGED ShutdownHandoff
    BY <1>1 DEF RestoreComesLast, Restorers, ShutdownHandoff
  <1>3. CASE Head(fanWriteQueue).kind # "init"
    <2>1. UNCHANGED BiosInControl
      BY <1>1, <1>3, FanCallEffect DEF BiosInControl
    <2> QED
      BY <1>2, <2>1, OnlyYields
  <1>4. CASE Head(fanWriteQueue).kind = "init" /\ BiosInControl'
    BY <1>2, <1>4, OnlyYields
  <1>5. CASE Head(fanWriteQueue).kind = "init" /\ ~BiosInControl'
    <2>1. requiresBiosRestore
      BY <1>1, <1>5 DEF TakeoverIsOwed
    <2>2. (~BiosInControl)' = TRUE
      BY <1>5
    <2> QED
      BY <1>2, <2>1, <2>2 DEF Handoff!Next, Handoff!Take
  <1> QED
    BY <1>3, <1>4, <1>5

\* A restore call gives the fans back; the last of a restore without failure
\* ends the debt, and the last of a failed one gives up.
LEMMA RestoreCallSettlesHandoff ==
    ASSUME Inv, Inv', NEW by \in Restorers,
           RestoreCallSucceeds(by) \/ RestoreCallFails(by)
    PROVE  [Handoff!Next]_(Handoff!vars)
  <1> DEFINE others == \E i \in 2 .. Len(nativeCalls) : nativeCalls[i].by = by
  <1>1. /\ nativeCalls # <<>> /\ Head(nativeCalls).by = by
        /\ UNCHANGED isShuttingDown
    BY RestoreSettlesFirst
  <1>2. BiosInControl => BiosInControl'
    <2>1. firmware' = firmware \/ firmware' = After(firmware, Head(nativeCalls))
      BY DEF RestoreCallSucceeds, RestoreCallFails, Outcomes
    <2> QED
      BY <1>1, <2>1, OthersOnlyYield, RestoreCallsBy
  <1>3. /\ restore[by] = "calling"
        /\ restore \in [Restorers -> {"idle", "waiting", "calling", "ok", "failed"}]
    BY <1>1, HeadCall DEF Inv, RestoreInOrder, TypeOK, NativeTypes
  <1>4. PICK failed \in BOOLEAN :
          /\ restore' = IF others THEN restore
                        ELSE [restore EXCEPT ![by] = IF failed THEN "failed" ELSE "ok"]
          /\ requiresBiosRestore' = (requiresBiosRestore /\ (others \/ failed))
    <2>1. PICK failed \in BOOLEAN : RestoreSettles(by, failed)
      BY DEF RestoreCallSucceeds, RestoreCallFails, FailedSoFar, Inv, TypeOK, NativeTypes
    <2> QED
      BY <2>1 DEF RestoreSettles, StillOwed
  <1> HIDE DEF others
  <1>5. requiresBiosRestore \in BOOLEAN
    BY DEF Inv, TypeOK, OutputTypes
  <1>6. CASE others
    <2>1. UNCHANGED <<restore, requiresBiosRestore>>
      BY <1>4, <1>5, <1>6
    <2> QED
      BY <1>1, <1>2, <2>1, OnlyYields DEF ShutdownHandoff
  <1>7. CASE ~others /\ by = "startup"
    <2>1. UNCHANGED ShutdownHandoff
      BY <1>3, <1>4, <1>7 DEF ShutdownHandoff
    <2>2. CASE failed
      <3>1. UNCHANGED requiresBiosRestore
        BY <1>4, <1>5, <2>2
      <3> QED
        BY <1>1, <1>2, <2>1, <3>1, OnlyYields
    <2>3. CASE ~failed
      <3>1. requiresBiosRestore' = FALSE
        BY <1>4, <1>7, <2>3
      <3>2. (~BiosInControl)' = FALSE
        BY <3>1 DEF Inv, ManualModeIsRemembered
      <3> QED
        BY <1>1, <2>1, <3>1, <3>2 DEF Handoff!Next, Handoff!Settle
    <2> QED
      BY <2>2, <2>3
  <1>8. CASE ~others /\ by = "shutdown"
    <2>1. ShutdownHandoff = "pending" /\ "shutdown" \in Restorers
      BY <1>3, <1>8 DEF ShutdownHandoff, Restorers
    <2>2. CASE failed
      <3>1. UNCHANGED requiresBiosRestore
        BY <1>4, <1>5, <2>2
      <3>2. ShutdownHandoff' = "failed"
        BY <1>3, <1>4, <1>8, <2>1, <2>2 DEF ShutdownHandoff
      <3>3. (~BiosInControl)' \in {~BiosInControl, FALSE}
        BY <1>2 DEF BiosInControl
      <3> QED
        BY <1>1, <2>1, <3>1, <3>2, <3>3 DEF Handoff!Next, Handoff!GiveUp
    <2>3. CASE ~failed
      <3>1. requiresBiosRestore' = FALSE
        BY <1>4, <1>8, <2>3
      <3>2. ShutdownHandoff' = "done"
        BY <1>3, <1>4, <1>8, <2>1, <2>3 DEF ShutdownHandoff
      <3>3. (~BiosInControl)' = FALSE
        BY <3>1 DEF Inv, ManualModeIsRemembered
      <3> QED
        BY <1>1, <2>1, <3>1, <3>2, <3>3 DEF Handoff!Next, Handoff!Settle
    <2> QED
      BY <2>2, <2>3
  <1> QED
    BY <1>6, <1>7, <1>8 DEF Restorers

LEMMA HandoffRefines == Inv /\ Inv' /\ [Next]_vars => [Handoff!Next]_(Handoff!vars)
  <1> SUFFICES ASSUME Inv, Inv', [Next]_vars PROVE [Handoff!Next]_(Handoff!vars)
    OBVIOUS
  <1>1. ASSUME UNCHANGED <<firmware, requiresBiosRestore, isShuttingDown, restore>>
        PROVE  [Handoff!Next]_(Handoff!vars)
    BY <1>1, OnlyYields DEF BiosInControl, ShutdownHandoff
  <1>2. CASE UNCHANGED vars
    BY <1>1, <1>2 DEF vars, serverVars, outputVars, restoreVars, platformVars
  <1>3. CASE QuietAction
    <2>1. UNCHANGED <<firmware, requiresBiosRestore>>
      BY <1>3, QuietStep DEF Inv, outputVars
    <2>2. CASE StartFanControlShutdown
      <3>1. isShuttingDown' = TRUE /\ UNCHANGED <<firmware, requiresBiosRestore, restore>>
        BY <2>1, <2>2 DEF StartFanControlShutdown, restoreVars
      <3> QED
        BY <3>1 DEF Handoff!Next, Handoff!Stop, BiosInControl, ShutdownHandoff
    <2>3. CASE ShutdownRestores
      <3>1. /\ isShuttingDown /\ UNCHANGED isShuttingDown
            /\ restore["shutdown"] = "idle" /\ restore'["shutdown"] = "waiting"
        BY <2>3 DEF ShutdownRestores, Restorers, Inv, TypeOK, NativeTypes
      <3>2. ShutdownHandoff = "none" /\ ShutdownHandoff' = "pending"
        BY <3>1 DEF ShutdownHandoff
      <3> QED
        BY <2>1, <3>1, <3>2 DEF Handoff!Next, Handoff!Attempt, BiosInControl
    <2>4. CASE RunFails
      <3>1. /\ restore' \in {restore, [restore EXCEPT !["startup"] = "waiting"]}
            /\ UNCHANGED isShuttingDown
        BY <2>4 DEF RunFails, RunFrame
      <3>2. UNCHANGED ShutdownHandoff
        BY <3>1 DEF ShutdownHandoff, Restorers, Inv, TypeOK, NativeTypes
      <3> QED
        BY <2>1, <3>1, <3>2, OnlyYields DEF BiosInControl
    <2>5. CASE Decide
      <3>1. UNCHANGED <<isShuttingDown, restore>>
        BY <2>5 DEF Decide, DecideAbandon, DecideFixedBlind, DecideFailHot,
                    DecideFixed, DecideDirect, DecideRamp, DecisionFrame, restoreVars,
                    serverVars
      <3> QED
        BY <1>1, <2>1, <3>1
    <2>6. CASE HandleCommand \/ CommandSettles
      <3>1. UNCHANGED <<isShuttingDown, restore>>
        BY <2>6 DEF HandleCommand, HandleFixedPercentage, HandleDoFixedSpeed,
                    HandleFanTable, CommandSettles, CommandFrame, restoreVars
      <3> QED
        BY <1>1, <2>1, <3>1
    <2>7. CASE \/ CycleWriteDone \/ CycleWriteFailed \/ SensorReadTimesOut
               \/ RunStarts \/ RunAppliesFirstSpeed \/ RunEntersLoop \/ RunStops
               \/ ReinitTick \/ ReinitSettles
      <3>1. UNCHANGED <<isShuttingDown, restore>>
        BY <2>7 DEF CycleWriteDone, CycleWriteFailed, SensorReadTimesOut,
                    RunStarts, RunAppliesFirstSpeed, RunEntersLoop, RunStops,
                    ReinitTick, ReinitSettles, ResumeFrame, RunFrame,
                    CollectFrame, restoreVars, serverVars
      <3> QED
        BY <1>1, <2>1, <3>1
    <2> QED
      BY <1>3, <2>2, <2>3, <2>4, <2>5, <2>6, <2>7 DEF QuietAction
  <1>4. CASE SensorAction
    BY <1>1, <1>4, SensorsApart DEF Inv, outputVars, restoreVars
  <1>5. CASE FirmwareReverts
    <2>1. BiosInControl'
      BY <1>5 DEF FirmwareReverts, Firmware, BiosInControl, Inv, TypeOK, NativeTypes
    <2>2. UNCHANGED <<requiresBiosRestore, isShuttingDown, ShutdownHandoff>>
      BY <1>5 DEF FirmwareReverts, restoreVars, ShutdownHandoff
    <2> QED
      BY <2>1, <2>2, OnlyYields
  <1>6. CASE ChannelFails
    <2>1. /\ \/ firmware' = firmware
             \/ nativeCalls # <<>> /\ firmware' = After(firmware, Head(nativeCalls))
          /\ UNCHANGED <<requiresBiosRestore, isShuttingDown, restore>>
      BY <1>6 DEF ChannelFails, Outcomes, outputVars, restoreVars
    <2>2. CASE HeadCallBy("fan")
      BY <2>1, <2>2, FanCallTakes
    <2>3. CASE ~HeadCallBy("fan")
      <3>1. BiosInControl => BiosInControl'
        BY <2>1, <2>3, OthersOnlyYield DEF HeadCallBy, BiosInControl
      <3> QED
        BY <2>1, <3>1, OnlyYields DEF ShutdownHandoff
    <2> QED
      BY <2>2, <2>3
  <1>7. CASE DropFanWrite
    BY <1>1, <1>7 DEF DropFanWrite, FanFrame, serverVars, restoreVars, outputVars,
                      platformVars
  <1>8. CASE StartFanWrite
    <2>1. /\ ~isShuttingDown /\ UNCHANGED <<isShuttingDown, firmware, restore>>
          /\ requiresBiosRestore' \in {requiresBiosRestore, TRUE}
      BY <1>8 DEF StartFanWrite, FanFrame, serverVars, restoreVars, platformVars,
                  Inv, TypeOK, OutputTypes
    <2>2. UNCHANGED ShutdownHandoff /\ (~BiosInControl)' = (~BiosInControl)
      BY <2>1 DEF ShutdownHandoff, BiosInControl
    <2>3. CASE UNCHANGED requiresBiosRestore
      BY <1>1, <2>1, <2>3
    <2>4. CASE requiresBiosRestore' = TRUE
      BY <2>1, <2>2, <2>4 DEF Handoff!Next, Handoff!Owe
    <2> QED
      BY <2>1, <2>3, <2>4
  <1>9. CASE FanCallContinues \/ FanCallCompletes \/ FanCallFails
    <2>1. /\ HeadCallBy("fan")
          /\ firmware' = firmware \/ firmware' = After(firmware, Head(nativeCalls))
          /\ UNCHANGED <<requiresBiosRestore, isShuttingDown, restore>>
      BY <1>9 DEF FanCallContinues, FanCallCompletes, FanCallFails, FanFrame,
                  Outcomes, outputVars, serverVars, restoreVars
    <2> QED
      BY <2>1, FanCallTakes
  <1>10. ASSUME NEW by \in Restorers, RestoreIssues(by)
         PROVE  [Handoff!Next]_(Handoff!vars)
    <2>1. /\ restore[by] = "waiting" /\ restore' = [restore EXCEPT ![by] = "calling"]
          /\ UNCHANGED <<firmware, requiresBiosRestore, isShuttingDown>>
      BY <1>10 DEF RestoreIssues
    <2>2. UNCHANGED ShutdownHandoff
      BY <2>1 DEF ShutdownHandoff, Restorers, Inv, TypeOK, NativeTypes
    <2> QED
      BY <2>1, <2>2, OnlyYields DEF BiosInControl
  <1>11. ASSUME NEW by \in Restorers, RestoreCallSucceeds(by) \/ RestoreCallFails(by)
         PROVE  [Handoff!Next]_(Handoff!vars)
    BY <1>11, RestoreCallSettlesHandoff
  <1> QED
    BY <1>2, <1>3, <1>4, <1>5, <1>6, <1>7, <1>8, <1>9, <1>10, <1>11
       DEF Next, FanControlStep, Microtask, NativeCallSettles, QuietAction, SensorAction

\* The controller of src/server/fan-control/index.ts, with its queue, cycles,
\* reassertions, commands and failures, makes only the steps the abstract
\* handoff allows: no fan is taken without a debt or after the handoff is
\* done, and no debt is dropped before the BIOS has the fans.
THEOREM HandoffIsKeptAbstractly == Spec => HandoffImplemented
  <1>1. Init => Handoff!Init
    BY DEF Init, Handoff!Init, BiosInControl, ShutdownHandoff, Restorers
  <1> QED
    BY <1>1, HandoffRefines, InvHolds, PTL DEF Spec, HandoffImplemented, Handoff!Spec

\* One process with its controller is a machine that SharedFans allows: the
\* steps of FanHandoff are steps of it for a single process.
LEMMA HandoffIsShared ==
    ASSUME [Handoff!Next]_(Handoff!vars)
    PROVE  [Shared!Next]_(Shared!vars)
  <1> DEFINE p == "server"
             manual == ~BiosInControl
             owed == [q \in {"server"} |-> requiresBiosRestore]
             phase == [q \in {"server"} |-> IF isShuttingDown THEN "stopping" ELSE "up"]
             handoff == [q \in {"server"} |-> ShutdownHandoff]
  <1>1. /\ p \in {"server"} /\ owed[p] = requiresBiosRestore /\ handoff[p] = ShutdownHandoff
        /\ phase[p] = (IF isShuttingDown THEN "stopping" ELSE "up")
        /\ ~Shared!Ended(p)
    BY DEF Shared!Ended
  <1>2. /\ UNCHANGED requiresBiosRestore => UNCHANGED owed
        /\ UNCHANGED isShuttingDown => UNCHANGED phase
        /\ UNCHANGED ShutdownHandoff => UNCHANGED handoff
        /\ UNCHANGED BiosInControl => UNCHANGED manual
    OBVIOUS
  <1>3. /\ \A x \in BOOLEAN : requiresBiosRestore' = x => owed' = [owed EXCEPT ![p] = x]
        /\ \A x : ShutdownHandoff' = x => handoff' = [handoff EXCEPT ![p] = x]
    OBVIOUS
  <1>4. CASE UNCHANGED Handoff!vars
    <2>1. UNCHANGED <<manual, owed, phase, handoff>>
      BY <1>2, <1>4 DEF Handoff!vars
    <2> QED
      BY <2>1 DEF Shared!vars
  <1>5. CASE Handoff!Owe
    <2>1. phase[p] = "up" /\ owed' = [owed EXCEPT ![p] = TRUE] /\ UNCHANGED <<manual, phase, handoff>>
      BY <1>1, <1>2, <1>3, <1>5 DEF Handoff!Owe
    <2> QED
      BY <1>1, <2>1 DEF Shared!Next, Shared!Owe
  <1>6. CASE Handoff!Take
    <2>1. /\ owed[p] /\ handoff[p] \in {"none", "pending"} /\ manual'
          /\ UNCHANGED <<owed, phase, handoff>>
      BY <1>1, <1>2, <1>6 DEF Handoff!Take
    <2> QED
      BY <1>1, <2>1 DEF Shared!Next, Shared!Take, Shared!MayTake
  <1>7. CASE Handoff!Yield
    <2>1. ~manual' /\ UNCHANGED <<owed, phase, handoff>>
      BY <1>2, <1>7 DEF Handoff!Yield
    <2> QED
      BY <1>1, <2>1 DEF Shared!Next, Shared!Yield
  <1>8. CASE Handoff!Stop
    <2>1. UNCHANGED <<manual, owed, handoff>> /\ isShuttingDown'
      BY <1>2, <1>8 DEF Handoff!Stop
    <2>2. CASE isShuttingDown
      <3>1. UNCHANGED phase
        BY <2>1, <2>2
      <3> QED
        BY <2>1, <3>1 DEF Shared!vars
    <2>3. CASE ~isShuttingDown
      <3>1. phase[p] = "up" /\ phase' = [phase EXCEPT ![p] = "stopping"]
        BY <2>1, <2>3
      <3> QED
        BY <1>1, <2>1, <3>1 DEF Shared!Next, Shared!Stop
    <2> QED
      BY <2>2, <2>3
  <1>9. CASE Handoff!Attempt
    <2>1. /\ phase[p] = "stopping" /\ handoff[p] = "none"
          /\ handoff' = [handoff EXCEPT ![p] = "pending"] /\ UNCHANGED <<manual, owed, phase>>
      BY <1>1, <1>2, <1>3, <1>9 DEF Handoff!Attempt
    <2> QED
      BY <1>1, <2>1 DEF Shared!Next, Shared!Attempt
  <1>10. CASE Handoff!Settle
    <2>1. /\ ~manual' /\ owed' = [owed EXCEPT ![p] = FALSE] /\ UNCHANGED phase
          /\ \/ UNCHANGED handoff
             \/ handoff[p] = "pending" /\ handoff' = [handoff EXCEPT ![p] = "done"]
      BY <1>1, <1>2, <1>3, <1>10 DEF Handoff!Settle
    <2> QED
      BY <1>1, <2>1 DEF Shared!Next, Shared!Settle
  <1>11. CASE Handoff!GiveUp
    <2>1. /\ handoff[p] = "pending" /\ handoff' = [handoff EXCEPT ![p] = "failed"]
          /\ UNCHANGED <<owed, phase>> /\ manual' \in {manual, FALSE}
      BY <1>1, <1>2, <1>3, <1>11 DEF Handoff!GiveUp
    <2> QED
      BY <1>1, <2>1 DEF Shared!Next, Shared!GiveUp
  <1> QED
    BY <1>4, <1>5, <1>6, <1>7, <1>8, <1>9, <1>10, <1>11 DEF Handoff!Next

\* The controller of one process implements what ServerLifecycle implements for
\* several: at both levels the fans are shared as SharedFans says.
THEOREM ControllerSharesFans == Spec => Shared!Spec
  <1>1. Init => Shared!Init
    <2> SUFFICES ASSUME Init
                 PROVE  Shared!Init
      OBVIOUS
    <2>1. Handoff!Init
      BY DEF Init, Handoff!Init, BiosInControl, ShutdownHandoff, Restorers
    <2>2. /\ BiosInControl /\ requiresBiosRestore = FALSE /\ isShuttingDown = FALSE
          /\ ShutdownHandoff = "none"
      BY <2>1 DEF Handoff!Init, Init
    <2> QED
      BY <2>2 DEF Shared!Init
  <1>2. [Handoff!Next]_(Handoff!vars) => [Shared!Next]_(Shared!vars)
    BY HandoffIsShared
  <1>3. Spec => Handoff!Spec
    BY HandoffIsKeptAbstractly DEF HandoffImplemented
  <1> QED
    BY <1>1, <1>2, <1>3, PTL DEF Spec, Handoff!Spec, Shared!Spec

-----------------------------------------------------------------------------
(* What the callers wait for *)

\* The step starts none of these callers.
NobodyBegins(others) == \A o \in others : Busy(o)' => Busy(o)

LEMMA QueueStands ==
    ASSUME WritesAreQueued, UNCHANGED <<fanWriteQueue, settled>>, NobodyBegins(Owners)
    PROVE  WritesAreQueued'
  BY DEF WritesAreQueued, Queued, InQueue, NobodyBegins

\* The head leaves the queue and has settled.
LEMMA HeadIsTold ==
    ASSUME TypeOK, WritesAreQueued, fanWriteQueue # <<>>, NEW outcome \in {"ok", "error"},
           SettleHead(outcome), NobodyBegins(Owners)
    PROVE  WritesAreQueued'
  <1> DEFINE owner == Head(fanWriteQueue).owner
  <1>1. /\ fanWriteQueue \in Seq(FanOps) /\ Len(fanWriteQueue) \in Nat
        /\ owner \in Owners /\ settled \in [Owners -> Outcome]
    BY HeadOp DEF TypeOK, QueueTypes
  <1>2. /\ settled'[owner] # "none"
        /\ \A o \in Owners : settled[o] # "none" => settled'[o] # "none"
    BY <1>1 DEF SettleHead
  <1>3. ASSUME NEW i \in InQueue
        PROVE  \/ fanWriteQueue[i].owner = owner
               \/ \E j \in InQueue' : fanWriteQueue'[j] = fanWriteQueue[i]
    <2>1. CASE i = 1
      BY <1>1, <2>1
    <2>2. CASE i # 1
      <3>1. i - 1 \in InQueue' /\ fanWriteQueue'[i - 1] = fanWriteQueue[i]
        BY <1>1, <2>2 DEF InQueue, SettleHead
      <3> QED
        BY <3>1
    <2> QED
      BY <2>1, <2>2
  <1> HIDE DEF owner
  <1>4. ASSUME NEW o \in Owners, Busy(o)' PROVE settled'[o] # "none" \/ Queued(o)'
    <2>1. settled[o] # "none" \/ Queued(o)
      BY <1>4 DEF WritesAreQueued, NobodyBegins
    <2>2. Queued(o) => o = owner \/ Queued(o)'
      BY <1>3 DEF Queued
    <2> QED
      BY <1>2, <2>1, <2>2
  <1> QED
    BY <1>4 DEF WritesAreQueued

\* A caller starts, or goes on, with a write in the queue.
LEMMA CallerEnqueues ==
    ASSUME TypeOK, WritesAreQueued, NEW op \in FanOps, EnqueueFanWrite(op),
           \A o \in Owners \ {op.owner} : settled'[o] = settled[o],
           NobodyBegins(Owners \ {op.owner})
    PROVE  WritesAreQueued'
  <1>1. /\ fanWriteQueue \in Seq(FanOps) /\ Len(fanWriteQueue) \in Nat
        /\ fanWriteQueue' = Append(fanWriteQueue, op)
    BY DEF TypeOK, QueueTypes, EnqueueFanWrite
  <1>2. Len(fanWriteQueue) + 1 \in InQueue' /\ fanWriteQueue'[Len(fanWriteQueue) + 1] = op
    BY <1>1 DEF InQueue
  <1>3. \A i \in InQueue : i \in InQueue' /\ fanWriteQueue'[i] = fanWriteQueue[i]
    BY <1>1 DEF InQueue
  <1>4. Queued(op.owner)' /\ \A o \in Owners : Queued(o) => Queued(o)'
    BY <1>2, <1>3 DEF Queued
  <1> QED
    BY <1>4 DEF WritesAreQueued, NobodyBegins

\* A caller is told of its write and waits for no other.
LEMMA CallerGoesOn ==
    ASSUME WritesAreQueued, NEW owner \in Owners, UNCHANGED fanWriteQueue,
           settled' = [settled EXCEPT ![owner] = "none"], TypeOK,
           ~Busy(owner)', NobodyBegins(Owners \ {owner})
    PROVE  WritesAreQueued'
  <1>1. \A o \in Owners \ {owner} : settled'[o] = settled[o]
    BY DEF TypeOK, QueueTypes
  <1> QED
    BY <1>1 DEF WritesAreQueued, Queued, InQueue, NobodyBegins

LEMMA DecidedCycleWaits ==
    ASSUME TypeOK, WritesAreQueued, UNCHANGED <<settled, command, runPhase, reinitInFlight>>,
           \/ \E percent \in Percent, then \in {"fixedBlind", "hot", "fixed", "direct", "ramp"} :
                CycleWrites(percent, then)
           \/ cyclePhase' # "write" /\ UNCHANGED fanWriteQueue
    PROVE  WritesAreQueued'
  <1>1. ASSUME NEW percent \in Percent, NEW then, CycleWrites(percent, then) PROVE WritesAreQueued'
    <2> DEFINE op == WriteOp(percent, cycleVersion, "cycle")
    <2>1. op \in FanOps /\ op.owner = "cycle" /\ EnqueueFanWrite(op)
      BY <1>1, WriteOpType DEF WriteOp, Owners, TypeOK, CycleTypes, CycleWrites
    <2> HIDE DEF op
    <2>2. NobodyBegins(Owners \ {"cycle"})
      BY DEF NobodyBegins, Busy
    <2> QED
      BY <2>1, <2>2, CallerEnqueues
  <1>2. CASE cyclePhase' # "write" /\ UNCHANGED fanWriteQueue
    BY <1>2, QueueStands DEF NobodyBegins, Busy
  <1> QED
    BY <1>1, <1>2

LEMMA CommandWaits ==
    ASSUME TypeOK, WritesAreQueued, UNCHANGED <<settled, runPhase, reinitInFlight, cyclePhase>>,
           \/ \E percent \in Percent, kind \in {"fixedpercentage", "dofixedspeed"} :
                ApplyFixedFan(kind, percent)
           \/ UNCHANGED <<manualVars, fanWriteQueue>>
    PROVE  WritesAreQueued'
  <1>1. ASSUME NEW percent \in Percent, NEW kind, ApplyFixedFan(kind, percent)
        PROVE  WritesAreQueued'
    <2> DEFINE op == WriteOp(percent, Null, "manual")
    <2>1. op \in FanOps /\ op.owner = "manual" /\ EnqueueFanWrite(op)
      BY <1>1, WriteOpType DEF WriteOp, Owners, ApplyFixedFan
    <2> HIDE DEF op
    <2>2. NobodyBegins(Owners \ {"manual"})
      BY DEF NobodyBegins, Busy
    <2> QED
      BY <2>1, <2>2, CallerEnqueues
  <1>2. CASE UNCHANGED <<manualVars, fanWriteQueue>>
    BY <1>2, QueueStands DEF NobodyBegins, Busy, manualVars
  <1> QED
    BY <1>1, <1>2

\* Whatever step is taken, each caller's write is queued or settled.
LEMMA WritesStep ==
    ASSUME Inv, WritesAreQueued, [Next]_vars
    PROVE  WritesAreQueued'
  <1> USE DEF serverVars, settingVars, manualVars, runVars, queueVars, loopVars,
              cycleVars, collectVars
  <1>t. TypeOK
    BY DEF Inv
  <1>1. CASE DropFanWrite \/ FanCallCompletes \/ FanCallFails
    <2>1. fanWriteQueue # <<>>
      BY <1>1, HeadCall DEF DropFanWrite, HeadWaits, FanCallCompletes, FanCallFails, HeadCallBy,
                            Inv, OneFanCall, TypeOK, NativeTypes
    <2>2. \E outcome \in {"ok", "error"} : SettleHead(outcome)
      BY <1>1 DEF DropFanWrite, FanCallCompletes, FanCallFails
    <2>3. NobodyBegins(Owners)
      BY <1>1 DEF DropFanWrite, FanCallCompletes, FanCallFails, FanFrame, NobodyBegins, Busy
    <2> QED
      BY <1>t, <2>1, <2>2, <2>3, HeadIsTold
  <1>2. CASE StartFanWrite \/ FanCallContinues \/ HandleFanTable
    BY <1>2, QueueStands DEF StartFanWrite, FanCallContinues, FanFrame, HandleFanTable, CommandFrame,
                             NobodyBegins, Busy
  <1>3. CASE Decide
    <2>1. /\ HighestFanTarget(curve) \in Percent /\ fixedPercentage \in Percent
          /\ lastAverages' \in Measurements => CurveTarget(curve, lastAverages') \in Percent
      BY HighestSpeed, TargetBelowHighest, CurveIsValid, MeasurementsAssumption, <1>t
         DEF TypeOK, SettingTypes
    <2>2. UNCHANGED <<settled, command, runPhase, reinitInFlight>>
      BY <1>3 DEF Decide, DecideAbandon, DecideFixedBlind, DecideFailHot, DecideFixed,
                  DecideDirect, DecideRamp, DecisionFrame
    <2>3. CASE DecideAbandon \/ DecideFixedBlind \/ DecideFailHot \/ DecideFixed \/ DecideDirect
      <3>1. \/ \E percent \in Percent, then \in {"fixedBlind", "hot", "fixed", "direct", "ramp"} :
                 CycleWrites(percent, then)
            \/ cyclePhase' # "write" /\ UNCHANGED fanWriteQueue
        BY <2>1, <2>3 DEF DecideAbandon, DecideFixedBlind, DecideFailHot, DecideFixed, DecideDirect,
                          CycleEndsHere
      <3> QED
        BY <1>t, <2>2, <3>1, DecidedCycleWaits
    <2>4. CASE DecideRamp
      <3>1. /\ CurveTarget(curve, lastAverages') \in Percent /\ appliedFanPercentage \in Percent
        BY <1>t, <2>1, <2>4 DEF DecideRamp, ApplyDirectly, TypeOK, OutputTypes
      <3>2. GetGradientTarget(appliedFanPercentage, CurveTarget(curve, lastAverages')) \in Percent
        BY <3>1, GradientBetween
      <3>3. \/ CycleWrites(GetGradientTarget(appliedFanPercentage,
                                            CurveTarget(curve, lastAverages')), "ramp")
            \/ CycleEndsHere(lastAverages')
        BY <2>4 DEF DecideRamp, RampUp, RampDown, Hold
      <3> QED
        BY <1>t, <2>2, <3>2, <3>3, DecidedCycleWaits DEF CycleEndsHere
    <2> QED
      BY <1>3, <2>3, <2>4 DEF Decide
  <1>4. CASE CycleWriteDone \/ CycleWriteFailed
    <2>1. /\ UNCHANGED fanWriteQueue /\ settled' = [settled EXCEPT !["cycle"] = "none"]
          /\ ~Busy("cycle")' /\ NobodyBegins(Owners \ {"cycle"})
      BY <1>4 DEF CycleWriteDone, CycleWriteFailed, ResumeFrame, NobodyBegins, Busy
    <2> QED
      BY <1>t, <2>1, CallerGoesOn DEF Owners
  <1>5. CASE RunAppliesFirstSpeed
    <2>1. HighestFanTarget(curve) \in Percent /\ fixedPercentage \in Percent
      BY <1>t, HighestSpeed, CurveIsValid DEF TypeOK, SettingTypes
    <2>2. PICK percent \in Percent : EnqueueFanWrite(WriteOp(percent, Null, "run"))
      BY <1>5, <2>1 DEF RunAppliesFirstSpeed
    <2>3. /\ WriteOp(percent, Null, "run") \in FanOps
          /\ WriteOp(percent, Null, "run").owner = "run"
      BY WriteOpType DEF WriteOp, Owners
    <2>4. settled' = [settled EXCEPT !["run"] = "none"] /\ NobodyBegins(Owners \ {"run"})
      BY <1>5 DEF RunAppliesFirstSpeed, RunFrame, NobodyBegins, Busy
    <2>5. \A o \in Owners \ {"run"} : settled'[o] = settled[o]
      BY <1>t, <2>4 DEF TypeOK, QueueTypes
    <2> QED
      BY <1>t, <2>2, <2>3, <2>4, <2>5, CallerEnqueues
  <1>6. CASE RunEntersLoop \/ RunStops \/ RunFails
    <2>1. /\ UNCHANGED fanWriteQueue /\ settled' = [settled EXCEPT !["run"] = "none"]
          /\ ~Busy("run")' /\ NobodyBegins(Owners \ {"run"})
      BY <1>6 DEF RunEntersLoop, RunStops, RunFails, RunFrame, NobodyBegins, Busy
    <2> QED
      BY <1>t, <2>1, CallerGoesOn DEF Owners
  <1>7. CASE ReinitSettles
    <2>1. /\ UNCHANGED fanWriteQueue /\ settled' = [settled EXCEPT !["reinit"] = "none"]
          /\ ~Busy("reinit")' /\ NobodyBegins(Owners \ {"reinit"})
      BY <1>7 DEF ReinitSettles, FlagAfter, NobodyBegins, Busy
    <2> QED
      BY <1>t, <2>1, CallerGoesOn DEF Owners
  <1>8. CASE CommandSettles
    <2>1. /\ UNCHANGED fanWriteQueue /\ settled' = [settled EXCEPT !["manual"] = "none"]
          /\ ~Busy("manual")' /\ NobodyBegins(Owners \ {"manual"})
      BY <1>8 DEF CommandSettles, CommandFrame, NobodyBegins, Busy
    <2> QED
      BY <1>t, <2>1, CallerGoesOn DEF Owners
  <1>9. CASE RunStarts
    <2>1. /\ InitOp("run") \in FanOps /\ InitOp("run").owner = "run"
          /\ NobodyBegins(Owners \ {"run"}) /\ UNCHANGED settled
      BY <1>9, InitOpType DEF InitOp, Owners, RunStarts, NobodyBegins, Busy
    <2> QED
      BY <1>t, <1>9, <2>1, CallerEnqueues DEF RunStarts
  <1>10. CASE ReinitTick
    <2>1. /\ InitOp("reinit") \in FanOps /\ InitOp("reinit").owner = "reinit"
          /\ NobodyBegins(Owners \ {"reinit"}) /\ UNCHANGED settled
      BY <1>10, InitOpType DEF InitOp, Owners, ReinitTick, NobodyBegins, Busy
    <2> QED
      BY <1>t, <1>10, <2>1, CallerEnqueues DEF ReinitTick
  <1>11. CASE HandleFixedPercentage \/ HandleDoFixedSpeed
    <2>1. \/ \E percent \in Percent, kind \in {"fixedpercentage", "dofixedspeed"} :
                ApplyFixedFan(kind, percent)
          \/ UNCHANGED <<manualVars, fanWriteQueue>>
      BY <1>t, <1>11, PercentagesAssumption DEF HandleFixedPercentage, HandleDoFixedSpeed, TypeOK,
                                                SettingTypes
    <2>2. UNCHANGED <<settled, runPhase, reinitInFlight, cyclePhase>>
      BY <1>11 DEF HandleFixedPercentage, HandleDoFixedSpeed, CommandFrame
    <2> QED
      BY <1>t, <2>1, <2>2, CommandWaits
  <1>12. CASE \/ SensorAnswers \/ SensorFails \/ SensorAnswersLate
              \/ StartCycle \/ SampleSleepEnds \/ SensorReadTimesOut
    BY <1>12, QueueStands DEF SensorAnswers, SensorFails, SensorAnswersLate, StartCycle,
         SampleSleepEnds, SensorReadTimesOut, CollectFrame, NobodyBegins, Busy
  <1>13. CASE StartFanControlShutdown \/ ShutdownRestores \/ ChannelFails \/ FirmwareReverts
    <2>1. UNCHANGED <<fanWriteQueue, settled>> /\ NobodyBegins(Owners)
      BY <1>13 DEF StartFanControlShutdown, ShutdownRestores, ChannelFails, FirmwareReverts,
                   RestoreFrame, NobodyBegins, Busy
    <2> QED
      BY <2>1, QueueStands
  <1>15. ASSUME NEW by \in Restorers,
                RestoreIssues(by) \/ RestoreCallSucceeds(by) \/ RestoreCallFails(by)
         PROVE  WritesAreQueued'
    <2>1. RestoreFrame
      BY <1>15 DEF RestoreIssues, RestoreCallSucceeds, RestoreCallFails, RestoreSettles
    <2>2. UNCHANGED <<fanWriteQueue, settled>> /\ NobodyBegins(Owners)
      BY <2>1 DEF RestoreFrame, NobodyBegins, Busy
    <2> QED
      BY <2>2, QueueStands
  <1>14. CASE UNCHANGED vars
    BY <1>14, QueueStands DEF vars, NobodyBegins, Busy
  <1> QED
    BY <1>1, <1>2, <1>3, <1>4, <1>5, <1>6, <1>7, <1>8, <1>9, <1>10, <1>11, <1>12, <1>13, <1>14, <1>15
       DEF Next, FanControlStep, Microtask, NativeCallSettles, HandleCommand

\* Calls that are not settled by the step stay out.
LEMMA CallsStay ==
    ASSUME TypeOK, CallsAreOut, UNCHANGED fanStep \/ fanStep' = 0,
           \A by \in Restorers : restore'[by] = "calling" => restore[by] = "calling",
           UNCHANGED sensorReadInFlight, cyclePhase' = "read" => cyclePhase = "read",
           \/ UNCHANGED nativeCalls
           \/ /\ nativeCalls # <<>> /\ nativeCalls' = Tail(nativeCalls)
              /\ Head(nativeCalls).by = "fan" /\ fanStep' = 0
    PROVE  CallsAreOut'
  <1>1. CASE UNCHANGED nativeCalls
    BY <1>1 DEF CallsAreOut
  <1>2. CASE /\ nativeCalls # <<>> /\ nativeCalls' = Tail(nativeCalls)
             /\ Head(nativeCalls).by = "fan" /\ fanStep' = 0
    <2>1. Issued(nativeCalls) = Issued(nativeCalls') \cup {Head(nativeCalls)}
      BY <1>2, CallSettled
    <2>2. SensorCall.by # "fan" /\ \A by \in Restorers : LastRestoreCall(by).by # "fan"
      BY RestoreCallsBy DEF SensorCall
    <2> QED
      BY <1>2, <2>1, <2>2 DEF CallsAreOut
  <1> QED
    BY <1>1, <1>2

\* A restore has its second call out until that settles.
LEMMA RestoreCallsOut ==
    ASSUME Inv, CallsAreOut, NEW by \in Restorers, RestoreCallSucceeds(by) \/ RestoreCallFails(by)
    PROVE  CallsAreOut'
  <1> USE DEF loopVars, cycleVars
  <1>1. /\ nativeCalls # <<>> /\ Head(nativeCalls).by = by /\ nativeCalls' = Tail(nativeCalls)
        /\ UNCHANGED fanStep
    BY RestoreSettlesFirst DEF queueVars
  <1>2. PICK failed : RestoreSettles(by, failed)
    BY RestoreSettlesFirst
  <1>3. UNCHANGED <<sensorReadInFlight, cyclePhase>>
    BY <1>2 DEF RestoreSettles, RestoreFrame
  <1>4. /\ Issued(nativeCalls) = Issued(nativeCalls') \cup {Head(nativeCalls)}
        /\ Paired(by, nativeCalls') /\ nativeCalls \in Seq(Calls)
    BY <1>1, CallSettled DEF Inv, TypeOK, NativeTypes, RestoreInOrder
  <1>5. /\ by # "fan" /\ by # "sensor" /\ SensorCall.by = "sensor"
        /\ \A other \in Restorers : LastRestoreCall(other).by = other
    BY RestoreCallsBy DEF SensorCall
  <1>6. /\ fanStep' > 0 => \E call \in Issued(nativeCalls') : call.by = "fan"
        /\ cyclePhase' = "read" => sensorReadInFlight'
        /\ sensorReadInFlight' => SensorCall \in Issued(nativeCalls')
    BY <1>1, <1>3, <1>4, <1>5 DEF CallsAreOut
  <1>7. ASSUME NEW other \in Restorers, restore'[other] = "calling"
        PROVE  LastRestoreCall(other) \in Issued(nativeCalls')
    <2>1. restore \in [Restorers -> {"idle", "waiting", "calling", "ok", "failed"}]
      BY DEF Inv, TypeOK, NativeTypes
    <2>2. CASE other # by
      <3>1. restore[other] = "calling"
        BY <1>2, <1>7, <2>1, <2>2 DEF RestoreSettles
      <3> QED
        BY <1>1, <1>4, <1>5, <2>2, <3>1 DEF CallsAreOut
    <2>3. CASE other = by
      <3>1. \E i \in 2 .. Len(nativeCalls) : nativeCalls[i].by = by
        BY <1>2, <1>7, <2>1, <2>3 DEF RestoreSettles
      <3>2. PICK i \in 2 .. Len(nativeCalls) : nativeCalls[i].by = by
        BY <3>1
      <3>3. i - 1 \in 1 .. Len(nativeCalls') /\ nativeCalls'[i - 1] = nativeCalls[i]
        BY <1>1, <1>4
      <3>4. nativeCalls[i] \in Issued(nativeCalls') /\ nativeCalls[i] \in Issued(nativeCalls)
        BY <1>4, <3>3 DEF Issued
      <3>5. nativeCalls[i] \in {FirstRestoreCall(by), LastRestoreCall(by)}
        BY <3>2, <3>4 DEF Inv, RestoreInOrder
      <3>6. CASE nativeCalls[i] = FirstRestoreCall(by)
        <4>1. \E k \in 1 .. Len(nativeCalls') : nativeCalls'[k] = LastRestoreCall(by)
          BY <1>4, <3>3, <3>6 DEF Paired
        <4> QED
          BY <2>3, <4>1 DEF Issued
      <3> QED
        BY <2>3, <3>4, <3>5, <3>6
    <2> QED
      BY <2>2, <2>3
  <1> QED
    BY <1>6, <1>7 DEF CallsAreOut

\* Every step leaves a call out for whatever waits for one.
LEMMA CallsStep ==
    ASSUME Inv, CallsAreOut, [Next]_vars
    PROVE  CallsAreOut'
  <1> USE DEF serverVars, settingVars, manualVars, runVars, queueVars, loopVars,
              cycleVars, collectVars, restoreVars
  <1>t. TypeOK /\ OneFanCall /\ nativeCalls \in Seq(Calls) /\ fanStep \in Nat
        /\ restore \in [Restorers -> {"idle", "waiting", "calling", "ok", "failed"}]
    BY DEF Inv, TypeOK, NativeTypes, QueueTypes
  <1>1. CASE QuietAction
    <2>1. UNCHANGED <<nativeCalls, fanStep>>
      BY <1>t, <1>1, QuietStep
    <2>2. UNCHANGED sensorReadInFlight /\ (cyclePhase' = "read" => cyclePhase = "read")
      <3>1. CASE Decide
        BY <3>1 DEF Decide, DecideAbandon, DecideFixedBlind, DecideFailHot, DecideFixed, DecideDirect,
                    DecideRamp, DecisionFrame, CycleWrites, CycleEndsHere, RampUp, RampDown, Hold
      <3>2. CASE CycleWriteDone \/ CycleWriteFailed \/ SensorReadTimesOut
        BY <3>2 DEF CycleWriteDone, CycleWriteFailed, SensorReadTimesOut, ResumeFrame, CollectFrame
      <3>3. CASE \/ RunStarts \/ RunAppliesFirstSpeed \/ RunEntersLoop \/ RunStops \/ RunFails
                 \/ ReinitTick \/ ReinitSettles
        BY <3>3 DEF RunStarts, RunAppliesFirstSpeed, RunEntersLoop, RunStops, RunFails, RunFrame,
                    ReinitTick, ReinitSettles
      <3>4. CASE HandleCommand \/ CommandSettles
        BY <3>4 DEF HandleCommand, HandleFixedPercentage, HandleDoFixedSpeed, HandleFanTable,
                    CommandSettles, CommandFrame
      <3>5. CASE StartFanControlShutdown \/ ShutdownRestores
        BY <3>5 DEF StartFanControlShutdown, ShutdownRestores, RestoreFrame
      <3> QED
        BY <1>1, <3>1, <3>2, <3>3, <3>4, <3>5 DEF QuietAction
    <2>3. ASSUME NEW by \in Restorers, restore'[by] = "calling" PROVE restore[by] = "calling"
      <3>1. \/ UNCHANGED restore
            \/ \E r \in Restorers : restore' = [restore EXCEPT ![r] = "waiting"]
        <4>1. CASE Decide \/ CycleWriteDone \/ CycleWriteFailed \/ SensorReadTimesOut
          BY <4>1 DEF Decide, DecideAbandon, DecideFixedBlind, DecideFailHot, DecideFixed, DecideDirect,
                      DecideRamp, DecisionFrame, CycleWriteDone, CycleWriteFailed, SensorReadTimesOut,
                      ResumeFrame, CollectFrame
        <4>2. CASE \/ RunStarts \/ RunAppliesFirstSpeed \/ RunEntersLoop \/ RunStops
                   \/ ReinitTick \/ ReinitSettles
          BY <4>2 DEF RunStarts, RunAppliesFirstSpeed, RunEntersLoop, RunStops, RunFrame,
                      ReinitTick, ReinitSettles
        <4>3. CASE HandleCommand \/ CommandSettles
          BY <4>3 DEF HandleCommand, HandleFixedPercentage, HandleDoFixedSpeed, HandleFanTable,
                      CommandSettles, CommandFrame
        <4>4. CASE RunFails \/ StartFanControlShutdown \/ ShutdownRestores
          BY <4>4 DEF RunFails, StartFanControlShutdown, ShutdownRestores, Restorers
        <4> QED
          BY <1>1, <4>1, <4>2, <4>3, <4>4 DEF QuietAction
      <3> QED
        BY <1>t, <2>3, <3>1
    <2> QED
      BY <1>t, <2>1, <2>2, <2>3, CallsStay
  <1>2. CASE DropFanWrite
    BY <1>t, <1>2, CallsStay DEF DropFanWrite, FanFrame, SettleHead
  <1>3. CASE StartFanWrite
    <2>1. fanWriteQueue # <<>> /\ 1 \in 1 .. Len(CallsOf(Head(fanWriteQueue)))
      BY <1>3, CallCount DEF StartFanWrite, HeadWaits
    <2>2. PICK call \in Calls : call.by = "fan" /\ nativeCalls' = Append(nativeCalls, call)
      BY <1>t, <1>3, <2>1, NextFanCall DEF StartFanWrite
    <2>3. UNCHANGED <<sensorReadInFlight, cyclePhase, restore>>
      BY <1>3 DEF StartFanWrite, FanFrame
    <2>4. Issued(nativeCalls') = Issued(nativeCalls) \cup {call}
      BY <1>t, <2>2, IssuedAppend
    <2> QED
      BY <2>2, <2>3, <2>4 DEF CallsAreOut
  <1>4. CASE FanCallContinues
    <2>1. /\ fanWriteQueue # <<>> /\ nativeCalls # <<>> /\ fanStep > 0 /\ Head(nativeCalls).by = "fan"
          /\ Tail(nativeCalls) \in Seq(Calls)
      BY <1>t, <1>4, FanCallIsCurrent DEF FanCallContinues, HeadCallBy
    <2>2. fanStep + 1 \in 1 .. Len(CallsOf(Head(fanWriteQueue)))
      BY <1>t, <1>4, <2>1, CallCount DEF FanCallContinues, OperationEnds, OneFanCall, TypeOK, QueueTypes
    <2>3. PICK call \in Calls : /\ call.by = "fan"
                                /\ nativeCalls' = Append(Tail(nativeCalls), call)
      BY <1>t, <1>4, <2>1, <2>2, NextFanCall DEF FanCallContinues
    <2>4. UNCHANGED <<sensorReadInFlight, cyclePhase, restore>>
      BY <1>4 DEF FanCallContinues, FanFrame
    <2>5. /\ Issued(nativeCalls) = Issued(Tail(nativeCalls)) \cup {Head(nativeCalls)}
          /\ Issued(nativeCalls') = Issued(Tail(nativeCalls)) \cup {call}
      BY <1>t, <2>1, <2>3, IssuedTail, IssuedAppend
    <2>6. SensorCall.by # "fan" /\ \A by \in Restorers : LastRestoreCall(by).by # "fan"
      BY RestoreCallsBy DEF SensorCall
    <2> QED
      BY <2>1, <2>3, <2>4, <2>5, <2>6 DEF CallsAreOut
  <1>5. CASE FanCallCompletes \/ FanCallFails
    <2>1. /\ nativeCalls # <<>> /\ Head(nativeCalls).by = "fan" /\ nativeCalls' = Tail(nativeCalls)
          /\ fanStep' = 0 /\ UNCHANGED <<sensorReadInFlight, cyclePhase, restore>>
      BY <1>5 DEF FanCallCompletes, FanCallFails, HeadCallBy, SettleHead, FanFrame
    <2> QED
      BY <1>t, <2>1, CallsStay
  <1>6. CASE SensorAction
    <2>1. /\ UNCHANGED <<fanStep, restore>>
          /\ \A call \in Calls : call.by # "sensor" =>
               (call \in Issued(nativeCalls') <=> call \in Issued(nativeCalls))
      BY <1>t, <1>6, SensorsApart
    <2>2. /\ fanStep' > 0 => \E call \in Issued(nativeCalls') : call.by = "fan"
          /\ \A by \in Restorers :
                restore'[by] = "calling" => LastRestoreCall(by) \in Issued(nativeCalls')
      <3>1. Issued(nativeCalls) \subseteq Calls
        BY <1>t DEF Issued
      <3> QED
        BY <2>1, <3>1, RestoreCallsBy DEF CallsAreOut
    <2>3. /\ cyclePhase' = "read" => sensorReadInFlight'
          /\ sensorReadInFlight' =>
                \E calls \in {nativeCalls, Tail(nativeCalls)} :
                    calls \in Seq(Calls) /\ nativeCalls' = Append(calls, SensorCall)
      <3>1. Tail(nativeCalls) \in Seq(Calls) \/ nativeCalls = <<>>
        BY <1>t
      <3> QED
        BY <1>t, <1>6, <3>1 DEF SensorAction, StartCycle, SensorAnswers, SensorFails, SensorAnswersLate,
             SampleSleepEnds, AwaitingRead, HeadCallBy, TypeOK, RunTypes, CycleTypes
    <2>4. sensorReadInFlight' => SensorCall \in Issued(nativeCalls')
      BY <2>3, IssuedAppend, SensorCallType
    <2> QED
      BY <2>2, <2>3, <2>4 DEF CallsAreOut
  <1>7. ASSUME NEW by \in Restorers, RestoreIssues(by) PROVE CallsAreOut'
    <2>1. /\ nativeCalls' = nativeCalls \o <<FirstRestoreCall(by), LastRestoreCall(by)>>
          /\ restore' = [restore EXCEPT ![by] = "calling"]
          /\ UNCHANGED <<fanStep, sensorReadInFlight, cyclePhase>>
      BY <1>7 DEF RestoreIssues, RestoreFrame, FirstRestoreCall, LastRestoreCall
    <2>2. Issued(nativeCalls') = Issued(nativeCalls) \cup {FirstRestoreCall(by), LastRestoreCall(by)}
      BY <1>t, <2>1, IssuedPair, RestoreCallsBy
    <2> QED
      BY <1>t, <2>1, <2>2 DEF CallsAreOut
  <1>8. ASSUME NEW by \in Restorers, RestoreCallSucceeds(by) \/ RestoreCallFails(by)
        PROVE  CallsAreOut'
    BY <1>8, RestoreCallsOut
  <1>9. CASE ChannelFails \/ FirmwareReverts \/ UNCHANGED vars
    BY <1>t, <1>9, CallsStay DEF ChannelFails, FirmwareReverts, RestoreFrame, vars
  <1> QED
    BY <1>1, <1>2, <1>3, <1>4, <1>5, <1>6, <1>7, <1>8, <1>9
       DEF Next, FanControlStep, Microtask, NativeCallSettles, QuietAction, SensorAction

\* WritesAreQueued, CallsAreOut, and with them NobodyWaitsInVain, the safety half
\* of "every fan command is answered": with promise jobs that run and native
\* calls that settle, whoever waits is never left with nothing to wake it.
THEOREM WaitsAreServed == Spec => [](WritesAreQueued /\ CallsAreOut /\ NobodyWaitsInVain)
  <1>1. Init => WritesAreQueued /\ CallsAreOut
    BY DEF Init, WritesAreQueued, CallsAreOut, Busy, Restorers
  <1>2. Inv /\ WritesAreQueued /\ CallsAreOut /\ [Next]_vars => WritesAreQueued' /\ CallsAreOut'
    BY WritesStep, CallsStep
  <1>3. Inv /\ WritesAreQueued /\ CallsAreOut => NobodyWaitsInVain
    <2> SUFFICES ASSUME Inv, WritesAreQueued, CallsAreOut, Quiescent,
                        \/ \E o \in Owners : Busy(o)
                        \/ \E by \in Restorers : restore[by] \in {"waiting", "calling"}
                        \/ cyclePhase = "read"
                 PROVE  nativeCalls # <<>>
      BY DEF NobodyWaitsInVain
    <2>1. Issued(<<>>) = {}
      BY DEF Issued
    <2>2. fanWriteQueue # <<>> => nativeCalls # <<>>
      <3>1. fanWriteQueue # <<>> => fanStep > 0
        BY DEF Quiescent, HeadWaits, Inv, TypeOK, QueueTypes
      <3> QED
        BY <2>1, <3>1 DEF CallsAreOut
    <2>3. ASSUME NEW o \in Owners, Busy(o) PROVE nativeCalls # <<>>
      <3>1. Queued(o)
        BY <2>3 DEF WritesAreQueued, Quiescent
      <3>2. fanWriteQueue # <<>>
        BY <3>1 DEF Queued, InQueue
      <3> QED
        BY <2>2, <3>2
    <2>4. ASSUME NEW by \in Restorers, restore[by] \in {"waiting", "calling"} PROVE nativeCalls # <<>>
      BY <2>1, <2>2, <2>4 DEF Quiescent, CallsAreOut
    <2>5. CASE cyclePhase = "read"
      BY <2>1, <2>5 DEF CallsAreOut
    <2> QED
      BY <2>3, <2>4, <2>5
  <1> QED
    BY <1>1, <1>2, <1>3, InvHolds, PTL DEF Spec

-----------------------------------------------------------------------------
(* The output and the settings *)

LEMMA QueueAppended ==
    ASSUME TypeOK, NEW op \in FanOps, EnqueueFanWrite(op), NEW i \in InQueue'
    PROVE  \/ i \in InQueue /\ fanWriteQueue'[i] = fanWriteQueue[i]
           \/ fanWriteQueue'[i] = op
  BY DEF TypeOK, QueueTypes, EnqueueFanWrite, InQueue

LEMMA QueueDropped ==
    ASSUME TypeOK, fanWriteQueue # <<>>, fanWriteQueue' = Tail(fanWriteQueue),
           NEW i \in InQueue'
    PROVE  i + 1 \in InQueue /\ fanWriteQueue'[i] = fanWriteQueue[i + 1]
  BY DEF TypeOK, QueueTypes, InQueue

\* A step that moves neither settings nor writes.
LEMMA PinnedUntouched ==
    ASSUME Pinned,
           UNCHANGED <<doFixedSpeed, fixedPercentage, command, manualWriteVersion,
                       cycleVersion, fanWriteQueue, fanStep, appliedFanPercentage>>,
           settled'["manual"] = settled["manual"],
           cyclePhase' # "idle" => cyclePhase # "idle"
    PROVE  Pinned'
  <1>1. WritesFollowSettings' /\ BegunCycleWrite'
    BY DEF Pinned, WritesFollowSettings, Follows, InQueue, BegunCycleWrite
  <1>2. CommandOvertakes' /\ CommandHoldsSettings' /\ OutputIsFixed'
    BY DEF Pinned, CommandOvertakes, CommandHoldsSettings, OutputIsFixed
  <1> QED
    BY <1>1, <1>2 DEF Pinned

\* A caller enqueues a write that follows the settings.
LEMMA PinnedEnqueue ==
    ASSUME Inv, Pinned, NEW op \in FanOps, EnqueueFanWrite(op), Follows(op)',
           UNCHANGED <<doFixedSpeed, fixedPercentage, command, manualWriteVersion,
                       cycleVersion, fanStep, appliedFanPercentage>>,
           settled'["manual"] = settled["manual"],
           cyclePhase' # "idle" => cyclePhase # "idle"
    PROVE  Pinned'
  <1>1. WritesFollowSettings'
    <2> SUFFICES ASSUME NEW i \in InQueue' PROVE Follows(fanWriteQueue[i])'
      BY DEF WritesFollowSettings
    <2>1. CASE i \in InQueue /\ fanWriteQueue'[i] = fanWriteQueue[i]
      BY <2>1 DEF Pinned, WritesFollowSettings, Follows
    <2>2. CASE fanWriteQueue'[i] = op
      BY <2>2 DEF Follows
    <2> QED
      BY <2>1, <2>2, QueueAppended DEF Inv
  <1>2. BegunCycleWrite'
    BY EnqueueKeepsHead DEF Inv, OneFanCall, HeadStays, Pinned, BegunCycleWrite
  <1>3. CommandOvertakes' /\ CommandHoldsSettings' /\ OutputIsFixed'
    BY DEF Pinned, CommandOvertakes, CommandHoldsSettings, OutputIsFixed
  <1> QED
    BY <1>1, <1>2, <1>3 DEF Pinned

\* The head settles: its percentage is confirmed, nothing is, or, for an
\* operation that wrote no speed, the confirmed speed stays.
LEMMA PinnedSettle ==
    ASSUME Inv, Pinned, fanWriteQueue # <<>>,
           NEW op, op = Head(fanWriteQueue),
           NEW outcome \in {"ok", "error"}, SettleHead(outcome),
           UNCHANGED <<doFixedSpeed, fixedPercentage, command, manualWriteVersion,
                       cycleVersion, cyclePhase>>,
           \/ /\ op.kind = "write" /\ appliedFanPercentage' = op.percent
              /\ outcome = "ok" /\ fanStep > 0 /\ settled["manual"] = "none"
           \/ /\ appliedFanPercentage' = Null
              /\ outcome = "error" /\ settled["manual"] = "none"
           \/ /\ UNCHANGED appliedFanPercentage
              /\ outcome = "error" \/ op.owner # "manual"
    PROVE  Pinned'
  <1>1. /\ op \in FanOps /\ op.owner \in Owners
        /\ 1 \in InQueue /\ op = fanWriteQueue[1]
    BY HeadOp DEF InQueue, Inv, TypeOK, QueueTypes
  <1>2. Follows(op) /\ settled[op.owner] = "none" /\ Busy(op.owner)
    BY <1>1 DEF Pinned, WritesFollowSettings, Inv, OneWritePerOwner
  <1>3. /\ settled'[op.owner] = outcome
        /\ \A o \in Owners \ {op.owner} : settled'[o] = settled[o]
        /\ "manual" \in Owners
    BY <1>1 DEF SettleHead, Inv, TypeOK, QueueTypes, Owners
  <1>4. WritesFollowSettings'
    <2> SUFFICES ASSUME NEW i \in InQueue' PROVE Follows(fanWriteQueue[i])'
      BY DEF WritesFollowSettings
    <2>1. i + 1 \in InQueue /\ fanWriteQueue'[i] = fanWriteQueue[i + 1]
      BY QueueDropped DEF Inv, SettleHead
    <2> QED
      BY <2>1 DEF Pinned, WritesFollowSettings, Follows
  <1>5. BegunCycleWrite' /\ CommandOvertakes'
    BY DEF Pinned, BegunCycleWrite, CommandOvertakes, SettleHead
  <1>6. CommandHoldsSettings'
    <2>1. CASE op.owner = "manual"
      BY <1>2, <1>3, <2>1 DEF Pinned, CommandHoldsSettings, Follows
    <2>2. CASE op.owner # "manual"
      BY <1>3, <2>2 DEF Pinned, CommandHoldsSettings
    <2> QED
      BY <2>1, <2>2
  <1>7. OutputIsFixed'
    <2>1. CASE op.owner = "manual"
      BY <1>2, <1>3, <2>1 DEF Pinned, OutputIsFixed
    <2>2. CASE op.owner # "manual" /\ appliedFanPercentage' # op.percent
      BY <1>3, <2>2 DEF Pinned, OutputIsFixed
    <2>3. CASE op.owner # "manual" /\ appliedFanPercentage' = op.percent
               /\ ~UNCHANGED appliedFanPercentage /\ appliedFanPercentage' # Null
      <3>1. op.kind = "write" /\ fanStep > 0
        BY <2>3
      <3>2. op.owner \in {"run", "cycle"}
        BY <1>1, <1>2, <2>3, <3>1 DEF Follows, Owners
      <3>3. doFixedSpeed => op.percent = fixedPercentage
        BY <1>2, <3>1, <3>2 DEF Follows, Pinned, BegunCycleWrite
      <3> QED
        BY <2>3, <3>3 DEF OutputIsFixed
    <2>4. CASE op.owner # "manual" /\ appliedFanPercentage' = Null
      BY <2>4 DEF OutputIsFixed
    <2>5. CASE op.owner # "manual" /\ UNCHANGED appliedFanPercentage
      BY <1>3, <2>5 DEF Pinned, OutputIsFixed
    <2> QED
      BY <2>1, <2>2, <2>3, <2>4, <2>5
  <1> QED
    BY <1>4, <1>5, <1>6, <1>7 DEF Pinned

\* A command is counted, and overtakes the cycle, before its write is queued.
LEMMA PinnedCommandBegins ==
    ASSUME Inv, Pinned, command = Null, NEW percent \in Percent,
           NEW kind \in {"fixedpercentage", "dofixedspeed"}, ApplyFixedFan(kind, percent),
           kind = "fixedpercentage" => doFixedSpeed,
           kind = "dofixedspeed" => percent = fixedPercentage,
           UNCHANGED <<doFixedSpeed, fixedPercentage, cycleVersion, fanStep,
                       appliedFanPercentage, settled, cyclePhase>>
    PROVE  Pinned'
  <1>1. PICK op \in FanOps : op = WriteOp(percent, Null, "manual")
    BY WriteOpType DEF Owners
  <1>2. /\ EnqueueFanWrite(op) /\ op.owner = "manual" /\ op.kind = "write"
        /\ op.expected = Null /\ op.percent = percent
        /\ command' = [kind |-> kind, percent |-> percent]
        /\ manualWriteVersion' = manualWriteVersion + 1
    BY <1>1 DEF ApplyFixedFan, WriteOp
  <1>3. /\ manualWriteVersion \in Nat /\ cycleVersion \in Nat
        /\ cycleVersion <= manualWriteVersion
    BY DEF Inv, TypeOK, SettingTypes, CycleTypes, Pinned, CommandOvertakes
  <1>4. /\ settled["manual"] = "none"
        /\ \A i \in InQueue : fanWriteQueue[i].owner # "manual"
    BY DEF Inv, OneWritePerOwner, Busy, Owners
  <1>5. WritesFollowSettings'
    <2> SUFFICES ASSUME NEW i \in InQueue' PROVE Follows(fanWriteQueue[i])'
      BY DEF WritesFollowSettings
    <2>1. CASE i \in InQueue /\ fanWriteQueue'[i] = fanWriteQueue[i]
      <3>1. fanWriteQueue[i].owner # "manual" /\ cycleVersion' # manualWriteVersion'
        BY <1>2, <1>3, <1>4, <2>1
      <3> QED
        BY <2>1, <3>1 DEF Pinned, WritesFollowSettings, Follows
    <2>2. CASE fanWriteQueue'[i] = op
      BY <1>2, <2>2 DEF Follows
    <2> QED
      BY <1>2, <2>1, <2>2, QueueAppended DEF Inv
  <1>6. BegunCycleWrite'
    BY <1>2, EnqueueKeepsHead DEF Inv, OneFanCall, HeadStays, Pinned, BegunCycleWrite
  <1>7. CommandOvertakes'
    BY <1>2, <1>3 DEF CommandOvertakes
  <1>8. CommandHoldsSettings' /\ OutputIsFixed'
    BY <1>2, <1>4 DEF Pinned, CommandHoldsSettings, OutputIsFixed
  <1> QED
    BY <1>5, <1>6, <1>7, <1>8 DEF Pinned

\* A setting changes while the server is in automatic mode.
LEMMA PinnedInAutomaticMode ==
    ASSUME Inv, Pinned, command = Null, ~doFixedSpeed',
           UNCHANGED <<command, manualWriteVersion, cycleVersion, fanWriteQueue,
                       fanStep, appliedFanPercentage, settled, cyclePhase>>
    PROVE  Pinned'
  <1>1. WritesFollowSettings' /\ BegunCycleWrite'
    BY DEF Pinned, WritesFollowSettings, Follows, InQueue, BegunCycleWrite
  <1>2. CommandOvertakes' /\ CommandHoldsSettings' /\ OutputIsFixed'
    BY DEF Pinned, CommandOvertakes, CommandHoldsSettings, OutputIsFixed
  <1> QED
    BY <1>1, <1>2 DEF Pinned

LEMMA PinnedCommandSettles ==
    ASSUME Inv, Pinned, CommandSettles
    PROVE  Pinned'
  <1>1. /\ settled["manual"] # "none" /\ settled'["manual"] = "none"
        /\ command' = Null
        /\ UNCHANGED <<manualWriteVersion, cycleVersion, fanWriteQueue, fanStep,
                       appliedFanPercentage, cyclePhase>>
    BY DEF CommandSettles, CommandFrame, HandlerWakes, Inv, TypeOK, QueueTypes,
           Owners, cycleVars, collectVars, outputVars
  <1>2. command # Null /\ runPhase = "on"
    BY <1>1 DEF Inv, OneWritePerOwner, CallersBelongToTheRun, Busy, Owners
  <1>3. /\ command \in Commands /\ doFixedSpeed \in BOOLEAN
        /\ cycleVersion \in Nat /\ manualWriteVersion \in Nat
    BY <1>2 DEF Inv, TypeOK, SettingTypes, CycleTypes
  <1>4. WritesFollowSettings'
    <2> SUFFICES ASSUME NEW i \in InQueue PROVE Follows(fanWriteQueue[i])'
      BY <1>1 DEF WritesFollowSettings, InQueue
    <2>1. /\ Busy(fanWriteQueue[i].owner) /\ settled[fanWriteQueue[i].owner] = "none"
          /\ Follows(fanWriteQueue[i])
      BY DEF Inv, OneWritePerOwner, Pinned, WritesFollowSettings
    <2>2. fanWriteQueue[i].owner # "manual" /\ fanWriteQueue[i].owner # "run"
      BY <1>1, <1>2, <2>1 DEF Busy
    <2>3. fanWriteQueue[i].owner = "cycle" => cycleVersion # manualWriteVersion
      BY <1>2, <1>3, <2>1 DEF Busy, Pinned, CommandOvertakes
    <2> QED
      BY <1>1, <2>1, <2>2, <2>3 DEF Follows
  <1>5. BegunCycleWrite' /\ CommandOvertakes' /\ CommandHoldsSettings'
    BY <1>1 DEF Pinned, BegunCycleWrite, CommandOvertakes, CommandHoldsSettings
  <1>6. OutputIsFixed'
    <2>1. CASE settled["manual"] = "ok"
      <3>1. /\ fixedPercentage' = IF command.kind = "fixedpercentage"
                                  THEN command.percent ELSE fixedPercentage
            /\ command.kind \in {"fixedpercentage", "dofixedspeed"}
        BY <1>3, <2>1 DEF CommandSettles, HardwareAccepted, Commands
      <3>2. /\ appliedFanPercentage = command.percent
            /\ command.kind = "dofixedspeed" => command.percent = fixedPercentage
        BY <1>2, <2>1 DEF Pinned, CommandHoldsSettings
      <3> QED
        BY <1>1, <3>1, <3>2 DEF OutputIsFixed
    <2>2. CASE settled["manual"] # "ok"
      <3>1. UNCHANGED <<doFixedSpeed, fixedPercentage>>
        BY <2>2 DEF CommandSettles, HardwareAccepted
      <3> QED
        BY <1>1, <2>2, <3>1 DEF Pinned, OutputIsFixed
    <2> QED
      BY <2>1, <2>2
  <1> QED
    BY <1>4, <1>5, <1>6 DEF Pinned

\* A write of a cycle that has not been overtaken.
LEMMA PinnedCycleWrites ==
    ASSUME Inv, Pinned, cyclePhase = "decide", NEW percent \in Percent, NEW then,
           CycleWrites(percent, then), DecisionFrame,
           doFixedSpeed => percent = fixedPercentage
    PROVE  Pinned'
  <1>1. PICK op \in FanOps : op = WriteOp(percent, cycleVersion, "cycle")
    BY WriteOpType DEF Owners, Inv, TypeOK, CycleTypes
  <1>2. /\ op.owner = "cycle" /\ op.kind = "write" /\ op.expected = cycleVersion
        /\ op.percent = percent /\ EnqueueFanWrite(op)
    BY <1>1 DEF WriteOp, CycleWrites
  <1>3. UNCHANGED <<doFixedSpeed, fixedPercentage, command, manualWriteVersion,
                    cycleVersion, fanStep, appliedFanPercentage, settled>>
    BY DEF DecisionFrame, serverVars, settingVars, manualVars, collectVars, outputVars
  <1>4. Follows(op)'
    BY <1>2, <1>3 DEF Follows
  <1> QED
    BY <1>2, <1>3, <1>4, PinnedEnqueue

LEMMA PinnedDecides ==
    ASSUME Inv, Pinned, Decide
    PROVE  Pinned'
  <1>1. UNCHANGED <<doFixedSpeed, fixedPercentage, command, manualWriteVersion,
                    cycleVersion, fanStep, appliedFanPercentage, settled>>
    BY DEF Decide, DecideAbandon, DecideFixedBlind, DecideFailHot, DecideFixed,
           DecideDirect, DecideRamp, DecisionFrame, serverVars, settingVars,
           manualVars, collectVars, queueVars, outputVars
  <1>2. cyclePhase = "decide"
    BY DEF Decide, DecideAbandon, DecideFixedBlind, DecideFailHot, DecideFixed,
           DecideDirect, DecideRamp, Deciding
  <1>3. CASE UNCHANGED fanWriteQueue
    BY <1>1, <1>2, <1>3, PinnedUntouched
  <1>4. CASE ~UNCHANGED fanWriteQueue
    <2>1. fixedPercentage \in Percent /\ HighestFanTarget(curve) \in Percent
      BY HighestSpeed, CurveIsValid DEF Inv, TypeOK, SettingTypes
    <2>2. CASE DecideFixedBlind \/ DecideFixed
      <3>1. (\E then : CycleWrites(fixedPercentage, then)) /\ DecisionFrame
        BY <1>4, <2>2 DEF DecideFixedBlind, DecideFixed, CycleEndsHere
      <3> QED
        BY <1>2, <2>1, <3>1, PinnedCycleWrites
    <2>3. CASE DecideFailHot
      BY <1>2, <2>1, <2>3, PinnedCycleWrites DEF DecideFailHot
    <2>4. CASE DecideDirect \/ DecideRamp
      <3>1. CurveTarget(curve, lastAverages') \in Percent
        BY <2>4, TargetBelowHighest, CurveIsValid, MeasurementsAssumption DEF
           DecideDirect, DecideRamp, Inv, TypeOK, SettingTypes
      <3>2. CASE DecideDirect
        BY <1>2, <3>1, <3>2, PinnedCycleWrites DEF DecideDirect
      <3>3. CASE DecideRamp
        <4>1. appliedFanPercentage \in Percent
          BY <3>3 DEF DecideRamp, ApplyDirectly, Inv, TypeOK, OutputTypes
        <4>2. GetGradientTarget(appliedFanPercentage, CurveTarget(curve, lastAverages'))
                \in Percent
          BY <3>1, <4>1, GradientBetween
        <4>3. /\ CycleWrites(GetGradientTarget(appliedFanPercentage,
                                              CurveTarget(curve, lastAverages')), "ramp")
              /\ DecisionFrame /\ ~doFixedSpeed
          BY <1>4, <3>3 DEF DecideRamp, RampUp, RampDown, Hold, CycleEndsHere
        <4> QED
          BY <1>2, <4>2, <4>3, PinnedCycleWrites
      <3> QED
        BY <2>4, <3>2, <3>3
    <2>5. CASE DecideAbandon
      BY <1>4, <2>5 DEF DecideAbandon, queueVars
    <2> QED
      BY <2>2, <2>3, <2>4, <2>5 DEF Decide
  <1> QED
    BY <1>3, <1>4

LEMMA PinnedStep ==
    ASSUME Inv, Pinned, Next
    PROVE  Pinned'
  <1> USE DEF serverVars, settingVars, manualVars, runVars, queueVars, outputVars,
              loopVars, cycleVars, collectVars
  <1> DEFINE SettingsStay ==
               UNCHANGED <<doFixedSpeed, fixedPercentage, command, manualWriteVersion,
                           cycleVersion, fanStep, appliedFanPercentage>>
             NoCycleBegins == cyclePhase' # "idle" => cyclePhase # "idle"
  <1>0. "manual" \in Owners /\ settled \in [Owners -> Outcome]
    BY DEF Owners, Inv, TypeOK, QueueTypes
  <1>1. CASE Decide
    BY <1>1, PinnedDecides
  <1>2. CASE CommandSettles
    BY <1>2, PinnedCommandSettles
  <1>3. CASE \/ CycleWriteDone \/ CycleWriteFailed \/ RunEntersLoop \/ RunStops
             \/ RunFails \/ ReinitSettles
    <2>1. \E o \in {"cycle", "run", "reinit"} : settled' = [settled EXCEPT ![o] = "none"]
      BY <1>3 DEF CycleWriteDone, CycleWriteFailed, RunEntersLoop, RunStops, RunFails,
                  ReinitSettles, ResumeFrame, RunFrame
    <2>2. SettingsStay /\ UNCHANGED fanWriteQueue /\ NoCycleBegins
      BY <1>3 DEF CycleWriteDone, CycleWriteFailed, RunEntersLoop, RunStops, RunFails,
                  ReinitSettles, ResumeFrame, RunFrame
    <2>3. settled'["manual"] = settled["manual"]
      BY <1>0, <2>1
    <2> QED
      BY <2>2, <2>3, PinnedUntouched
  <1>4. CASE \/ SensorAnswers \/ SensorFails \/ SensorAnswersLate \/ SensorReadTimesOut
             \/ SampleSleepEnds
    <2>1. SettingsStay /\ UNCHANGED <<fanWriteQueue, settled>> /\ NoCycleBegins
      BY <1>4 DEF SensorAnswers, SensorFails, SensorAnswersLate, SensorReadTimesOut,
                  SampleSleepEnds, CollectFrame, AwaitingRead
    <2> QED
      BY <2>1, PinnedUntouched
  <1>5. CASE \/ StartFanControlShutdown \/ ShutdownRestores \/ ChannelFails
             \/ FirmwareReverts \/ \E by \in Restorers :
                \/ RestoreIssues(by) \/ RestoreCallSucceeds(by) \/ RestoreCallFails(by)
    <2>1. SettingsStay /\ UNCHANGED <<fanWriteQueue, settled>> /\ NoCycleBegins
      BY <1>5 DEF StartFanControlShutdown, ShutdownRestores, ChannelFails,
                  FirmwareReverts, RestoreIssues, RestoreCallSucceeds,
                  RestoreCallFails, RestoreSettles, RestoreFrame
    <2> QED
      BY <2>1, PinnedUntouched
  <1>6. CASE StartCycle
    <2>1. /\ cyclePhase = "idle" /\ command = Null /\ cycleVersion' = manualWriteVersion
          /\ UNCHANGED <<doFixedSpeed, fixedPercentage, command, manualWriteVersion,
                         fanWriteQueue, fanStep, settled, appliedFanPercentage>>
      BY <1>6 DEF StartCycle, NoCollection, CollectFrame, Inv, CallersBelongToTheRun
    <2>2. \A i \in InQueue : fanWriteQueue[i].owner # "cycle"
      BY <2>1 DEF Inv, OneWritePerOwner, Busy
    <2>3. WritesFollowSettings' /\ BegunCycleWrite'
      BY <2>1, <2>2 DEF Pinned, WritesFollowSettings, Follows, InQueue, BegunCycleWrite
    <2>4. CommandOvertakes' /\ CommandHoldsSettings' /\ OutputIsFixed'
      BY <2>1 DEF Pinned, CommandOvertakes, CommandHoldsSettings, OutputIsFixed,
                  Inv, TypeOK, SettingTypes
    <2> QED
      BY <2>3, <2>4 DEF Pinned
  <1>7. CASE RunStarts \/ ReinitTick
    <2>1. PICK who \in {"run", "reinit"} : EnqueueFanWrite(InitOp(who))
      BY <1>7 DEF RunStarts, ReinitTick
    <2>2. PICK init \in FanOps : init = InitOp(who)
      BY InitOpType DEF Owners
    <2>3. SettingsStay /\ UNCHANGED settled /\ NoCycleBegins
      BY <1>7 DEF RunStarts, ReinitTick
    <2>4. EnqueueFanWrite(init) /\ Follows(init)'
      BY <2>1, <2>2 DEF InitOp, Follows
    <2> QED
      BY <2>3, <2>4, PinnedEnqueue
  <1>8. CASE RunAppliesFirstSpeed
    <2>1. HighestFanTarget(curve) \in Percent /\ fixedPercentage \in Percent
      BY HighestSpeed, CurveIsValid DEF Inv, TypeOK, SettingTypes
    <2>2. PICK percent \in Percent :
            /\ EnqueueFanWrite(WriteOp(percent, Null, "run"))
            /\ doFixedSpeed => percent = fixedPercentage
      BY <1>8, <2>1 DEF RunAppliesFirstSpeed
    <2>3. PICK op \in FanOps : op = WriteOp(percent, Null, "run")
      BY WriteOpType DEF Owners
    <2>4. /\ SettingsStay /\ NoCycleBegins
          /\ settled' = [settled EXCEPT !["run"] = "none"]
      BY <1>8 DEF RunAppliesFirstSpeed, RunFrame
    <2>5. EnqueueFanWrite(op) /\ Follows(op)'
      BY <2>2, <2>3, <2>4 DEF WriteOp, Follows
    <2>6. settled'["manual"] = settled["manual"]
      BY <1>0, <2>4
    <2> QED
      BY <2>4, <2>5, <2>6, PinnedEnqueue
  <1>9. CASE HandleCommand
    <2>1. /\ command = Null /\ UNCHANGED <<cycleVersion, fanStep, appliedFanPercentage,
                                           settled, cyclePhase>>
      BY <1>9 DEF HandleCommand, HandleFixedPercentage, HandleDoFixedSpeed,
                  HandleFanTable, MayHandle, CommandFrame
    <2>2. CASE HandleFixedPercentage
      <3>1. CASE doFixedSpeed
        <4>1. /\ \E percent \in Percentages : ApplyFixedFan("fixedpercentage", percent)
              /\ UNCHANGED <<doFixedSpeed, fixedPercentage>>
          BY <2>2, <3>1 DEF HandleFixedPercentage
        <4> QED
          BY <2>1, <3>1, <4>1, PercentagesAssumption, PinnedCommandBegins
      <3>2. CASE ~doFixedSpeed
        <4>1. /\ ~doFixedSpeed'
              /\ UNCHANGED <<command, manualWriteVersion, fanWriteQueue>>
          BY <2>2, <3>2 DEF HandleFixedPercentage
        <4> QED
          BY <2>1, <4>1, PinnedInAutomaticMode
      <3> QED
        BY <3>1, <3>2
    <2>3. CASE HandleDoFixedSpeed
      <3>1. CASE ApplyFixedFan("dofixedspeed", fixedPercentage) /\ UNCHANGED doFixedSpeed
        <4>1. UNCHANGED fixedPercentage /\ fixedPercentage \in Percent
          BY <2>3 DEF HandleDoFixedSpeed, Inv, TypeOK, SettingTypes
        <4> QED
          BY <2>1, <3>1, <4>1, PinnedCommandBegins
      <3>2. CASE ~(ApplyFixedFan("dofixedspeed", fixedPercentage) /\ UNCHANGED doFixedSpeed)
        <4>1. /\ ~doFixedSpeed'
              /\ UNCHANGED <<command, manualWriteVersion, fanWriteQueue>>
          BY <2>3, <3>2 DEF HandleDoFixedSpeed
        <4> QED
          BY <2>1, <4>1, PinnedInAutomaticMode
      <3> QED
        BY <3>1, <3>2
    <2>4. CASE HandleFanTable
      <3>1. SettingsStay /\ UNCHANGED fanWriteQueue
        BY <2>1, <2>4 DEF HandleFanTable
      <3> QED
        BY <2>1, <3>1, PinnedUntouched
    <2> QED
      BY <1>9, <2>2, <2>3, <2>4 DEF HandleCommand
  <1>10. CASE DropFanWrite
    <2>1. /\ fanWriteQueue # <<>>
          /\ UNCHANGED <<doFixedSpeed, fixedPercentage, command, manualWriteVersion,
                         cycleVersion, cyclePhase, appliedFanPercentage>>
      BY <1>10 DEF DropFanWrite, HeadWaits, FanFrame
    <2>2. Head(fanWriteQueue).owner = "manual" => Head(fanWriteQueue).expected = Null
      <3>1. 1 \in InQueue /\ Head(fanWriteQueue) = fanWriteQueue[1]
        BY <2>1 DEF InQueue, Inv, TypeOK, QueueTypes
      <3> QED
        BY <3>1 DEF Pinned, WritesFollowSettings, Follows
    <2>3. \/ SettleHead("error")
          \/ SettleHead("ok") /\ Head(fanWriteQueue).owner # "manual"
      BY <1>10, <2>2 DEF DropFanWrite, Superseded
    <2> QED
      BY <2>1, <2>3, PinnedSettle
  <1>11. CASE StartFanWrite
    <2>1. /\ fanWriteQueue # <<>> /\ ~Superseded(Head(fanWriteQueue)) /\ fanStep' = 1
          /\ UNCHANGED <<doFixedSpeed, fixedPercentage, command, manualWriteVersion,
                         cycleVersion, cyclePhase, appliedFanPercentage, fanWriteQueue,
                         settled>>
      BY <1>11 DEF StartFanWrite, HeadWaits, FanFrame
    <2>2. 1 \in InQueue /\ Head(fanWriteQueue) = fanWriteQueue[1]
      BY <2>1 DEF InQueue, Inv, TypeOK, QueueTypes
    <2>3. BegunCycleWrite'
      <3> SUFFICES ASSUME Head(fanWriteQueue).owner = "cycle"
                   PROVE  /\ doFixedSpeed => Head(fanWriteQueue).percent = fixedPercentage
                          /\ settled["manual"] = "none"
        BY <2>1 DEF BegunCycleWrite
      <3>1. Follows(Head(fanWriteQueue)) /\ cycleVersion # Null
        BY <2>2, NullAssumption DEF Pinned, WritesFollowSettings, Inv, TypeOK, CycleTypes
      <3>2. cycleVersion = manualWriteVersion /\ ~(pendingManualWrites > 0)
        BY <2>1, <3>1 DEF Superseded, Follows
      <3>3. command = Null
        BY <3>2 DEF Inv, CallersBelongToTheRun
      <3>4. settled["manual"] = "none"
        BY <3>3 DEF Inv, OneWritePerOwner, Busy, Owners
      <3> QED
        BY <3>1, <3>2, <3>4 DEF Follows
    <2>4. WritesFollowSettings'
      BY <2>1 DEF Pinned, WritesFollowSettings, Follows, InQueue
    <2>5. CommandOvertakes' /\ CommandHoldsSettings' /\ OutputIsFixed'
      BY <2>1 DEF Pinned, CommandOvertakes, CommandHoldsSettings, OutputIsFixed
    <2> QED
      BY <2>3, <2>4, <2>5 DEF Pinned
  <1>12. CASE FanCallContinues
    <2>1. /\ HeadCallBy("fan") /\ fanStep' = fanStep + 1
          /\ UNCHANGED <<doFixedSpeed, fixedPercentage, command, manualWriteVersion,
                         cycleVersion, cyclePhase, appliedFanPercentage, fanWriteQueue,
                         settled>>
      BY <1>12 DEF FanCallContinues, FanFrame
    <2>2. fanStep > 0
      BY <2>1, FanCallIsCurrent DEF Inv
    <2>3. WritesFollowSettings' /\ BegunCycleWrite'
      BY <2>1, <2>2 DEF Pinned, WritesFollowSettings, Follows, InQueue, BegunCycleWrite
    <2>4. CommandOvertakes' /\ CommandHoldsSettings' /\ OutputIsFixed'
      BY <2>1 DEF Pinned, CommandOvertakes, CommandHoldsSettings, OutputIsFixed
    <2> QED
      BY <2>3, <2>4 DEF Pinned
  <1>13. CASE FanCallCompletes \/ FanCallFails
    <2>1. /\ HeadCallBy("fan") /\ settled["manual"] = "none"
          /\ UNCHANGED <<doFixedSpeed, fixedPercentage, command, manualWriteVersion,
                         cycleVersion, cyclePhase>>
      BY <1>0, <1>13 DEF FanCallCompletes, FanCallFails, FanFrame, Quiescent
    <2>2. /\ fanWriteQueue # <<>> /\ fanStep > 0
          /\ Head(fanWriteQueue) \in FanOps
          /\ 1 \in InQueue /\ Head(fanWriteQueue) = fanWriteQueue[1]
      BY <2>1, FanCallIsCurrent, HeadOp DEF Inv, InQueue, TypeOK, QueueTypes
    <2>3. Head(fanWriteQueue).owner = "manual" => Head(fanWriteQueue).kind = "write"
      BY <2>2 DEF Pinned, WritesFollowSettings, Follows
    <2>4. Head(fanWriteQueue).kind \in {"init", "write"}
      BY <2>2 DEF FanOps
    <2>5. PICK outcome \in {"ok", "error"} :
            SettleHead(outcome) /\ Confirm(Head(fanWriteQueue), outcome)
      BY <1>13 DEF FanCallCompletes, FanCallFails
    <2>6. CASE Head(fanWriteQueue).kind = "init"
      BY <2>1, <2>2, <2>3, <2>5, <2>6, PinnedSettle DEF Confirm
    <2>7. CASE Head(fanWriteQueue).kind = "write" /\ outcome = "ok"
      BY <2>1, <2>2, <2>5, <2>7, PinnedSettle DEF Confirm
    <2>8. CASE Head(fanWriteQueue).kind = "write" /\ outcome = "error"
      BY <2>1, <2>2, <2>5, <2>8, PinnedSettle DEF Confirm
    <2> QED
      BY <2>4, <2>6, <2>7, <2>8
  <1> QED
    BY <1>1, <1>2, <1>3, <1>4, <1>5, <1>6, <1>7, <1>8, <1>9, <1>10, <1>11, <1>12, <1>13
       DEF Next, FanControlStep, Microtask, NativeCallSettles

LEMMA SettledSpeedStep ==
    ASSUME Inv, Inv', SettledSpeedIsReal, Next
    PROVE  SettledSpeedIsReal'
  <1> USE DEF serverVars, settingVars, manualVars, runVars, queueVars, outputVars,
              loopVars, platformVars, collectVars, cycleVars
  <1> DEFINE Woken == \E o \in Owners : settled[o] # "none"
  <1>0. settled \in [Owners -> Outcome]
    BY DEF Inv, TypeOK, QueueTypes
  \* Callbacks run when no write has settled, and most settle none.
  <1>1. ASSUME Quiescent, UNCHANGED settled PROVE SettledSpeedIsReal'
    BY <1>1 DEF Quiescent, SettledSpeedIsReal
  <1>2. ASSUME UNCHANGED <<firmware, appliedFanPercentage>>, Woken' => Woken
        PROVE  SettledSpeedIsReal'
    BY <1>2 DEF SettledSpeedIsReal, FansAt
  <1>3. ASSUME fanStep' = 0 PROVE SettledSpeedIsReal'
    BY <1>3 DEF Inv, ConfirmedSpeedIsReal, WritingSpeed, SettledSpeedIsReal
  <1>4. CASE DropFanWrite \/ FanCallCompletes \/ FanCallFails
    BY <1>3, <1>4 DEF DropFanWrite, FanCallCompletes, FanCallFails, SettleHead
  <1>5. CASE \/ RunStarts \/ ReinitTick \/ StartFanControlShutdown \/ ShutdownRestores
             \/ ChannelFails \/ FirmwareReverts \/ FanCallContinues
    BY <1>1, <1>5 DEF RunStarts, ReinitTick, StartFanControlShutdown, ShutdownRestores,
                      ChannelFails, FirmwareReverts, FanCallContinues, RestoreFrame
  <1>6. CASE SensorAction \/ SensorReadTimesOut
    BY <1>1, <1>6 DEF SensorAction, StartCycle, SensorAnswers, SensorFails,
                      SensorAnswersLate, SampleSleepEnds, SensorReadTimesOut, CollectFrame
  <1>7. CASE HandleCommand
    BY <1>1, <1>7 DEF HandleCommand, HandleFixedPercentage, HandleDoFixedSpeed,
                      HandleFanTable, MayHandle
  <1>8. ASSUME NEW by \in Restorers, RestoreCallSucceeds(by) \/ RestoreCallFails(by)
        PROVE  SettledSpeedIsReal'
    BY <1>1, <1>8 DEF RestoreCallSucceeds, RestoreCallFails, RestoreSettles, RestoreFrame
  <1>9. CASE StartFanWrite \/ \E by \in Restorers : RestoreIssues(by)
    BY <1>2, <1>9 DEF StartFanWrite, RestoreIssues, RestoreFrame
  <1>10. CASE Decide
    <2>1. UNCHANGED <<settled, firmware, appliedFanPercentage>>
      BY <1>10 DEF Decide, DecideAbandon, DecideFixedBlind, DecideFailHot, DecideFixed,
                   DecideDirect, DecideRamp, DecisionFrame
    <2> QED
      BY <1>2, <2>1
  <1>11. CASE \/ CycleWriteDone \/ CycleWriteFailed \/ RunEntersLoop \/ RunStops
              \/ RunAppliesFirstSpeed \/ RunFails \/ ReinitSettles \/ CommandSettles
    <2>1. /\ \E o \in Owners : settled' = [settled EXCEPT ![o] = "none"]
          /\ UNCHANGED <<firmware, appliedFanPercentage>>
      BY <1>11 DEF CycleWriteDone, CycleWriteFailed, RunEntersLoop, RunStops, RunFails,
                   RunAppliesFirstSpeed, ReinitSettles, CommandSettles, ResumeFrame,
                   RunFrame, CommandFrame, Owners
    <2>2. Woken' => Woken
      BY <1>0, <2>1
    <2> QED
      BY <1>2, <2>1, <2>2
  <1> QED
    BY <1>4, <1>5, <1>6, <1>7, <1>8, <1>9, <1>10, <1>11
       DEF Next, FanControlStep, Microtask, NativeCallSettles, SensorAction

LEMMA InitOutput == Init => OutputInv
  <1> SUFFICES ASSUME Init PROVE OutputInv
    OBVIOUS
  <1> USE DEF Init
  <1>1. InQueue = {} /\ \A o \in Owners : settled[o] = "none"
    BY DEF InQueue
  <1>2. WritesFollowSettings /\ BegunCycleWrite /\ CommandOvertakes
    BY <1>1 DEF WritesFollowSettings, BegunCycleWrite, CommandOvertakes
  <1>3. CommandHoldsSettings /\ OutputIsFixed /\ SettledSpeedIsReal
    BY <1>1 DEF CommandHoldsSettings, OutputIsFixed, SettledSpeedIsReal
  <1> QED
    BY <1>2, <1>3 DEF OutputInv, Pinned

\* The second invariant holds too: queued writes, the command in progress and
\* the confirmed output agree with the settings they were made for.
THEOREM OutputHolds == Spec => []OutputInv
  <1>1. Inv /\ Inv' /\ OutputInv /\ [Next]_vars => OutputInv'
    <2> SUFFICES ASSUME Inv, Inv', OutputInv, [Next]_vars PROVE OutputInv'
      OBVIOUS
    <2>1. CASE Next
      BY <2>1, PinnedStep, SettledSpeedStep DEF OutputInv
    <2>2. CASE UNCHANGED vars
      <3> USE <2>2 DEF vars, serverVars, settingVars, manualVars, queueVars, outputVars,
                       loopVars, cycleVars, collectVars, platformVars
      <3>1. Pinned'
        BY PinnedUntouched DEF OutputInv
      <3>2. SettledSpeedIsReal'
        BY DEF OutputInv, SettledSpeedIsReal, FansAt
      <3> QED
        BY <3>1, <3>2 DEF OutputInv
    <2> QED
      BY <2>1, <2>2
  <1> QED
    BY <1>1, InitOutput, InvHolds, PTL DEF Spec

\* In fixed mode with no command in progress the confirmed output is the fixed
\* percentage: no automatic write that was decided before the mode, or the
\* percentage, changed gets through the write queue.
THEOREM FixedModeHolds == Spec => []FixedModeOwnsFans
  <1>1. Inv /\ OutputInv => FixedModeOwnsFans
    <2>1. Inv /\ command = Null => settled["manual"] = "none"
      BY DEF Inv, OneWritePerOwner, Busy, Owners
    <2> QED
      BY <2>1 DEF OutputInv, Pinned, OutputIsFixed, FixedModeOwnsFans
  <1> QED
    BY <1>1, InvHolds, OutputHolds, PTL

\* A published speed is what both fans do at that moment.
THEOREM TelemetryTrue == Spec => TelemetryIsReal
  <1> DEFINE Goal == activity' # activity /\ activity' # Null
                     => \/ activity'.speed = Null
                        \/ FansAt(firmware', activity'.speed)
  <1>1. ASSUME Inv, OutputInv, Next PROVE Goal
    <2> SUFFICES ASSUME activity' # activity, activity' # Null
                 PROVE  \/ activity'.speed = Null
                        \/ FansAt(firmware', activity'.speed)
      OBVIOUS
    <2> USE DEF loopVars, cycleVars
    <2>1. CASE Decide
      <3>1. /\ activity'.speed = appliedFanPercentage
            /\ Deciding /\ UNCHANGED firmware
        BY <2>1 DEF Decide, DecideAbandon, DecideFixedBlind, DecideFailHot, DecideFixed,
                    DecideDirect, DecideRamp, RampUp, RampDown, Hold, CycleWrites,
                    CycleEndsHere, Publish, DecisionFrame, platformVars
      <3>2. /\ cyclePhase = "decide" /\ command = Null /\ runPhase = "on"
        BY <1>1, <3>1 DEF Deciding, Overtaken, Inv, CallersBelongToTheRun
      <3>3. ~WritingSpeed
        <4> SUFFICES ASSUME WritingSpeed PROVE FALSE
          OBVIOUS
        <4>1. /\ fanWriteQueue # <<>> /\ Head(fanWriteQueue).kind = "write"
              /\ 1 \in InQueue /\ Head(fanWriteQueue) = fanWriteQueue[1]
          BY <1>1 DEF WritingSpeed, Inv, OneFanCall, InQueue, TypeOK, QueueTypes
        <4>2. Busy(Head(fanWriteQueue).owner) /\ Follows(Head(fanWriteQueue))
          BY <1>1, <4>1 DEF Inv, OneWritePerOwner, OutputInv, Pinned, WritesFollowSettings
        <4> QED
          BY <3>2, <4>1, <4>2 DEF Busy, Follows
      <3> QED
        BY <1>1, <3>1, <3>3 DEF Inv, ConfirmedSpeedIsReal, FansAt
    <2>2. CASE CycleWriteDone
      <3>1. /\ activity'.speed = appliedFanPercentage
            /\ settled["cycle"] # "none" /\ UNCHANGED firmware
        BY <2>2 DEF CycleWriteDone, Publish, ResumeFrame, platformVars
      <3> QED
        BY <1>1, <3>1 DEF OutputInv, SettledSpeedIsReal, FansAt, Owners
    <2>3. CASE CycleWriteFailed
      BY <2>3 DEF CycleWriteFailed, Publish
    <2>4. CASE HandleCommand \/ CommandSettles
      BY <2>4 DEF HandleCommand, HandleFixedPercentage, HandleDoFixedSpeed,
                  HandleFanTable, CommandSettles, CommandFrame
    <2>5. CASE SensorAction \/ SensorReadTimesOut
      BY <2>5 DEF SensorAction, StartCycle, SensorAnswers, SensorFails,
                  SensorAnswersLate, SampleSleepEnds, SensorReadTimesOut
    <2>6. CASE \/ RunStarts \/ RunAppliesFirstSpeed \/ RunEntersLoop \/ RunStops
               \/ RunFails \/ ReinitTick \/ ReinitSettles
      BY <2>6 DEF RunStarts, RunAppliesFirstSpeed, RunEntersLoop, RunStops, RunFails,
                  ReinitTick, ReinitSettles, RunFrame
    <2>7. CASE \/ DropFanWrite \/ StartFanWrite \/ FanCallContinues \/ FanCallCompletes
               \/ FanCallFails
      BY <2>7 DEF DropFanWrite, StartFanWrite, FanCallContinues, FanCallCompletes,
                  FanCallFails, FanFrame
    <2>8. CASE \/ StartFanControlShutdown \/ ShutdownRestores \/ ChannelFails
               \/ FirmwareReverts \/ \E by \in Restorers :
                  \/ RestoreIssues(by) \/ RestoreCallSucceeds(by) \/ RestoreCallFails(by)
      BY <2>8 DEF StartFanControlShutdown, ShutdownRestores, ChannelFails,
                  FirmwareReverts, RestoreIssues, RestoreCallSucceeds,
                  RestoreCallFails, RestoreSettles, RestoreFrame
    <2> QED
      BY <1>1, <2>1, <2>2, <2>3, <2>4, <2>5, <2>6, <2>7, <2>8
         DEF Next, FanControlStep, Microtask, NativeCallSettles, SensorAction
  <1>2. [Next]_vars /\ Inv /\ OutputInv => [Goal]_vars
    BY <1>1
  <1> QED
    BY <1>2, InvHolds, OutputHolds, PTL DEF Spec, TelemetryIsReal

-----------------------------------------------------------------------------
(* The history of cooling and of saved curves *)

\* A decision in automatic mode that knows its output finds the ramp-down
\* counter covered by the cooling cycles before it.
LEMMA DownCycleIsCovered ==
    ASSUME Inv, HistoryInv, Deciding, appliedFanPercentage # Null
    PROVE  DownCycle <= coolingCycles + 1
  <1>1. /\ cyclePhase = "decide" /\ ~isShuttingDown /\ cycleVersion = manualWriteVersion
        /\ previousVersion \in Nat /\ manualWriteVersion \in Nat /\ coolingCycles \in Nat
    BY DEF Deciding, Overtaken, Inv, TypeOK, SettingTypes, RampTypes, HistoryInv
  <1>2. CASE HistoryRetired
    BY <1>1, <1>2 DEF DownCycle
  <1>3. CASE ~HistoryRetired
    <2>1. ~(previousVersion < manualWriteVersion)
      BY <1>1, <1>3 DEF HistoryRetired
    <2> QED
      BY <1>1, <1>3, <2>1 DEF DownCycle, HistoryInv, CoolingIsCounted
  <1> QED
    BY <1>2, <1>3

\* A step that neither decides, ends a cycle's write nor starts a command.
LEMMA HistoryKept ==
    ASSUME Inv, HistoryInv, HistoryNext, ~HandleFanTable, doFixedSpeed' \in BOOLEAN,
           UNCHANGED <<rampDownCycle, previousVersion, manualWriteVersion, curveSeen>>,
           command' # Null => command # Null,
           settled["cycle"] # "none" => settled'["cycle"] = settled["cycle"],
           settled'["cycle"] = "error" => appliedFanPercentage' = Null \/ isShuttingDown',
           \/ appliedFanPercentage' \in {appliedFanPercentage, Null}
           \/ previousVersion < manualWriteVersion
           \/ cyclePhase = "write"
           \/ rampDownCycle = 1,
           isShuttingDown => isShuttingDown',
           Deciding => cyclePhase' = "decide",
           cyclePhase' = "write" <=> cyclePhase = "write",
           cyclePhase' = "write" => UNCHANGED cycleThen,
           runPhase' \in BeforeLoop => runPhase \in BeforeLoop
    PROVE  HistoryInv'
  <1>1. coolingCycles' = coolingCycles /\ coolingCycles \in Nat
    <2>1. ~Cooling
      BY DEF Cooling, AutomaticDecision
    <2>2. ~Disturbed
      BY DEF Disturbed
    <2> QED
      BY <2>1, <2>2 DEF HistoryNext, HistoryInv
  <1>2. newCurve' # "none" => newCurve' = newCurve /\ ~doFixedSpeed'
    <2>1. (HandleFanTable /\ ~doFixedSpeed) \/ AutomaticDecision \/ doFixedSpeed'
             \/ newCurve' = newCurve
      BY DEF HistoryNext
    <2>2. AutomaticDecision \/ doFixedSpeed' => newCurve' = "none"
      <3>1. ~(HandleFanTable /\ ~doFixedSpeed)
        OBVIOUS
      <3> QED
        BY <3>1 DEF HistoryNext
    <2> QED
      BY <2>1, <2>2
  <1>3. CoolingIsCounted'
    BY <1>1 DEF HistoryInv, CoolingIsCounted
  <1>4. SavedCurveIsUnseen'
    BY <1>2 DEF HistoryInv, SavedCurveIsUnseen
  <1> QED
    BY <1>1, <1>2, <1>3, <1>4 DEF HistoryInv

LEMMA HistoryDecides ==
    ASSUME Inv, HistoryInv, HistoryNext, Decide, ~DecideAbandon
    PROVE  HistoryInv'
  <1>1. /\ Deciding /\ previousVersion' = cycleVersion
        /\ cyclePhase' \in {"idle", "write"}
        /\ UNCHANGED <<manualWriteVersion, command, settled, runPhase, doFixedSpeed,
                       appliedFanPercentage, isShuttingDown>>
    BY DEF Decide, DecideFixedBlind, DecideFailHot, DecideFixed, DecideDirect,
           DecideRamp, RampUp, RampDown, Hold, CycleWrites, CycleEndsHere,
           DecisionFrame, serverVars, settingVars, manualVars, runVars, outputVars
  <1>2. /\ cyclePhase = "decide" /\ command = Null /\ runPhase = "on"
        /\ ~isShuttingDown /\ cycleVersion = manualWriteVersion
        /\ manualWriteVersion \in Nat /\ coolingCycles \in Nat
        /\ rampDownCycle \in Nat
    BY <1>1 DEF Deciding, Overtaken, Inv, CallersBelongToTheRun, TypeOK,
                SettingTypes, RampTypes, HistoryInv
  <1>3. settled["cycle"] = "none" /\ ~HandleFanTable
    BY <1>1, <1>2 DEF Inv, OneWritePerOwner, Busy, Owners, HandleFanTable, CommandFrame,
                      cycleVars
  <1>4. coolingCycles' \in Nat /\ (Cooling => coolingCycles' = coolingCycles + 1)
    BY <1>2 DEF HistoryNext
  <1>5. CoolingIsCounted'
    <2>1. CASE cyclePhase' = "write" \/ rampDownCycle' = 1
      BY <1>4, <2>1 DEF CoolingIsCounted
    <2>2. CASE ~(cyclePhase' = "write" \/ rampDownCycle' = 1)
      <3>1. /\ DecideRamp /\ rampDownCycle' = DownCycle + 1
            /\ CurveTarget(curve, lastAverages') < appliedFanPercentage
        BY <2>2 DEF Decide, DecideFixedBlind, DecideFailHot, DecideFixed, DecideDirect,
                    DecideRamp, RampUp, RampDown, Hold, CycleWrites
      <3>2. Cooling
        BY <1>1, <3>1 DEF DecideRamp, ApplyDirectly, Cooling, AutomaticDecision
      <3>3. DownCycle <= coolingCycles + 1
        BY <1>1, <3>2, DownCycleIsCovered DEF Cooling
      <3>4. DownCycle \in Nat
        BY <1>2 DEF DownCycle
      <3> QED
        BY <1>2, <1>4, <3>1, <3>2, <3>3, <3>4 DEF CoolingIsCounted
    <2> QED
      BY <2>1, <2>2
  <1>6. SavedCurveIsUnseen'
    <2> SUFFICES ASSUME newCurve' = "saved"
                 PROVE  (~curveSeen /\ ~doFixedSpeed
                          /\ (cyclePhase = "write" => cycleThen = "hot"))'
      BY DEF SavedCurveIsUnseen
    <2>1. newCurve = "saved" /\ ~AutomaticDecision /\ ~doFixedSpeed'
      BY <1>3 DEF HistoryNext
    <2>2. cycleFailed /\ ~doFixedSpeed
      BY <1>1, <2>1 DEF AutomaticDecision
    <2>3. DecideFailHot
      BY <2>2 DEF Decide, DecideFixedBlind, DecideFixed, DecideDirect, DecideRamp
    <2> QED
      BY <2>1, <2>3 DEF DecideFailHot, CycleWrites, HistoryInv, SavedCurveIsUnseen
  <1> QED
    BY <1>1, <1>2, <1>3, <1>4, <1>5, <1>6 DEF HistoryInv, BeforeLoop

LEMMA HistoryStep ==
    ASSUME Inv, TypeOK', OutputInv, HistoryInv, HistoryNext
    PROVE  HistoryInv'
  <1> USE DEF serverVars, settingVars, manualVars, runVars, queueVars, outputVars,
              loopVars, cycleVars, collectVars, rampVars
  <1>0. /\ "cycle" \in Owners /\ settled \in [Owners -> Outcome]
        /\ doFixedSpeed' \in BOOLEAN /\ coolingCycles \in Nat
        /\ manualWriteVersion \in Nat /\ previousVersion \in Nat
    BY DEF Owners, Inv, TypeOK, QueueTypes, SettingTypes, RampTypes, HistoryInv
  <1>1. CASE HandleFanTable
    <2>1. /\ runPhase = "on"
          /\ UNCHANGED <<rampDownCycle, previousVersion, manualWriteVersion, command,
                         settled, appliedFanPercentage, isShuttingDown, cyclePhase,
                         cycleThen, runPhase, doFixedSpeed>>
          /\ curveSeen' = FALSE
      BY <1>1 DEF HandleFanTable, MayHandle, CommandFrame
    <2>2. /\ coolingCycles' = coolingCycles
      BY <2>1 DEF HistoryNext, Cooling, AutomaticDecision, Disturbed, Deciding
    <2>3. /\ newCurve' = "saved" => ~doFixedSpeed /\ cyclePhase # "write"
      BY <1>0, <1>1, <2>1 DEF HistoryNext
    <2> QED
      BY <2>1, <2>2, <2>3 DEF HistoryInv, CoolingIsCounted, SavedCurveIsUnseen, BeforeLoop
  <1>2. CASE Decide /\ ~DecideAbandon
    BY <1>2, HistoryDecides
  <1>3. CASE CycleWriteDone \/ CycleWriteFailed
    <2>1. /\ settled["cycle"] # "none" /\ settled'["cycle"] = "none"
          /\ cyclePhase' = "idle"
          /\ UNCHANGED <<previousVersion, manualWriteVersion, command, doFixedSpeed,
                         appliedFanPercentage, isShuttingDown, runPhase>>
      BY <1>0, <1>3 DEF CycleWriteDone, CycleWriteFailed, ResumeFrame
    <2>2. cyclePhase = "write" /\ runPhase = "on"
      BY <2>1 DEF Inv, OneWritePerOwner, CallersBelongToTheRun, Busy, Owners
    <2>3. coolingCycles' = 0 /\ newCurve' \in {"none", newCurve} \cup {"savedDuringWrite"}
      BY <2>1, <2>2 DEF HistoryNext, Cooling, AutomaticDecision, Disturbed, Deciding
    <2>4. newCurve' = "saved" => ~doFixedSpeed' /\ newCurve = "saved"
      BY <2>2 DEF HistoryNext
    <2>5. CoolingIsCounted'
      <3>1. CASE CycleWriteDone
        BY <2>3, <3>1 DEF CycleWriteDone, CoolingIsCounted
      <3>2. CASE CycleWriteFailed
        BY <2>1, <3>2 DEF CycleWriteFailed, CoolingIsCounted, HistoryInv
      <3> QED
        BY <1>3, <3>1, <3>2
    <2>6. SavedCurveIsUnseen'
      BY <1>3, <2>1, <2>2, <2>4
         DEF CycleWriteDone, CycleWriteFailed, SavedCurveIsUnseen, HistoryInv
    <2> QED
      BY <2>1, <2>2, <2>3, <2>5, <2>6 DEF HistoryInv, BeforeLoop
  <1>4. CASE RunEntersLoop
    <2>1. /\ runPhase = "first" /\ runPhase' = "on" /\ rampDownCycle' = 1
          /\ previousVersion' = manualWriteVersion
          /\ settled'["cycle"] = settled["cycle"]
          /\ UNCHANGED <<manualWriteVersion, command, appliedFanPercentage,
                         isShuttingDown, cyclePhase>>
      BY <1>0, <1>4 DEF RunEntersLoop, RunFrame
    <2>2. command = Null /\ newCurve = "none"
      BY <2>1 DEF Inv, CallersBelongToTheRun, HistoryInv, BeforeLoop
    <2>3. newCurve' # "saved" /\ SavedCurveIsUnseen'
      BY <2>1, <2>2 DEF HistoryNext, HandleFanTable, MayHandle, SavedCurveIsUnseen
    <2>4. coolingCycles' \in Nat /\ CoolingIsCounted'
      BY <1>0, <2>1 DEF HistoryNext, CoolingIsCounted
    <2>5. previousVersion' <= manualWriteVersion' /\ command' = Null
      BY <1>0, <2>1, <2>2
    <2> QED
      BY <2>1, <2>3, <2>4, <2>5 DEF HistoryInv, BeforeLoop
  <1>5. CASE /\ HandleFixedPercentage \/ HandleDoFixedSpeed
             /\ manualWriteVersion' = manualWriteVersion + 1
    <2>1. /\ runPhase = "on" /\ ~HandleFanTable
          /\ UNCHANGED <<previousVersion, appliedFanPercentage, settled, curveSeen,
                         cyclePhase, cycleThen, runPhase, isShuttingDown>>
      BY <1>0, <1>5 DEF HandleFixedPercentage, HandleDoFixedSpeed, HandleFanTable,
                        MayHandle, CommandFrame
    <2>2. coolingCycles' \in Nat
      BY <1>0 DEF HistoryNext
    <2>3. newCurve' = "saved" => newCurve = "saved" /\ ~doFixedSpeed'
      BY <2>1 DEF HistoryNext
    <2>4. previousVersion' < manualWriteVersion' /\ previousVersion' <= manualWriteVersion'
      BY <1>0, <1>5, <2>1 DEF HistoryInv
    <2>5. CoolingIsCounted' /\ SavedCurveIsUnseen'
      BY <2>1, <2>3, <2>4 DEF HistoryInv, CoolingIsCounted, SavedCurveIsUnseen
    <2> QED
      BY <2>1, <2>2, <2>4, <2>5 DEF HistoryInv, BeforeLoop
  <1>6. CASE /\ HandleFixedPercentage \/ HandleDoFixedSpeed
             /\ manualWriteVersion' # manualWriteVersion + 1 /\ ~HandleFanTable
    <2>1. UNCHANGED <<rampDownCycle, previousVersion, curveSeen, settled, command,
                      manualWriteVersion, appliedFanPercentage, isShuttingDown,
                      cyclePhase, cycleThen, runPhase>>
      BY <1>6 DEF HandleFixedPercentage, HandleDoFixedSpeed, ApplyFixedFan, CommandFrame
    <2> QED
      BY <1>0, <1>6, <2>1, HistoryKept DEF Deciding, HistoryInv
  <1>7. CASE DropFanWrite
    <2>1. /\ fanWriteQueue # <<>>
          /\ UNCHANGED <<rampDownCycle, previousVersion, curveSeen, command,
                         manualWriteVersion, appliedFanPercentage, isShuttingDown,
                         cyclePhase, cycleThen, runPhase>>
          /\ \/ SettleHead("error") /\ isShuttingDown
             \/ SettleHead("ok")
      BY <1>7 DEF DropFanWrite, HeadWaits, FanFrame
    <2>2. settled[Head(fanWriteQueue).owner] = "none" /\ Head(fanWriteQueue).owner \in Owners
      BY <2>1, HeadOp DEF Inv, OneWritePerOwner, InQueue, TypeOK, QueueTypes
    <2>3. /\ settled["cycle"] # "none" => settled'["cycle"] = settled["cycle"]
          /\ settled'["cycle"] = "error" => settled["cycle"] = "error" \/ isShuttingDown
      BY <1>0, <2>1, <2>2 DEF SettleHead
    <2>4. ~HandleFanTable
      BY <1>0, <2>1, <2>2 DEF HandleFanTable, SettleHead
    <2> QED
      BY <1>0, <2>1, <2>3, <2>4, HistoryKept DEF Deciding, HistoryInv
  <1>8. CASE FanCallCompletes \/ FanCallFails
    <2>1. /\ HeadCallBy("fan") /\ settled["cycle"] = "none" /\ ~HandleFanTable
          /\ UNCHANGED <<rampDownCycle, previousVersion, curveSeen, command,
                         manualWriteVersion, isShuttingDown, cyclePhase, cycleThen,
                         runPhase>>
      <3>1. HeadCallBy("fan") /\ nativeCalls' = Tail(nativeCalls) /\ nativeCalls # <<>>
            /\ nativeCalls \in Seq(Calls)
        BY <1>8 DEF FanCallCompletes, FanCallFails, HeadCallBy, Inv, TypeOK, NativeTypes
      <3>2. nativeCalls' # nativeCalls
        BY <3>1
      <3> QED
        BY <1>0, <1>8, <3>1, <3>2 DEF FanCallCompletes, FanCallFails, FanFrame, Quiescent,
                                      HandleFanTable, CommandFrame
    <2>2. /\ fanWriteQueue # <<>> /\ Head(fanWriteQueue) \in FanOps
          /\ Head(fanWriteQueue).owner \in Owners
          /\ 1 \in InQueue /\ Head(fanWriteQueue) = fanWriteQueue[1]
      BY <2>1, FanCallIsCurrent, HeadOp DEF Inv, InQueue, TypeOK, QueueTypes
    <2>3. Busy(Head(fanWriteQueue).owner) /\ Follows(Head(fanWriteQueue))
      BY <2>2 DEF Inv, OneWritePerOwner, OutputInv, Pinned, WritesFollowSettings
    <2>4. PICK outcome \in {"ok", "error"} :
            SettleHead(outcome) /\ Confirm(Head(fanWriteQueue), outcome)
      BY <1>8 DEF FanCallCompletes, FanCallFails
    <2>5. \/ appliedFanPercentage' \in {appliedFanPercentage, Null}
          \/ previousVersion < manualWriteVersion \/ cyclePhase = "write"
          \/ rampDownCycle = 1
      <3>1. CASE Head(fanWriteQueue).owner = "reinit"
        BY <2>3, <2>4, <3>1 DEF Follows, Confirm
      <3>2. CASE Head(fanWriteQueue).owner = "run"
        BY <2>3, <3>2 DEF Busy, HistoryInv, BeforeLoop
      <3>3. CASE Head(fanWriteQueue).owner \in {"manual", "cycle"}
        BY <2>3, <3>3 DEF Busy, HistoryInv
      <3> QED
        BY <2>2, <3>1, <3>2, <3>3 DEF Owners
    <2>6. settled'["cycle"] = "error" => appliedFanPercentage' = Null
      <3> SUFFICES ASSUME settled'["cycle"] = "error" PROVE appliedFanPercentage' = Null
        OBVIOUS
      <3>1. Head(fanWriteQueue).owner = "cycle" /\ outcome = "error"
        BY <1>0, <2>1, <2>2, <2>4 DEF SettleHead
      <3> QED
        BY <2>3, <2>4, <3>1 DEF Follows, Confirm
    <2> QED
      BY <1>0, <2>1, <2>5, <2>6, HistoryKept DEF Deciding
  <1>9. CASE \/ StartFanWrite \/ FanCallContinues \/ StartCycle \/ SensorAnswers
             \/ SensorFails \/ SensorAnswersLate \/ SensorReadTimesOut
             \/ SampleSleepEnds \/ DecideAbandon
    <2>1. /\ UNCHANGED <<rampDownCycle, previousVersion, curveSeen, command, settled,
                         manualWriteVersion, appliedFanPercentage, isShuttingDown,
                         runPhase>>
          /\ Deciding => cyclePhase' = "decide"
          /\ cyclePhase' = "write" <=> cyclePhase = "write"
          /\ cyclePhase' = "write" => UNCHANGED cycleThen
      <3>1. CASE StartFanWrite \/ FanCallContinues
        BY <3>1 DEF StartFanWrite, FanCallContinues, FanFrame, Deciding
      <3>2. CASE StartCycle \/ SampleSleepEnds \/ DecideAbandon
        BY <3>2 DEF StartCycle, SampleSleepEnds, DecideAbandon, NoCollection, CollectFrame,
                    Deciding
      <3>3. CASE SensorAnswers \/ SensorFails \/ SensorAnswersLate \/ SensorReadTimesOut
        BY <3>3 DEF SensorAnswers, SensorFails, SensorAnswersLate, SensorReadTimesOut,
                    AwaitingRead, CollectFrame, Deciding
      <3> QED
        BY <1>9, <3>1, <3>2, <3>3
    <2> QED
      BY <1>0, <1>1, <2>1, HistoryKept DEF HistoryInv
  <1>10. CASE \/ RunStarts \/ RunAppliesFirstSpeed \/ RunStops \/ RunFails
              \/ ReinitTick \/ ReinitSettles
    <2>1. /\ UNCHANGED <<rampDownCycle, previousVersion, curveSeen, command,
                         manualWriteVersion, appliedFanPercentage, isShuttingDown,
                         cyclePhase, cycleThen>>
          /\ settled'["cycle"] = settled["cycle"]
      BY <1>0, <1>10 DEF RunStarts, RunAppliesFirstSpeed, RunStops, RunFails, ReinitTick,
                         ReinitSettles, RunFrame
    <2>2. runPhase' \in BeforeLoop => runPhase \in BeforeLoop
      BY <1>10 DEF RunStarts, RunAppliesFirstSpeed, RunStops, RunFails, ReinitTick,
                   ReinitSettles, BeforeLoop
    <2> QED
      BY <1>0, <1>1, <2>1, <2>2, HistoryKept DEF Deciding, HistoryInv
  <1>11. CASE CommandSettles
    <2>1. /\ UNCHANGED <<rampDownCycle, previousVersion, curveSeen,
                         manualWriteVersion, appliedFanPercentage, isShuttingDown,
                         cyclePhase, cycleThen, runPhase>>
          /\ command' = Null /\ settled'["cycle"] = settled["cycle"]
      BY <1>0, <1>11 DEF CommandSettles, CommandFrame
    <2> QED
      BY <1>0, <1>1, <2>1, HistoryKept DEF Deciding, HistoryInv
  <1>12. CASE \/ StartFanControlShutdown \/ ShutdownRestores \/ ChannelFails
              \/ FirmwareReverts \/ \E by \in Restorers :
                 \/ RestoreIssues(by) \/ RestoreCallSucceeds(by) \/ RestoreCallFails(by)
    <2>1. /\ UNCHANGED <<rampDownCycle, previousVersion, curveSeen, command, settled,
                         manualWriteVersion, appliedFanPercentage, cyclePhase,
                         cycleThen, runPhase>>
          /\ isShuttingDown => isShuttingDown'
      <3>1. CASE StartFanControlShutdown \/ ShutdownRestores
        BY <3>1 DEF StartFanControlShutdown, ShutdownRestores, RestoreFrame
      <3>2. CASE ChannelFails \/ FirmwareReverts
        BY <3>2 DEF ChannelFails, FirmwareReverts, RestoreFrame
      <3>3. ASSUME NEW by \in Restorers,
                   RestoreIssues(by) \/ RestoreCallSucceeds(by) \/ RestoreCallFails(by)
            PROVE  /\ RestoreFrame /\ UNCHANGED isShuttingDown
        BY <3>3 DEF RestoreIssues, RestoreCallSucceeds, RestoreCallFails, RestoreSettles
      <3> QED
        BY <1>12, <3>1, <3>2, <3>3 DEF RestoreFrame
    <2> QED
      BY <1>0, <1>1, <2>1, HistoryKept DEF Deciding, HistoryInv
  <1> QED
    BY <1>1, <1>2, <1>3, <1>4, <1>5, <1>6, <1>7, <1>8, <1>9, <1>10, <1>11, <1>12
       DEF HistoryNext, Next, FanControlStep, Microtask, NativeCallSettles, HandleCommand

\* The history variables only observe: what holds of Spec holds of HistorySpec.
LEMMA HistoryObserves == HistorySpec => []Inv /\ []OutputInv
  <1>1. HistoryInit => Init
    BY DEF HistoryInit
  <1>2. [HistoryNext]_historyVars => [Next]_vars
    BY DEF HistoryNext, historyVars
  <1>3. HistorySpec => Spec
    BY <1>1, <1>2, PTL DEF HistorySpec, Spec
  <1> QED
    BY <1>3, InvHolds, OutputHolds, PTL

\* What the loop's counters know of the history, in every reachable state.
THEOREM HistoryHolds == HistorySpec => []HistoryInv
  <1>1. HistoryInit => HistoryInv
    <2> SUFFICES ASSUME HistoryInit PROVE HistoryInv
      OBVIOUS
    <2> QED
      BY DEF HistoryInit, Init, HistoryInv, CoolingIsCounted, SavedCurveIsUnseen, Owners
  <1>2. Inv /\ Inv' /\ OutputInv /\ HistoryInv /\ [HistoryNext]_historyVars => HistoryInv'
    <2> SUFFICES ASSUME Inv, Inv', OutputInv, HistoryInv, [HistoryNext]_historyVars
                 PROVE  HistoryInv'
      OBVIOUS
    <2>1. CASE HistoryNext
      <3>1. TypeOK'
        BY DEF Inv
      <3> QED
        BY <2>1, <3>1, HistoryStep
    <2>2. CASE UNCHANGED historyVars
      BY <2>2 DEF historyVars, vars, serverVars, settingVars, manualVars, runVars,
                  outputVars, loopVars, cycleVars, rampVars, HistoryInv,
                  CoolingIsCounted, SavedCurveIsUnseen
    <2> QED
      BY <2>1, <2>2
  <1> QED
    BY <1>1, <1>2, HistoryObserves, PTL DEF HistorySpec

\* Only a decision ends the phase in which a cycle decides.
LEMMA DecisionIsDecide ==
    ASSUME Inv, Next, cyclePhase = "decide", cyclePhase' # "decide"
    PROVE  Decide
  <1> USE DEF loopVars, cycleVars
  <1>1. settled["cycle"] = "none"
    BY DEF Inv, OneWritePerOwner, Busy, Owners
  <1>2. CASE \/ StartCycle \/ SensorAnswers \/ SensorFails \/ SensorReadTimesOut
             \/ SensorAnswersLate \/ SampleSleepEnds
    BY <1>2 DEF StartCycle, SensorAnswers, SensorFails, SensorReadTimesOut,
                SensorAnswersLate, SampleSleepEnds, Quiescent
  <1>3. CASE CycleWriteDone \/ CycleWriteFailed
    BY <1>1, <1>3 DEF CycleWriteDone, CycleWriteFailed
  <1>4. CASE HandleCommand \/ CommandSettles
    BY <1>4 DEF HandleCommand, HandleFixedPercentage, HandleDoFixedSpeed,
                HandleFanTable, CommandSettles, CommandFrame
  <1>5. CASE \/ RunStarts \/ RunAppliesFirstSpeed \/ RunEntersLoop \/ RunStops
             \/ RunFails \/ ReinitTick \/ ReinitSettles
    BY <1>5 DEF RunStarts, RunAppliesFirstSpeed, RunEntersLoop, RunStops, RunFails,
                ReinitTick, ReinitSettles, RunFrame
  <1>6. CASE \/ DropFanWrite \/ StartFanWrite \/ FanCallContinues \/ FanCallCompletes
             \/ FanCallFails
    BY <1>6 DEF DropFanWrite, StartFanWrite, FanCallContinues, FanCallCompletes,
                FanCallFails, FanFrame
  <1>7. CASE \/ StartFanControlShutdown \/ ShutdownRestores \/ ChannelFails
             \/ FirmwareReverts \/ \E by \in Restorers :
                \/ RestoreIssues(by) \/ RestoreCallSucceeds(by) \/ RestoreCallFails(by)
    BY <1>7 DEF StartFanControlShutdown, ShutdownRestores, ChannelFails,
                FirmwareReverts, RestoreIssues, RestoreCallSucceeds,
                RestoreCallFails, RestoreSettles, RestoreFrame
  <1> QED
    BY <1>2, <1>3, <1>4, <1>5, <1>6, <1>7
       DEF Next, FanControlStep, Microtask, NativeCallSettles

\* A ramp lowers the speed only after WAIT_RAMP_DOWN_CYCLES consecutive cooling
\* cycles that nothing disturbed.
THEOREM RampDownEarned == HistorySpec => RampDownIsEarned
  <1> DEFINE Goal == Cooling /\ cyclePhase' = "write" /\ cycleThen' = "ramp"
                     => coolingCycles' >= WaitRampDown
  <1>1. ASSUME Inv, HistoryInv, HistoryNext PROVE Goal
    <2> SUFFICES ASSUME Cooling, cyclePhase' = "write", cycleThen' = "ramp"
                 PROVE  coolingCycles' >= WaitRampDown
      OBVIOUS
    <2>1. /\ Deciding /\ cyclePhase = "decide" /\ ~cycleFailed /\ ~doFixedSpeed
          /\ appliedFanPercentage # Null
          /\ CurveTarget(curve, lastAverages') < appliedFanPercentage
      BY DEF Cooling, AutomaticDecision, Deciding
    <2>2. Decide
      BY <1>1, <2>1, DecisionIsDecide DEF HistoryNext
    <2>3. DecideRamp
      BY <2>1, <2>2 DEF Decide, DecideAbandon, DecideFixedBlind, DecideFailHot,
                        DecideFixed, DecideDirect, Deciding, CycleWrites
    <2>4. /\ appliedFanPercentage \in Nat /\ coolingCycles \in Nat
          /\ WaitRampDown \in Nat
      BY <1>1, <2>1, CyclesAssumption
         DEF Inv, TypeOK, OutputTypes, Percent, HistoryInv
    <2>5. CurveTarget(curve, lastAverages') \in Int
      BY <1>1, <2>3, TargetBelowHighest, CurveIsValid, MeasurementsAssumption
         DEF DecideRamp, Inv, TypeOK, SettingTypes, Percent
    <2>6. DownCycle = WaitRampDown
      BY <2>1, <2>3, <2>4, <2>5 DEF DecideRamp, RampUp, RampDown, Hold, MayRampDown,
                                    CycleEndsHere
    <2>7. coolingCycles' = coolingCycles + 1
      BY <1>1 DEF HistoryNext
    <2> QED
      BY <1>1, <2>1, <2>4, <2>6, <2>7, DownCycleIsCovered
  <1>2. [HistoryNext]_historyVars /\ Inv /\ HistoryInv => [Goal]_historyVars
    BY <1>1
  <1> QED
    BY <1>2, HistoryObserves, HistoryHolds, PTL DEF HistorySpec, RampDownIsEarned

\* A curve saved while no cycle's write was in flight is what the next cycle in
\* automatic mode writes, without a ramp.
THEOREM NewCurveApplied == HistorySpec => NewCurveIsApplied
  <1> DEFINE Goal == AutomaticDecision /\ newCurve = "saved" => AppliesTarget
  <1>1. ASSUME Inv, HistoryInv, HistoryNext PROVE Goal
    <2> SUFFICES ASSUME AutomaticDecision, newCurve = "saved" PROVE AppliesTarget
      OBVIOUS
    <2>1. /\ Deciding /\ cyclePhase = "decide" /\ ~cycleFailed /\ ~doFixedSpeed
          /\ ~curveSeen
      BY <1>1 DEF AutomaticDecision, Deciding, HistoryInv, SavedCurveIsUnseen
    <2>2. Decide
      BY <1>1, <2>1, DecisionIsDecide DEF HistoryNext, AutomaticDecision
    <2>3. DecideDirect
      BY <2>1, <2>2 DEF Decide, DecideAbandon, DecideFixedBlind, DecideFailHot,
                        DecideFixed, DecideRamp, ApplyDirectly, Deciding
    <2>4. /\ cyclePhase' = "write"
          /\ EnqueueFanWrite(WriteOp(CurveTarget(curve, lastAverages'), cycleVersion,
                                     "cycle"))
      BY <2>3 DEF DecideDirect, CycleWrites
    <2>5. PICK op : /\ fanWriteQueue' = Append(fanWriteQueue, op)
                    /\ op.percent = CurveTarget(curve, lastAverages')
      BY <2>4 DEF EnqueueFanWrite, WriteOp
    <2>6. fanWriteQueue'[Len(fanWriteQueue')] = op
      BY <1>1, <2>5 DEF Inv, TypeOK, QueueTypes
    <2> QED
      BY <2>4, <2>5, <2>6 DEF AppliesTarget
  <1>2. [HistoryNext]_historyVars /\ Inv /\ HistoryInv => [Goal]_historyVars
    BY <1>1
  <1> QED
    BY <1>2, HistoryObserves, HistoryHolds, PTL DEF HistorySpec, NewCurveIsApplied
=============================================================================
