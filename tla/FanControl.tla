----------------------------- MODULE FanControl -----------------------------
(***************************************************************************)
(* The fan controller of the ALFC backend: the module state of             *)
(* server/fan-control/index.ts, the fan commands of the WebSocket handler  *)
(* that call it, the single queue of native calls of server/native, and    *)
(* the part of the laptop firmware those calls change.                     *)
(*                                                                         *)
(* JavaScript runs one callback at a time and drains its promise jobs      *)
(* before the next.  Actions that start from a timer, a native reply, a    *)
(* message or a signal require Quiescent; the promise jobs they cause are  *)
(* the actions of Microtask, and an await is a boundary between actions.   *)
(* fanControl() is called once in the life of the process, so the run-id   *)
(* comparisons of the code say exactly what isShuttingDown says.           *)
(***************************************************************************)
EXTENDS FanCurve

CONSTANTS
    Curves,           \* the pairs of tables the server may hold
    Percentages,      \* the fixed percentages the clients send
    Measurements,     \* the average temperatures a cycle may collect
    SamplesPerCycle,  \* sample sets averaged by an automatic cycle (3)
    WaitRampDown,     \* WAIT_RAMP_DOWN_CYCLES (30)
    WaitRampUp,       \* WAIT_RAMP_UP_CYCLES (1)
    SensorsMayFail,   \* whether sensor reads fail or time out without a bound
    MaxCommands,      \* bound on the commands of the clients
    MaxFaults,        \* bound on firmware faults, channel failures and reverts
    Null              \* null, and an undefined expectedVersion

ASSUME CurvesAssumption == \A c \in Curves : ValidCurve(c)
ASSUME PercentagesAssumption == Percentages \subseteq Percent
ASSUME MeasurementsAssumption ==
    Measurements \subseteq [cpu : Temperature, gpu : Temperature]
ASSUME CyclesAssumption ==
    /\ SamplesPerCycle \in Nat \ {0}
    /\ WaitRampDown \in Nat \ {0} /\ WaitRampUp \in Nat \ {0}
ASSUME BoundsAssumption ==
    SensorsMayFail \in BOOLEAN /\ MaxCommands \in Nat /\ MaxFaults \in Nat

\* The fan commands that reach the hardware.
Commands == [kind : {"fixedpercentage", "dofixedspeed"}, percent : Percent]

ASSUME NullAssumption == Null \notin Nat /\ Null \notin Commands

VARIABLES
    \* state.*, the settings and the capability flag
    doFixedSpeed, fixedPercentage, curve, isFanControlAvailable,
    \* the one fan command being handled (the message queue runs one at a time)
    command,
    \* fan-control module state
    isShuttingDown, runPhase, timersOn, reinitInFlight,
    sensorReadInFlight, fanWriteQueue, fanStep, settled,
    appliedFanPercentage, manualWriteVersion, pendingManualWrites,
    requiresBiosRestore,
    \* the collection cycle
    cyclePhase, cycleReads, cycleSamples, cycleVersion, cycleFailed, cycleThen,
    activity,
    \* the locals of fanControl() the timers close over
    needsFirstTarget, rampDownCycle, rampUpCycle, previousVersion, curveSeen,
    lastAverages,
    \* restoreAutoFanControl(), per caller
    restore, restoreFailed,
    \* acpiCallQueue, the firmware behind it, and the Windows channel
    nativeCalls, firmware, channelUp,
    \* counters that bound the model
    commands, faults

settingVars == <<doFixedSpeed, fixedPercentage, curve>>
runVars     == <<runPhase, timersOn, reinitInFlight>>
queueVars   == <<fanWriteQueue, fanStep>>
manualVars  == <<command, manualWriteVersion, pendingManualWrites>>
collectVars == <<cycleReads, cycleSamples, cycleVersion, cycleFailed>>
cycleVars   == <<cyclePhase, collectVars, cycleThen, activity>>
rampVars    == <<needsFirstTarget, rampDownCycle, rampUpCycle, previousVersion,
                 curveSeen, lastAverages>>
restoreVars == <<restore, restoreFailed>>
boundVars   == <<commands, faults>>
serverVars  == <<settingVars, isFanControlAvailable, manualVars, isShuttingDown, runVars>>
outputVars  == <<appliedFanPercentage, requiresBiosRestore>>
loopVars    == <<cycleVars, rampVars>>
platformVars == <<firmware, channelUp, boundVars>>
vars == <<serverVars, sensorReadInFlight, queueVars, settled, outputVars, loopVars,
          restoreVars, nativeCalls, platformVars>>

-----------------------------------------------------------------------------
(* Fan writes and native calls *)

Owners == {"run", "reinit", "cycle", "manual"}
Restorers == {"startup", "shutdown"}

InitCalls == <<[method |-> "SetSuperQuiet", data |-> 0],
               [method |-> "SetAutoFanStatus", data |-> 0],
               [method |-> "SetStepFanStatus", data |-> 0],
               [method |-> "SetFixedFanStatus", data |-> 1]>>

RestoreCalls == <<[method |-> "SetFixedFanStatus", data |-> 0],
                  [method |-> "SetAutoFanStatus", data |-> 1]>>

WriteCalls(percent) ==
    <<[method |-> "SetFixedFanSpeed", data |-> FanPercentToSpeed(percent)],
      [method |-> "SetGPUFanDuty", data |-> FanPercentToSpeed(percent)]>>

InitOp(owner) == [kind |-> "init", percent |-> 0, expected |-> Null, owner |-> owner]
WriteOp(percent, expected, owner) ==
    [kind |-> "write", percent |-> percent, expected |-> expected, owner |-> owner]

CallsOf(op) == IF op.kind = "init" THEN InitCalls ELSE WriteCalls(op.percent)

By(who, call) == [by |-> who, method |-> call.method, data |-> call.data]
SensorCall == [by |-> "sensor", method |-> "getTemp", data |-> 0]

\* The firmware's reaction to a call; the other managed methods change
\* nothing that a property reads.
After(fw, call) ==
    CASE call.method = "SetFixedFanSpeed"  -> [fw EXCEPT !.cpu = call.data]
      [] call.method = "SetGPUFanDuty"     -> [fw EXCEPT !.gpu = call.data]
      [] call.method = "SetAutoFanStatus"  -> [fw EXCEPT !.auto = (call.data = 1)]
      [] call.method = "SetFixedFanStatus" -> [fw EXCEPT !.fixed = (call.data = 1)]
      [] OTHER -> fw

BiosInControl == firmware.auto /\ ~firmware.fixed

EnqueueFanWrite(op) == fanWriteQueue' = Append(fanWriteQueue, op)

HeadWaits == fanWriteQueue # <<>> /\ fanStep = 0

\* Promise jobs left to run before the next callback.
Quiescent ==
    /\ ~HeadWaits
    /\ cyclePhase # "decide"
    /\ \A o \in Owners : settled[o] = "none"
    /\ \A by \in Restorers : ~(restore[by] = "waiting" /\ fanWriteQueue = <<>>)

-----------------------------------------------------------------------------
Init ==
    /\ doFixedSpeed \in BOOLEAN /\ fixedPercentage \in Percentages /\ curve \in Curves
    /\ isFanControlAvailable = FALSE
    /\ command = Null
    /\ isShuttingDown = FALSE
    /\ runPhase = "idle" /\ timersOn = FALSE /\ reinitInFlight = FALSE
    /\ sensorReadInFlight = FALSE
    /\ fanWriteQueue = <<>> /\ fanStep = 0
    /\ settled = [o \in Owners |-> "none"]
    /\ appliedFanPercentage = Null
    /\ manualWriteVersion = 0 /\ pendingManualWrites = 0
    /\ requiresBiosRestore = FALSE
    /\ cyclePhase = "idle" /\ cycleReads = 0 /\ cycleSamples = 0
    /\ cycleVersion = 0 /\ cycleFailed = FALSE /\ cycleThen = "none"
    /\ activity = Null
    /\ needsFirstTarget = FALSE /\ rampDownCycle = 1 /\ rampUpCycle = 1
    /\ previousVersion = 0 /\ curveSeen = FALSE /\ lastAverages = Null
    /\ restore = [by \in Restorers |-> "idle"]
    /\ restoreFailed = [by \in Restorers |-> FALSE]
    /\ nativeCalls = <<>>
    /\ firmware = [auto |-> TRUE, fixed |-> FALSE, cpu |-> 0, gpu |-> 0]
    /\ channelUp = TRUE
    /\ commands = 0 /\ faults = 0

-----------------------------------------------------------------------------
(* The fan write queue.  The head operation runs its calls one by one;     *)
(* when it settles, its owner continues and the next operation starts.     *)

FanFrame == UNCHANGED <<serverVars, sensorReadInFlight, loopVars, restoreVars>>

SettleHead(outcome) ==
    /\ fanWriteQueue' = Tail(fanWriteQueue)
    /\ fanStep' = 0
    /\ settled' = [settled EXCEPT ![Head(fanWriteQueue).owner] = outcome]

\* A write a later manual command has overtaken.
SupersededAlways(op) ==
    /\ op.expected # Null
    /\ op.expected # manualWriteVersion \/ pendingManualWrites >= 0
Superseded(op) ==
    /\ op.expected # Null
    /\ op.expected # manualWriteVersion \/ pendingManualWrites > 0

\* The head operation ends without a call: shutdown rejects it, or a manual
\* command has made it pointless.
DropFanWrite ==
    /\ HeadWaits
    /\ IF isShuttingDown THEN SettleHead("error")
       ELSE Superseded(Head(fanWriteQueue)) /\ SettleHead("ok")
    /\ FanFrame /\ UNCHANGED <<outputVars, nativeCalls, platformVars>>

StartFanWrite ==
    /\ HeadWaits /\ ~isShuttingDown /\ ~Superseded(Head(fanWriteQueue))
    /\ fanStep' = 1
    /\ nativeCalls' = Append(nativeCalls, By("fan", CallsOf(Head(fanWriteQueue))[1]))
    /\ requiresBiosRestore' = (requiresBiosRestore \/ Head(fanWriteQueue).kind = "init")
    /\ FanFrame
    /\ UNCHANGED <<fanWriteQueue, settled, appliedFanPercentage, platformVars>>

\* What the write's try/catch leaves in appliedFanPercentage.
ConfirmKeepsOld(op, outcome) ==
    appliedFanPercentage' =
        IF op.kind = "write" /\ outcome = "ok" THEN op.percent ELSE appliedFanPercentage
Confirm(op, outcome) ==
    appliedFanPercentage' =
        IF op.kind = "init" THEN appliedFanPercentage
        ELSE IF outcome = "ok" THEN op.percent ELSE Null

\* A firmware error may come before or after the firmware acted on the call;
\* a channel that has failed rejects every call unsent.
Outcomes(call) ==
    IF channelUp THEN {firmware, After(firmware, call)} ELSE {firmware}

Fault ==
    IF channelUp THEN faults < MaxFaults /\ faults' = faults + 1
                 ELSE UNCHANGED faults

HeadCallBy(who) == nativeCalls # <<>> /\ Head(nativeCalls).by = who

\* No call of the operation is left, or the shutdown check stops it.
OperationEnds(op) == fanStep = Len(CallsOf(op)) \/ isShuttingDown

FanCallContinues ==
    LET op == Head(fanWriteQueue) IN
    /\ Quiescent /\ HeadCallBy("fan") /\ channelUp
    /\ ~OperationEnds(op)
    /\ fanStep' = fanStep + 1
    /\ nativeCalls' = Append(Tail(nativeCalls), By("fan", CallsOf(op)[fanStep + 1]))
    /\ firmware' = After(firmware, Head(nativeCalls))
    /\ FanFrame
    /\ UNCHANGED <<fanWriteQueue, settled, outputVars, channelUp, boundVars>>

\* A stopped initialization ends silently, a stopped write with an error.
FanCallCompletes ==
    LET op == Head(fanWriteQueue)
        last == fanStep = Len(CallsOf(op))
        outcome == IF last \/ op.kind = "init" THEN "ok" ELSE "error"
    IN
    /\ Quiescent /\ HeadCallBy("fan") /\ channelUp
    /\ OperationEnds(op)
    /\ nativeCalls' = Tail(nativeCalls)
    /\ firmware' = After(firmware, Head(nativeCalls))
    /\ Confirm(op, outcome) /\ SettleHead(outcome)
    /\ FanFrame /\ UNCHANGED <<requiresBiosRestore, channelUp, boundVars>>

FanCallFails ==
    /\ Quiescent /\ HeadCallBy("fan") /\ Fault
    /\ nativeCalls' = Tail(nativeCalls)
    /\ firmware' \in Outcomes(Head(nativeCalls))
    /\ Confirm(Head(fanWriteQueue), "error") /\ SettleHead("error")
    /\ FanFrame /\ UNCHANGED <<requiresBiosRestore, channelUp, commands>>

-----------------------------------------------------------------------------
(* Collecting the temperatures: three sensor reads per sample set, a sleep *)
(* between sets.  A read that times out stays in the native queue, and     *)
(* sensorReadInFlight with it.                                             *)

SensorsPerSample == 3

CollectFrame ==
    UNCHANGED <<serverVars, queueVars, settled, outputVars, rampVars, restoreVars,
                firmware, channelUp, commands>>

\* Neither a cycle nor a read that outlived its cycle.
NoCollectionIgnoringLateRead == cyclePhase = "idle"
NoCollection == cyclePhase = "idle" /\ ~sensorReadInFlight

StartCycle ==
    /\ Quiescent /\ timersOn /\ ~isShuttingDown
    /\ NoCollection /\ pendingManualWrites = 0
    /\ cyclePhase' = "read" /\ cycleReads' = 0
    /\ cycleSamples' = IF doFixedSpeed THEN 1 ELSE SamplesPerCycle
    /\ cycleVersion' = manualWriteVersion
    /\ cycleFailed' = FALSE /\ cycleThen' = "none" /\ activity' = Null
    /\ sensorReadInFlight' = TRUE
    /\ nativeCalls' = Append(nativeCalls, SensorCall)
    /\ CollectFrame /\ UNCHANGED faults

AwaitingRead == cyclePhase = "read"

\* The answer the cycle waits for; the next read follows unless the samples
\* are complete, a sleep is due, or shutdown has made the cycle stale.
SensorAnswers ==
    LET reads == cycleReads + 1
        complete == reads = cycleSamples * SensorsPerSample
        setDone  == reads % SensorsPerSample = 0
        more     == ~complete /\ ~setDone /\ ~isShuttingDown
    IN
    /\ Quiescent /\ HeadCallBy("sensor") /\ channelUp /\ AwaitingRead
    /\ cycleReads' = reads
    /\ cyclePhase' = IF complete THEN "decide" ELSE IF setDone THEN "sleep"
                     ELSE IF more THEN "read" ELSE "idle"
    /\ sensorReadInFlight' = more
    /\ nativeCalls' = IF more THEN Append(Tail(nativeCalls), SensorCall)
                      ELSE Tail(nativeCalls)
    /\ CollectFrame
    /\ UNCHANGED <<cycleSamples, cycleVersion, cycleFailed, cycleThen, activity,
                   faults>>

SensorFault == IF SensorsMayFail THEN UNCHANGED faults ELSE Fault

SensorFails ==
    /\ Quiescent /\ HeadCallBy("sensor") /\ AwaitingRead /\ SensorFault
    /\ cyclePhase' = "decide" /\ cycleFailed' = TRUE
    /\ sensorReadInFlight' = FALSE
    /\ nativeCalls' = Tail(nativeCalls)
    /\ CollectFrame
    /\ UNCHANGED <<cycleReads, cycleSamples, cycleVersion, cycleThen, activity>>

\* The deadline of withReadTimeout; the native read stays outstanding.
SensorReadTimesOut ==
    /\ Quiescent /\ AwaitingRead /\ SensorFault
    /\ cyclePhase' = "decide" /\ cycleFailed' = TRUE
    /\ CollectFrame
    /\ UNCHANGED <<sensorReadInFlight, cycleReads, cycleSamples, cycleVersion,
                   cycleThen, activity, nativeCalls>>

\* The late answer, or error, of a read nobody waits for any more.
SensorAnswersLate ==
    /\ Quiescent /\ HeadCallBy("sensor") /\ ~AwaitingRead
    /\ sensorReadInFlight' = FALSE
    /\ nativeCalls' = Tail(nativeCalls)
    /\ CollectFrame /\ UNCHANGED <<cycleVars, faults>>

SampleSleepEnds ==
    /\ Quiescent /\ cyclePhase = "sleep"
    /\ cyclePhase' = IF isShuttingDown THEN "idle" ELSE "read"
    /\ sensorReadInFlight' = ~isShuttingDown
    /\ nativeCalls' = IF isShuttingDown THEN nativeCalls
                      ELSE Append(nativeCalls, SensorCall)
    /\ CollectFrame /\ UNCHANGED <<collectVars, cycleThen, activity, faults>>

-----------------------------------------------------------------------------
(* Deciding.  The averages are in (or the collection failed) and the rest  *)
(* of the cycle up to its write is one piece of synchronous code.          *)

OvertakenByShutdownOnly == isShuttingDown
Overtaken ==
    \/ isShuttingDown
    \/ pendingManualWrites > 0
    \/ cycleVersion # manualWriteVersion

Deciding == cyclePhase = "decide" /\ ~Overtaken

\* A manual command since the last decision retires the cooling history.
HistoryNeverRetired == FALSE
HistoryRetired == cycleVersion # previousVersion
DownCycle == IF HistoryRetired THEN 1 ELSE rampDownCycle
UpCycle   == IF HistoryRetired THEN 1 ELSE rampUpCycle
AwaitsFirstTarget == needsFirstTarget /\ ~HistoryRetired

DecisionFrame ==
    /\ previousVersion' = cycleVersion
    /\ UNCHANGED <<serverVars, sensorReadInFlight, fanStep, settled,
                   outputVars, collectVars, restoreVars, nativeCalls,
                   platformVars>>

\* await writeFanPercentage(percent, cycleWriteVersion)
CycleWrites(percent, then) ==
    /\ EnqueueFanWrite(WriteOp(percent, cycleVersion, "cycle"))
    /\ cyclePhase' = "write" /\ cycleThen' = then
    /\ UNCHANGED activity

Publish(speed, measured) ==
    activity' = IF measured = Null THEN activity
                ELSE [speed |-> speed, sensorFailure |-> cycleFailed]

CycleEndsHere(measured) ==
    /\ cyclePhase' = "idle" /\ cycleThen' = "none"
    /\ Publish(appliedFanPercentage, measured)
    /\ UNCHANGED fanWriteQueue

DecideAbandon ==
    /\ cyclePhase = "decide" /\ Overtaken
    /\ cyclePhase' = "idle"
    /\ UNCHANGED <<serverVars, sensorReadInFlight, queueVars, settled,
                   outputVars, collectVars, cycleThen, activity, rampVars,
                   restoreVars, nativeCalls, platformVars>>

\* The confirmed output is not the pinned one, or there is none.
OutputDiffersIfKnown ==
    appliedFanPercentage # Null /\ appliedFanPercentage # fixedPercentage
OutputDiffers == appliedFanPercentage # fixedPercentage

\* Sensors failed in fixed mode: the pinned target stands, and an output that
\* does not match it is written again.
DecideFixedBlind ==
    /\ Deciding /\ cycleFailed /\ doFixedSpeed
    /\ needsFirstTarget' = FALSE
    /\ rampDownCycle' = 1 /\ rampUpCycle' = 1 /\ curveSeen' = TRUE
    /\ UNCHANGED lastAverages
    /\ IF OutputDiffers
       THEN CycleWrites(fixedPercentage, "fixedBlind")
       ELSE CycleEndsHere(lastAverages)
    /\ DecisionFrame

\* Sensors failed in automatic mode: fail hot.
DecideFailHot ==
    /\ Deciding /\ cycleFailed /\ ~doFixedSpeed
    /\ needsFirstTarget' = AwaitsFirstTarget
    /\ rampDownCycle' = DownCycle /\ rampUpCycle' = UpCycle
    /\ UNCHANGED <<curveSeen, lastAverages>>
    /\ CycleWrites(HighestFanTarget(curve), "hot")
    /\ DecisionFrame

DecideFixed ==
    /\ Deciding /\ ~cycleFailed /\ doFixedSpeed
    /\ lastAverages' \in Measurements
    /\ needsFirstTarget' = FALSE
    /\ IF OutputDiffers
       THEN /\ rampDownCycle' = DownCycle /\ rampUpCycle' = UpCycle
            /\ UNCHANGED curveSeen
            /\ CycleWrites(fixedPercentage, "fixed")
       ELSE /\ rampDownCycle' = 1 /\ rampUpCycle' = 1 /\ curveSeen' = TRUE
            /\ CycleEndsHere(lastAverages')
    /\ DecisionFrame

\* The measured target must be applied at once: it is the first of the run,
\* the curve is new, or the output is unconfirmed.
ApplyDirectlyIgnoringCurve == AwaitsFirstTarget \/ appliedFanPercentage = Null
ApplyDirectly == AwaitsFirstTarget \/ ~curveSeen \/ appliedFanPercentage = Null

DecideDirect ==
    /\ Deciding /\ ~cycleFailed /\ ~doFixedSpeed
    /\ ApplyDirectly
    /\ lastAverages' \in Measurements
    /\ needsFirstTarget' = AwaitsFirstTarget
    /\ rampDownCycle' = DownCycle /\ rampUpCycle' = UpCycle
    /\ UNCHANGED curveSeen
    /\ CycleWrites(CurveTarget(curve, lastAverages'), "direct")
    /\ DecisionFrame

RampUp(target) ==
    /\ appliedFanPercentage < target
    /\ rampDownCycle' = 1
    /\ IF UpCycle = WaitRampUp
       THEN /\ rampUpCycle' = UpCycle
            /\ CycleWrites(GetGradientTarget(appliedFanPercentage, target), "ramp")
       ELSE rampUpCycle' = UpCycle + 1 /\ CycleEndsHere(lastAverages')

MayRampDown == DownCycle = WaitRampDown

RampDown(target) ==
    /\ target < appliedFanPercentage
    /\ rampUpCycle' = 1
    /\ IF MayRampDown
       THEN /\ rampDownCycle' = DownCycle
            /\ CycleWrites(GetGradientTarget(appliedFanPercentage, target), "ramp")
       ELSE rampDownCycle' = DownCycle + 1 /\ CycleEndsHere(lastAverages')

Hold(target) ==
    /\ target = appliedFanPercentage
    /\ rampDownCycle' = 1 /\ rampUpCycle' = 1
    /\ CycleEndsHere(lastAverages')

DecideRamp ==
    /\ Deciding /\ ~cycleFailed /\ ~doFixedSpeed /\ ~ApplyDirectly
    /\ lastAverages' \in Measurements
    /\ LET target == CurveTarget(curve, lastAverages')
       IN  RampUp(target) \/ RampDown(target) \/ Hold(target)
    /\ needsFirstTarget' = AwaitsFirstTarget /\ UNCHANGED curveSeen
    /\ DecisionFrame

Decide ==
    \/ DecideAbandon \/ DecideFixedBlind \/ DecideFailHot \/ DecideFixed
    \/ DecideDirect \/ DecideRamp

\* The cycle after its write: the ramp history restarts, and what the write
\* settled (a new curve, the first target) counts as done even when a manual
\* command overtook it.
ResumeFrame ==
    /\ cyclePhase' = "idle" /\ cycleThen' = "none"
    /\ settled' = [settled EXCEPT !["cycle"] = "none"]
    /\ UNCHANGED <<serverVars, sensorReadInFlight, queueVars, outputVars,
                   collectVars, previousVersion, lastAverages, restoreVars,
                   nativeCalls, platformVars>>

CycleWriteDone ==
    /\ settled["cycle"] = "ok"
    /\ rampDownCycle' = 1 /\ rampUpCycle' = 1
    /\ curveSeen' = (curveSeen \/ cycleThen \in {"fixed", "direct"})
    /\ needsFirstTarget' = (needsFirstTarget /\ cycleThen # "direct")
    /\ Publish(appliedFanPercentage, lastAverages)
    /\ ResumeFrame

CycleWriteFailed ==
    /\ settled["cycle"] = "error"
    /\ UNCHANGED <<rampDownCycle, rampUpCycle, curveSeen, needsFirstTarget>>
    /\ Publish(Null, lastAverages)
    /\ ResumeFrame

-----------------------------------------------------------------------------
(* fanControl(): take over, apply the first speed, enter the loop; and how *)
(* initNativeServices answers its failure.                                 *)

RunStarts ==
    /\ Quiescent /\ runPhase = "idle" /\ ~isShuttingDown
    /\ isFanControlAvailable' = TRUE
    /\ runPhase' = "takeover" /\ EnqueueFanWrite(InitOp("run"))
    /\ UNCHANGED <<settingVars, manualVars, isShuttingDown, timersOn,
                   reinitInFlight, sensorReadInFlight, fanStep, settled,
                   outputVars, loopVars, restoreVars, nativeCalls, platformVars>>

RunFrame ==
    /\ settled' = [settled EXCEPT !["run"] = "none"]
    /\ UNCHANGED <<settingVars, manualVars, isShuttingDown, reinitInFlight,
                   sensorReadInFlight, fanStep, outputVars, cycleVars,
                   nativeCalls, platformVars>>

\* Before the first valid sample the automatic mode uses the fail-hot target.
RunAppliesFirstSpeed ==
    /\ settled["run"] = "ok" /\ runPhase = "takeover" /\ ~isShuttingDown
    /\ runPhase' = "first"
    /\ needsFirstTarget' = ~doFixedSpeed
    /\ EnqueueFanWrite(WriteOp(IF doFixedSpeed THEN fixedPercentage
                               ELSE HighestFanTarget(curve), Null, "run"))
    /\ UNCHANGED <<isFanControlAvailable, timersOn, rampDownCycle,
                   rampUpCycle, previousVersion, curveSeen, lastAverages,
                   restoreVars>>
    /\ RunFrame

RunEntersLoop ==
    /\ settled["run"] = "ok" /\ runPhase = "first" /\ ~isShuttingDown
    /\ runPhase' = "on" /\ timersOn' = TRUE
    /\ rampDownCycle' = 1 /\ rampUpCycle' = 1
    /\ previousVersion' = manualWriteVersion
    /\ curveSeen' = TRUE /\ lastAverages' = Null
    /\ UNCHANGED <<isFanControlAvailable, needsFirstTarget, fanWriteQueue,
                   restoreVars>>
    /\ RunFrame

RunStops ==
    /\ settled["run"] = "ok" /\ isShuttingDown
    /\ runPhase' = "stopped"
    /\ UNCHANGED <<isFanControlAvailable, timersOn, fanWriteQueue, rampVars,
                   restoreVars>>
    /\ RunFrame

RunFails ==
    /\ settled["run"] = "error"
    /\ runPhase' = "failed" /\ isFanControlAvailable' = FALSE
    /\ restore' = IF isShuttingDown THEN restore
                  ELSE [restore EXCEPT !["startup"] = "waiting"]
    /\ UNCHANGED <<timersOn, fanWriteQueue, rampVars, restoreFailed>>
    /\ RunFrame

\* The five-minute interval that reasserts the manual fan mode.
ReinitTick ==
    /\ Quiescent /\ timersOn /\ ~isShuttingDown /\ ~reinitInFlight
    /\ reinitInFlight' = TRUE /\ EnqueueFanWrite(InitOp("reinit"))
    /\ UNCHANGED <<settingVars, isFanControlAvailable, manualVars,
                   isShuttingDown, runPhase, timersOn, sensorReadInFlight,
                   fanStep, settled, outputVars, loopVars, restoreVars,
                   nativeCalls, platformVars>>

\* .finally: the flag falls whatever the outcome was.
FlagNeverFalls(outcome) == TRUE
FlagAfter(outcome) == FALSE

ReinitSettles ==
    /\ settled["reinit"] # "none"
    /\ settled' = [settled EXCEPT !["reinit"] = "none"]
    /\ reinitInFlight' = FlagAfter(settled["reinit"])
    /\ UNCHANGED <<settingVars, isFanControlAvailable, manualVars,
                   isShuttingDown, runPhase, timersOn, sensorReadInFlight,
                   queueVars, outputVars, loopVars, restoreVars, nativeCalls,
                   platformVars>>

-----------------------------------------------------------------------------
(* The fan commands of handleMessage.  A request that changes no state (an *)
(* unavailable feature, an invalid value) is a stuttering step.            *)

MayHandle ==
    /\ Quiescent /\ command = Null /\ ~isShuttingDown
    /\ runPhase = "on"               \* clients connect once the server is ready
    /\ isFanControlAvailable
    /\ commands < MaxCommands

CommandFrame ==
    UNCHANGED <<isFanControlAvailable, isShuttingDown, runVars,
                sensorReadInFlight, fanStep, outputVars, cycleVars,
                needsFirstTarget, rampDownCycle, rampUpCycle, previousVersion,
                lastAverages, restoreVars, nativeCalls, firmware, channelUp,
                faults>>

\* await applyFixedFan(percent)
ApplyFixedFanUncounted(kind, percent) ==
    /\ command' = [kind |-> kind, percent |-> percent]
    /\ UNCHANGED <<manualWriteVersion, pendingManualWrites>>
    /\ EnqueueFanWrite(WriteOp(percent, Null, "manual"))
ApplyFixedFan(kind, percent) ==
    /\ command' = [kind |-> kind, percent |-> percent]
    /\ manualWriteVersion' = manualWriteVersion + 1
    /\ pendingManualWrites' = pendingManualWrites + 1
    /\ EnqueueFanWrite(WriteOp(percent, Null, "manual"))

HandleFixedPercentage ==
    /\ MayHandle /\ commands' = commands + 1
    /\ \E percent \in Percentages :
        IF doFixedSpeed
        THEN /\ ApplyFixedFan("fixedpercentage", percent)
             /\ UNCHANGED fixedPercentage
        ELSE /\ fixedPercentage' = percent
             /\ UNCHANGED <<manualVars, fanWriteQueue>>
    /\ UNCHANGED <<doFixedSpeed, curve, curveSeen, settled>>
    /\ CommandFrame

HandleDoFixedSpeed ==
    /\ MayHandle /\ commands' = commands + 1
    /\ \/ /\ ApplyFixedFan("dofixedspeed", fixedPercentage)
          /\ UNCHANGED doFixedSpeed
       \/ /\ doFixedSpeed' = FALSE
          /\ UNCHANGED <<manualVars, fanWriteQueue>>
    /\ UNCHANGED <<fixedPercentage, curve, curveSeen, settled>>
    /\ CommandFrame

\* The stored tables are new objects: the loop's identity test no longer
\* matches them.
HandleFanTable ==
    /\ MayHandle /\ commands' = commands + 1
    /\ curve' \in Curves /\ curveSeen' = FALSE
    /\ UNCHANGED <<doFixedSpeed, fixedPercentage, manualVars, fanWriteQueue,
                   settled>>
    /\ CommandFrame

HandlerWakesOnSuccess == settled["manual"] = "ok"
HandlerWakes == settled["manual"] # "none"
HardwareAccepted == settled["manual"] = "ok"

\* applyFixedFan settled: the setting is committed only after the hardware
\* took it, and a failed command changes no setting.
CommandSettles ==
    /\ HandlerWakes
    /\ settled' = [settled EXCEPT !["manual"] = "none"]
    /\ pendingManualWrites' = pendingManualWrites - 1
    /\ command' = Null
    /\ IF HardwareAccepted
       THEN /\ doFixedSpeed' = (doFixedSpeed \/ command.kind = "dofixedspeed")
            /\ fixedPercentage' = IF command.kind = "fixedpercentage"
                                  THEN command.percent ELSE fixedPercentage
       ELSE UNCHANGED <<doFixedSpeed, fixedPercentage>>
    /\ UNCHANGED <<curve, curveSeen, manualWriteVersion, fanWriteQueue,
                   commands>>
    /\ CommandFrame

-----------------------------------------------------------------------------
(* Shutdown and the handoff to the BIOS *)

RestoreFrame ==
    UNCHANGED <<settingVars, manualVars, runPhase, reinitInFlight,
                sensorReadInFlight,
                queueVars, settled, appliedFanPercentage, loopVars, commands>>

StartFanControlShutdown ==
    /\ Quiescent /\ ~isShuttingDown
    /\ isShuttingDown' = TRUE /\ timersOn' = FALSE
    /\ RestoreFrame
    /\ UNCHANGED <<isFanControlAvailable, requiresBiosRestore, restoreVars,
                   nativeCalls, firmware, channelUp, faults>>

HandoffDueIfAvailable == isFanControlAvailable
HandoffDue == isFanControlAvailable \/ requiresBiosRestore

\* The restore stage of shutdown(); the drain before it may have timed out.
ShutdownRestores ==
    /\ Quiescent /\ isShuttingDown /\ restore["shutdown"] = "idle"
    /\ runPhase # "idle"             \* nativeInitialization is defined
    /\ HandoffDue
    /\ restore' = [restore EXCEPT !["shutdown"] = "waiting"]
    /\ RestoreFrame
    /\ UNCHANGED <<isFanControlAvailable, isShuttingDown, timersOn,
                   requiresBiosRestore, restoreFailed, nativeCalls, firmware,
                   channelUp, faults>>

\* restoreAutoFanControl() once the fan writes queued before it have settled.
RestoreIssues(by) ==
    /\ restore[by] = "waiting" /\ fanWriteQueue = <<>>
    /\ restore' = [restore EXCEPT ![by] = "calling"]
    /\ nativeCalls' = nativeCalls \o <<By(by, RestoreCalls[1]), By(by, RestoreCalls[2])>>
    /\ RestoreFrame
    /\ UNCHANGED <<isFanControlAvailable, isShuttingDown, timersOn,
                   requiresBiosRestore, restoreFailed, firmware, channelUp,
                   faults>>

\* The flag survives until both calls of a restore have succeeded.
StillOwedUntilSettled(others, failed) == requiresBiosRestore /\ others
StillOwed(others, failed) == requiresBiosRestore /\ (others \/ failed)

\* Promise.allSettled: both calls are awaited, one failure fails the restore.
RestoreSettles(by, failed) ==
    LET others == \E i \in 2 .. Len(nativeCalls) : nativeCalls[i].by = by
        outcome == IF failed THEN "failed" ELSE "ok"
    IN
    /\ nativeCalls' = Tail(nativeCalls)
    /\ restoreFailed' = [restoreFailed EXCEPT ![by] = failed]
    /\ restore' = IF others THEN restore ELSE [restore EXCEPT ![by] = outcome]
    /\ requiresBiosRestore' = StillOwed(others, failed)
    /\ RestoreFrame
    /\ UNCHANGED <<isFanControlAvailable, isShuttingDown, timersOn, channelUp>>

FailedSoFarForgotten(by) == FALSE
FailedSoFar(by) == restoreFailed[by]

RestoreCallSucceeds(by) ==
    /\ Quiescent /\ HeadCallBy(by) /\ channelUp
    /\ firmware' = After(firmware, Head(nativeCalls))
    /\ RestoreSettles(by, FailedSoFar(by))
    /\ UNCHANGED faults

RestoreCallFails(by) ==
    /\ Quiescent /\ HeadCallBy(by) /\ Fault
    /\ firmware' \in Outcomes(Head(nativeCalls))
    /\ RestoreSettles(by, TRUE)

-----------------------------------------------------------------------------
(* The environment *)

\* The Windows channel fails for good (a request past its deadline, a worker
\* that exits): reportNativeFailure("wmi").  The call in progress may still
\* have reached the firmware.
ChannelFails ==
    /\ Quiescent /\ channelUp /\ runPhase # "idle"
    /\ faults < MaxFaults /\ faults' = faults + 1
    /\ channelUp' = FALSE /\ isFanControlAvailable' = FALSE /\ timersOn' = FALSE
    /\ firmware' \in IF nativeCalls = <<>> THEN {firmware} ELSE Outcomes(Head(nativeCalls))
    /\ UNCHANGED <<settingVars, manualVars, isShuttingDown, runPhase,
                   reinitInFlight, sensorReadInFlight, queueVars, settled,
                   outputVars, loopVars, restoreVars, nativeCalls, commands>>

\* Firmware that silently takes the fans back, or a predecessor's handoff, which
\* comes after this process took its ports over.
FirmwareReverts ==
    /\ Quiescent /\ ~BiosInControl /\ runPhase = "on"
    /\ faults < MaxFaults /\ faults' = faults + 1
    /\ firmware' = [firmware EXCEPT !.auto = TRUE, !.fixed = FALSE]
    /\ RestoreFrame
    /\ UNCHANGED <<isFanControlAvailable, isShuttingDown, timersOn,
                   requiresBiosRestore, restoreVars, nativeCalls, channelUp>>

-----------------------------------------------------------------------------
Microtask ==
    \/ DropFanWrite \/ StartFanWrite
    \/ Decide \/ CycleWriteDone \/ CycleWriteFailed
    \/ RunAppliesFirstSpeed \/ RunEntersLoop \/ RunStops \/ RunFails
    \/ ReinitSettles \/ CommandSettles
    \/ \E by \in Restorers : RestoreIssues(by)

NativeCallSettles ==
    \/ FanCallContinues \/ FanCallCompletes \/ FanCallFails
    \/ SensorAnswers \/ SensorFails \/ SensorAnswersLate
    \/ \E by \in Restorers : RestoreCallSucceeds(by) \/ RestoreCallFails(by)

HandleCommand == HandleFixedPercentage \/ HandleDoFixedSpeed \/ HandleFanTable

\* What runs by itself, and what the server's startup and shutdown call.
FanControlStep ==
    \/ Microtask
    \/ NativeCallSettles
    \/ StartCycle \/ SampleSleepEnds \/ SensorReadTimesOut \/ ReinitTick
    \/ HandleCommand
    \/ ChannelFails \/ FirmwareReverts

Next == FanControlStep \/ RunStarts \/ StartFanControlShutdown \/ ShutdownRestores

Spec == Init /\ [][Next]_vars

\* Promise jobs always run, started native calls settle, the process starts
\* and a shutdown reaches its restore stage.  Timers are strongly fair: the
\* intervals go off forever, and one that found a callback running or a cycle
\* in flight goes off again.
Fairness ==
    /\ WF_vars(Microtask) /\ WF_vars(NativeCallSettles)
    /\ WF_vars(RunStarts) /\ WF_vars(ShutdownRestores)
    /\ SF_vars(StartCycle) /\ SF_vars(SampleSleepEnds) /\ SF_vars(ReinitTick)

FairSpec == Spec /\ Fairness

-----------------------------------------------------------------------------
(* Types *)

Outcome == {"none", "ok", "error"}
FanOps == [kind : {"init", "write"}, percent : Percent, expected : Nat \cup {Null},
           owner : Owners]
Methods == {"SetSuperQuiet", "SetAutoFanStatus", "SetStepFanStatus",
            "SetFixedFanStatus", "SetFixedFanSpeed", "SetGPUFanDuty", "getTemp"}
Calls == [by : {"fan", "sensor"} \cup Restorers, method : Methods, data : Duty]
Activities == [speed : Percent \cup {Null}, sensorFailure : BOOLEAN]
Firmware == [auto : BOOLEAN, fixed : BOOLEAN, cpu : Duty, gpu : Duty]

SettingTypes ==
    /\ doFixedSpeed \in BOOLEAN /\ fixedPercentage \in Percent /\ curve \in Curves
    /\ isFanControlAvailable \in BOOLEAN
    /\ command \in Commands \cup {Null}
    /\ manualWriteVersion \in Nat /\ pendingManualWrites \in Nat

RunTypes ==
    /\ isShuttingDown \in BOOLEAN
    /\ runPhase \in {"idle", "takeover", "first", "on", "stopped", "failed"}
    /\ timersOn \in BOOLEAN /\ reinitInFlight \in BOOLEAN

QueueTypes ==
    /\ fanWriteQueue \in Seq(FanOps) /\ fanStep \in 0 .. 4
    /\ settled \in [Owners -> Outcome]

OutputTypes ==
    /\ appliedFanPercentage \in Percent \cup {Null}
    /\ requiresBiosRestore \in BOOLEAN

CycleTypes ==
    /\ cyclePhase \in {"idle", "read", "sleep", "decide", "write"}
    /\ cycleReads \in Nat /\ cycleSamples \in Nat /\ cycleVersion \in Nat
    /\ cycleFailed \in BOOLEAN /\ sensorReadInFlight \in BOOLEAN
    /\ cycleThen \in {"none", "fixedBlind", "hot", "fixed", "direct", "ramp"}
    /\ activity \in Activities \cup {Null}

RampTypes ==
    /\ needsFirstTarget \in BOOLEAN /\ curveSeen \in BOOLEAN
    /\ rampDownCycle \in Nat /\ rampUpCycle \in Nat /\ previousVersion \in Nat
    /\ lastAverages \in Measurements \cup {Null}

NativeTypes ==
    /\ restore \in [Restorers -> {"idle", "waiting", "calling", "ok", "failed"}]
    /\ restoreFailed \in [Restorers -> BOOLEAN]
    /\ nativeCalls \in Seq(Calls)
    /\ firmware \in Firmware /\ channelUp \in BOOLEAN
    /\ commands \in 0 .. MaxCommands /\ faults \in 0 .. MaxFaults

\* Every variable has its type; in particular the ramp counters and the
\* manual-write count stay natural numbers.
TypeOK ==
    /\ SettingTypes /\ RunTypes /\ QueueTypes /\ OutputTypes
    /\ CycleTypes /\ RampTypes /\ NativeTypes

-----------------------------------------------------------------------------
(* Safety *)

FansAt(fw, percent) ==
    fw.cpu = FanPercentToSpeed(percent) /\ fw.gpu = FanPercentToSpeed(percent)

WritingSpeed == fanStep > 0 /\ Head(fanWriteQueue).kind = "write"

\* appliedFanPercentage is a confirmed pair of writes: whenever it names a
\* percentage and no write is half done, both fans have that duty, whatever
\* calls failed, were superseded, or were cut by a shutdown before.
ConfirmedSpeedIsReal ==
    appliedFanPercentage # Null /\ ~WritingSpeed
        => FansAt(firmware, appliedFanPercentage)

\* Telemetry is honest: a cycle that publishes an applied speed does so while
\* both fans have it, although it decided before its write was queued behind
\* other writes.
TelemetryIsReal ==
    [][activity' # activity /\ activity' # Null
       => \/ activity'.speed = Null
          \/ FansAt(firmware', activity'.speed)]_vars

\* Once the user's fixed mode is committed and no command is in progress, no
\* automatic write of an earlier cycle replaces the pinned speed: a confirmed
\* output is the fixed percentage.
FixedModeOwnsFans ==
    doFixedSpeed /\ command = Null /\ appliedFanPercentage # Null /\ runPhase = "on"
        => appliedFanPercentage = fixedPercentage

\* Reads never pile up behind a read that timed out: at most one sensor call
\* is in the native queue.
OneSensorCall ==
    \A i, j \in 1 .. Len(nativeCalls) :
        nativeCalls[i].by = "sensor" /\ nativeCalls[j].by = "sensor" => i = j

\* The firmware is in manual mode only while the process knows it owes the
\* BIOS a handoff, so that shutdown attempts one even when fan control was
\* declared unavailable.
ManualModeIsRemembered == ~BiosInControl => requiresBiosRestore

\* A completed shutdown handoff is final: no write admitted before it, no
\* re-initialization and no late call takes the fans back.
HandoffIsFinal ==
    restore["shutdown"] = "ok"
        => BiosInControl /\ fanStep = 0 /\ ~requiresBiosRestore

\* The BIOS handoff is neither forgotten nor undone.
HandoffIsKept == ManualModeIsRemembered /\ HandoffIsFinal

\* After shutdown has begun the only calls issued are the restore's; the
\* queue otherwise only drains.
ShutdownIssuesOnlyRestore ==
    [][isShuttingDown /\ nativeCalls' # nativeCalls
       => \/ nativeCalls # <<>> /\ nativeCalls' = Tail(nativeCalls)
          \/ \E by \in Restorers :
                nativeCalls' = nativeCalls \o <<By(by, RestoreCalls[1]),
                                                By(by, RestoreCalls[2])>>]_vars

-----------------------------------------------------------------------------
(* Liveness *)

Controlling == runPhase = "on" /\ ~isShuttingDown /\ channelUp

\* Every fan command is answered.
CommandIsAnswered == command # Null ~> command = Null

\* In fixed mode a failed or partial write is repaired: with any pattern of
\* sensor failures both fans end at the fixed percentage and stay there.
FixedModeRecovers ==
    <>[](Controlling /\ doFixedSpeed) => <>[]FansAt(firmware, fixedPercentage)

\* In automatic mode with a steady measurement the fans end at the curve's
\* target, whatever commands, faults and superseded writes came before.
CurveIsReached ==
    \A m \in Measurements :
        <>[](Controlling /\ ~doFixedSpeed /\ lastAverages = m)
            => <>[]FansAt(firmware, CurveTarget(curve, m))

\* Firmware that takes the fans back is brought under control again.
ControlIsReasserted ==
    <>[]Controlling => <>[](firmware.fixed /\ ~firmware.auto)

\* A shutdown that owes the BIOS a handoff attempts it to the end.
HandoffIsAttempted ==
    isShuttingDown /\ requiresBiosRestore ~> restore["shutdown"] \in {"ok", "failed"}
                                             \/ ~requiresBiosRestore
=============================================================================
