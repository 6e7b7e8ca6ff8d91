------------------------ MODULE FanControlInvariant ------------------------
(***************************************************************************)
(* The inductive invariant behind the safety properties of FanControl.     *)
(* None of those properties is inductive as it stands: that a finished     *)
(* handoff is final rests on nothing being left to take the fans back, and *)
(* that on which callers can still have a write in the queue.  The parts   *)
(* are ordered by what they use.  OutputInv is a second invariant, for     *)
(* what the output has to do with the settings, and rests on the first.    *)
(***************************************************************************)
EXTENDS FanControl

InQueue == 1 .. Len(fanWriteQueue)

Issued(calls) == {calls[i] : i \in 1 .. Len(calls)}

\* At most one of the calls was issued by who.
Alone(who, calls) ==
    \A i, j \in 1 .. Len(calls) : calls[i].by = who /\ calls[j].by = who => i = j

\* The two calls of a restore.
FirstRestoreCall(by) == By(by, RestoreCalls[1])
LastRestoreCall(by) == By(by, RestoreCalls[2])

\* A restore's second call directly follows its first.
Paired(by, calls) ==
    \A i \in 1 .. Len(calls) : calls[i] = FirstRestoreCall(by) =>
        i + 1 \in 1 .. Len(calls) /\ calls[i + 1] = LastRestoreCall(by)

\* The caller awaits a fan write.
Busy(owner) ==
    \/ owner = "run"    /\ runPhase \in {"takeover", "first"}
    \/ owner = "reinit" /\ reinitInFlight
    \/ owner = "cycle"  /\ cyclePhase = "write"
    \/ owner = "manual" /\ command # Null

\* Each caller has at most one write that is queued or settled, and awaits
\* it; so the queue is never longer than the four callers.
OneWritePerOwner ==
    /\ \A i, j \in InQueue :
        fanWriteQueue[i].owner = fanWriteQueue[j].owner => i = j
    /\ \A i \in InQueue :
        Busy(fanWriteQueue[i].owner) /\ settled[fanWriteQueue[i].owner] = "none"
    /\ \A o \in Owners : settled[o] # "none" => Busy(o)

\* A command in progress is counted, and only the run phase "on" has one, or
\* a cycle, or a reassertion.
CallersBelongToTheRun ==
    /\ pendingManualWrites = IF command = Null THEN 0 ELSE 1
    /\ runPhase # "on" => /\ ~timersOn /\ ~reinitInFlight
                          /\ cyclePhase = "idle" /\ command = Null

\* The one outstanding fan call is the current call of the head operation.
OneFanCall ==
    /\ fanStep > 0 => /\ fanWriteQueue # <<>>
                      /\ fanStep <= Len(CallsOf(Head(fanWriteQueue)))
    /\ \A call \in Issued(nativeCalls) : call.by = "fan" =>
        /\ fanStep > 0
        /\ call = By("fan", CallsOf(Head(fanWriteQueue))[fanStep])
    /\ Alone("fan", nativeCalls)

\* A sensor call is known to sensorReadInFlight, and a sleeping cycle has none.
SensorCallIsKnown ==
    /\ \A call \in Issued(nativeCalls) :
        call.by = "sensor" => call = SensorCall /\ sensorReadInFlight
    /\ cyclePhase = "sleep" => ~sensorReadInFlight

\* The second call of a speed write starts with the first one confirmed.
HalfWritten ==
    WritingSpeed /\ fanStep = 2
        => firmware.cpu = FanPercentToSpeed(Head(fanWriteQueue).percent)

\* A takeover owes a restore from its first call on.
TakeoverIsOwed == fanStep > 0 /\ Head(fanWriteQueue).kind = "init" => requiresBiosRestore

\* From the moment a restore has issued its calls the queue stays empty.
RestoreComesLast ==
    /\ restore["startup"] # "idle" => runPhase = "failed"
    /\ restore["shutdown"] # "idle" => isShuttingDown
    /\ \A by \in Restorers :
        restore[by] \in {"calling", "ok", "failed"} => fanWriteQueue = <<>>

\* The two calls of a restore stay next to each other, and when the first of
\* a restore without failure is gone it has had its effect.
RestoreInOrder ==
    \A by \in Restorers :
        /\ \A call \in Issued(nativeCalls) : call.by = by =>
            /\ restore[by] = "calling"
            /\ call \in {FirstRestoreCall(by), LastRestoreCall(by)}
        /\ Paired(by, nativeCalls)
        /\ /\ restore[by] = "calling" /\ ~restoreFailed[by]
           /\ FirstRestoreCall(by) \notin Issued(nativeCalls)
           => ~firmware.fixed

Inv ==
    /\ TypeOK
    /\ OneWritePerOwner /\ CallersBelongToTheRun
    /\ OneFanCall /\ SensorCallIsKnown /\ OneSensorCall
    /\ HalfWritten /\ ConfirmedSpeedIsReal
    /\ TakeoverIsOwed /\ RestoreComesLast /\ RestoreInOrder
    /\ ManualModeIsRemembered /\ HandoffIsFinal

-----------------------------------------------------------------------------
(* What the callers wait for *)

\* The write a caller awaits is queued or has settled.
Queued(owner) == \E i \in InQueue : fanWriteQueue[i].owner = owner
WritesAreQueued == \A o \in Owners : Busy(o) => settled[o] # "none" \/ Queued(o)

\* A write that has begun, a restore and a read each have a native call out.
CallsAreOut ==
    /\ fanStep > 0 => \E call \in Issued(nativeCalls) : call.by = "fan"
    /\ \A by \in Restorers :
        restore[by] = "calling" => LastRestoreCall(by) \in Issued(nativeCalls)
    /\ cyclePhase = "read" => sensorReadInFlight
    /\ sensorReadInFlight => SensorCall \in Issued(nativeCalls)

\* Nobody waits in vain: while a command, a takeover, a cycle, a reassertion or
\* a restore waits, a promise job is left to run or a native call to settle.
NobodyWaitsInVain ==
    \/ \E o \in Owners : Busy(o)
    \/ \E by \in Restorers : restore[by] \in {"waiting", "calling"}
    \/ cyclePhase = "read"
    => ~Quiescent \/ nativeCalls # <<>>

-----------------------------------------------------------------------------
(* The output and the settings *)

\* What a queued write has to do with the settings and the command: a cycle's
\* write that no command has overtaken has the fixed percentage, and so has
\* the first write of a run.
Follows(op) ==
    /\ op.owner = "reinit" => op.kind = "init"
    /\ op.owner = "manual" =>
        /\ op.kind = "write" /\ op.expected = Null
        /\ op.percent = command.percent
    /\ op.owner = "cycle" =>
        /\ op.kind = "write" /\ op.expected = cycleVersion
        /\ doFixedSpeed /\ cycleVersion = manualWriteVersion
           => op.percent = fixedPercentage
    /\ op.owner = "run" =>
        (op.kind = "write" /\ doFixedSpeed => op.percent = fixedPercentage)

WritesFollowSettings == \A i \in InQueue : Follows(fanWriteQueue[i])

\* A cycle's write that has begun is never superseded, so it is begun only
\* while no command is in progress, and is over before one settles.
BegunCycleWrite ==
    fanStep > 0 /\ Head(fanWriteQueue).owner = "cycle" =>
        /\ doFixedSpeed => Head(fanWriteQueue).percent = fixedPercentage
        /\ settled["manual"] = "none"

\* A command in progress has overtaken the cycle in progress.
CommandOvertakes ==
    /\ cycleVersion <= manualWriteVersion
    /\ command # Null /\ cyclePhase # "idle" => cycleVersion < manualWriteVersion

\* The mode does not change under a command in progress, and a command the
\* hardware accepted is the confirmed output.
CommandHoldsSettings ==
    command # Null =>
        /\ command.kind = "fixedpercentage" => doFixedSpeed
        /\ command.kind = "dofixedspeed" => command.percent = fixedPercentage
        /\ settled["manual"] = "ok" => appliedFanPercentage = command.percent

\* In fixed mode only an accepted command's percentage, still to be committed,
\* is confirmed beside the fixed one.
OutputIsFixed ==
    doFixedSpeed /\ settled["manual"] # "ok" /\ appliedFanPercentage # Null
        => appliedFanPercentage = fixedPercentage

\* Between the end of a write and its caller's continuation the fans have the
\* confirmed speed, also when the next write has begun.
SettledSpeedIsReal ==
    (\E o \in Owners : settled[o] # "none") /\ appliedFanPercentage # Null
        => FansAt(firmware, appliedFanPercentage)

Pinned ==
    /\ WritesFollowSettings /\ BegunCycleWrite /\ CommandOvertakes
    /\ CommandHoldsSettings /\ OutputIsFixed

OutputInv == Pinned /\ SettledSpeedIsReal
=============================================================================
