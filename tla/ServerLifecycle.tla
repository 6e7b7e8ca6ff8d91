-------------------------- MODULE ServerLifecycle --------------------------
(***************************************************************************)
(* Startup and shutdown of the backend: runServer() and shutdown() of      *)
(* server/index.ts, listenOnLoopback() of server/listeners.ts and          *)
(* initNativeServices() of server/native/index.ts, for several processes   *)
(* on one machine that compete for the loopback ports and share one        *)
(* firmware.                                                               *)
(*                                                                         *)
(* The fan controller appears as FanHandoff promises it: operations that   *)
(* run one at a time and are refused once shutdown has begun.  FanControl  *)
(* has their calls one by one; here an operation is one call.              *)
(***************************************************************************)
EXTENDS Naturals, Sequences

CONSTANTS
    Processes,    \* server processes, over time
    Families,     \* the loopback address families of the host
    MaxWrites,    \* bound on the fan operations queued in one process
    MaxFaults,    \* bound on failures, timeouts and kills
    None          \* no process

ASSUME FamiliesAssumption ==
    "ipv4" \in Families /\ Families \subseteq {"ipv4", "ipv6"}
ASSUME BoundsAssumption == MaxWrites \in Nat /\ MaxFaults \in Nat
ASSUME NoneAssumption == None \notin Processes

VARIABLES
    proc,       \* the state of each process
    port,       \* the process listening on each family
    firmware,   \* who drives the fans, "bios" or "manual"
    faults      \* failures so far

vars == <<proc, port, firmware, faults>>

\* Operations of the fan controller, and the native calls of anybody.
TakeOvers == {"takeover", "reassert"}
FanOps == TakeOvers \cup {"first", "cycle", "command"}
Calls == FanOps \cup {"request", "boost", "release", "handoff"}

NewProcess ==
    [run |-> "off", init |-> "none", backend |-> FALSE, fan |-> "unknown",
     controlling |-> FALSE, restartRequired |-> FALSE, channel |-> TRUE,
     owed |-> FALSE, fanQueue |-> <<>>, fanStarted |-> FALSE, calls |-> <<>>,
     mutation |-> "none", stage |-> "up", handoff |-> "none", code |-> 0]

Init ==
    /\ proc = [p \in Processes |-> NewProcess]
    /\ port = [f \in Families |-> None]
    /\ firmware = "bios"
    /\ faults = 0

-----------------------------------------------------------------------------
Worse(a, b) == IF a >= b THEN a ELSE b

Stopping(r) == r.stage # "up"
Closed(r) == r.stage \in {"cleanup", "exited"}

\* A living process; only its stages up to the exit take steps.
Alive(p) == proc[p].run # "off" /\ proc[p].stage # "exited"

\* shutdown(code): the first call starts it, later ones raise the exit code.
Stop(r, code) ==
    [r EXCEPT !.code = Worse(@, code),
              !.stage = IF @ = "up" THEN "drain" ELSE @,
              !.controlling = FALSE]

\* A port is bound by one process; without reusePort a second bind fails.
Free(f) == port[f] = None

Ports(p) == {f \in Families : port[f] = p}
Release(p) == [f \in Families |-> IF port[f] = p THEN None ELSE port[f]]

Effect(call) ==
    IF call \in TakeOvers THEN "manual"
    ELSE IF call \in {"release", "handoff"} THEN "bios"
    ELSE firmware

\* What a call in progress has done when nobody waits for it any more.
CallMayLand(r) ==
    firmware' \in {firmware} \cup {Effect(r.calls[i]) : i \in {1} \cap DOMAIN r.calls}

Fault == faults < MaxFaults /\ faults' = faults + 1

Becomes(p, r) == proc' = [proc EXCEPT ![p] = r]
Quiet(p, r) == Becomes(p, r) /\ UNCHANGED <<port, firmware, faults>>

-----------------------------------------------------------------------------
(* runServer(): permissions, listeners, hardware, ready *)

Launch(p) ==
    /\ proc[p].run = "off"
    /\ Quiet(p, [proc[p] EXCEPT !.run = "permissions"])

Unprivileged(p) ==
    /\ Alive(p) /\ proc[p].run = "permissions"
    /\ Quiet(p, [proc[p] EXCEPT !.stage = "exited", !.code = 1])

BindIPv4(p) ==
    LET r == proc[p] IN
    /\ Alive(p) /\ r.run = "permissions" /\ ~Stopping(r)
    /\ IF Free("ipv4")
       THEN /\ port' = [port EXCEPT !["ipv4"] = p]
            /\ Becomes(p, [r EXCEPT !.run = "binding"])
       ELSE /\ Becomes(p, Stop([r EXCEPT !.run = "ended"], 1))
            /\ UNCHANGED port
    /\ UNCHANGED <<firmware, faults>>

StoppedBeforeBinding(p) ==
    /\ Alive(p) /\ proc[p].run = "permissions" /\ Stopping(proc[p])
    /\ Quiet(p, [proc[p] EXCEPT !.run = "ended"])

\* Every listener is held; initNativeServices() starts.
BindIPv6(p) ==
    LET bound == [proc[p] EXCEPT !.run = "init", !.init = "probe", !.fan = "no"] IN
    /\ Alive(p) /\ proc[p].run = "binding"
    /\ \/ "ipv6" \notin Families /\ Becomes(p, bound) /\ UNCHANGED port
       \/ /\ "ipv6" \in Families /\ Free("ipv6")
          /\ port' = [port EXCEPT !["ipv6"] = p]
          /\ Becomes(p, bound)
       \/ /\ "ipv6" \in Families /\ ~Free("ipv6")
          /\ Becomes(p, [proc[p] EXCEPT !.run = "unbinding"])
          /\ UNCHANGED port
    /\ UNCHANGED <<firmware, faults>>

Unbind(p) ==
    /\ Alive(p) /\ proc[p].run = "unbinding"
    /\ port' = Release(p)
    /\ Becomes(p, Stop([proc[p] EXCEPT !.run = "ended"], 1))
    /\ UNCHANGED <<firmware, faults>>

ProbeEnds(p) ==
    /\ Alive(p) /\ proc[p].init = "probe"
    /\ \E available \in BOOLEAN :
        LET r == [proc[p] EXCEPT !.fan = IF available THEN "yes" ELSE "no"] IN
        Quiet(p, IF Stopping(r) THEN [r EXCEPT !.init = "over"]
                 ELSE IF available
                 THEN [r EXCEPT !.init = "fan", !.backend = TRUE,
                                !.fanQueue = Append(@, "takeover")]
                 ELSE [r EXCEPT !.init = "tuning"])

\* CPU tuning ends, well or not; the saved GPU boost follows.
TuningEnds(p) ==
    LET r == proc[p] IN
    /\ Alive(p) /\ r.init = "tuning"
    /\ Quiet(p, IF Stopping(r) \/ ~r.backend THEN [r EXCEPT !.init = "over"]
                ELSE [r EXCEPT !.init = "boost", !.calls = Append(@, "boost")])

BecomesReady(p) ==
    /\ Alive(p) /\ proc[p].run = "init" /\ proc[p].init = "over"
    /\ Quiet(p, [proc[p] EXCEPT !.run = IF Stopping(proc[p]) THEN "ended" ELSE "ready"])

-----------------------------------------------------------------------------
(* The running server *)

\* A cycle's write or the five-minute reassertion.
FanLoopWrites(p) ==
    /\ Alive(p) /\ proc[p].controlling /\ Len(proc[p].fanQueue) < MaxWrites
    /\ \E op \in {"reassert", "cycle"} :
        Quiet(p, [proc[p] EXCEPT !.fanQueue = Append(@, op)])

\* The message queue runs one request at a time.
Request(p) ==
    LET r == proc[p] IN
    /\ Alive(p) /\ r.run = "ready" /\ ~Stopping(r) /\ r.mutation = "none"
    /\ \/ r.fan # "no" /\ Len(r.fanQueue) < MaxWrites
          /\ Quiet(p, [r EXCEPT !.mutation = "fan", !.fanQueue = Append(@, "command")])
       \/ Quiet(p, [r EXCEPT !.mutation = "native", !.calls = Append(@, "request")])

-----------------------------------------------------------------------------
(* Fan operations and native calls.  What follows an operation or a call   *)
(* is the rest of the caller up to its next await.                         *)

\* fanControl() failed: initNativeServices gives the fans back.
FanInitFails(r) ==
    IF Stopping(r) THEN [r EXCEPT !.fan = "no", !.init = "over"]
    ELSE [r EXCEPT !.fan = "no", !.init = "release", !.calls = Append(@, "release")]

AfterFanOp(r, op, ok) ==
    CASE op = "command" -> [r EXCEPT !.mutation = "none"]
      [] op \in {"takeover", "first"} /\ ~ok -> FanInitFails(r)
      [] op \in {"takeover", "first"} /\ ok /\ Stopping(r) -> [r EXCEPT !.init = "over"]
      [] op = "takeover" /\ ok /\ ~Stopping(r) -> [r EXCEPT !.fanQueue = Append(@, "first")]
      [] op = "first" /\ ok /\ ~Stopping(r) ->
            [r EXCEPT !.init = "tuning", !.controlling = TRUE]
      [] OTHER -> r

FanOpStartsForgettingCaller(p) ==
    LET r == proc[p]
        op == Head(r.fanQueue)
    IN
    /\ Alive(p) /\ r.fanQueue # <<>> /\ ~r.fanStarted
    /\ Quiet(p, IF Stopping(r) THEN [r EXCEPT !.fanQueue = Tail(@)]
                ELSE [r EXCEPT !.fanStarted = TRUE, !.calls = Append(@, op),
                               !.owed = @ \/ op \in TakeOvers])
FanOpStarts(p) ==
    LET r == proc[p]
        op == Head(r.fanQueue)
    IN
    /\ Alive(p) /\ r.fanQueue # <<>> /\ ~r.fanStarted
    /\ Quiet(p, IF Stopping(r)
                THEN AfterFanOp([r EXCEPT !.fanQueue = Tail(@)], op, FALSE)
                ELSE [r EXCEPT !.fanStarted = TRUE, !.calls = Append(@, op),
                               !.owed = @ \/ op \in TakeOvers])

\* A failed handoff at startup rejects initNativeServices and stops the server.
ReleaseFails(r) == Stop([r EXCEPT !.init = "threw", !.run = "ended"], 1)

HandoffEnds(r, ok) ==
    [r EXCEPT !.handoff = IF ok THEN "ok" ELSE "failed",
              !.owed = @ /\ ~ok,
              !.code = IF ok \/ r.stage # "restore" THEN @ ELSE 1,
              !.stage = IF @ = "restore" THEN "cleanup" ELSE @]

AfterCall(r, call, ok) ==
    CASE call \in FanOps ->
            AfterFanOp([r EXCEPT !.fanQueue = Tail(@), !.fanStarted = FALSE], call, ok)
      [] call = "request" -> [r EXCEPT !.mutation = "none"]
      [] call = "boost" -> [r EXCEPT !.init = "over"]
      [] call = "release" /\ ok ->
            [r EXCEPT !.owed = FALSE, !.init = IF Stopping(r) THEN "over" ELSE "tuning"]
      [] call = "release" /\ ~ok -> ReleaseFails(r)
      [] OTHER -> HandoffEnds(r, ok)

CallReturns(p) ==
    LET r == proc[p] IN
    /\ Alive(p) /\ r.calls # <<>> /\ r.channel
    /\ firmware' = Effect(Head(r.calls))
    /\ Becomes(p, AfterCall([r EXCEPT !.calls = Tail(@)], Head(r.calls), TRUE))
    /\ UNCHANGED <<port, faults>>

CallFails(p) ==
    LET r == proc[p] IN
    /\ Alive(p) /\ r.calls # <<>>
    /\ IF r.channel THEN Fault /\ CallMayLand(r) ELSE UNCHANGED <<firmware, faults>>
    /\ Becomes(p, AfterCall([r EXCEPT !.calls = Tail(@)], Head(r.calls), FALSE))
    /\ UNCHANGED port

\* reportNativeFailure("wmi")
ChannelFails(p) ==
    LET r == proc[p] IN
    /\ Alive(p) /\ r.channel /\ r.init \notin {"none", "probe"}
    /\ Fault /\ CallMayLand(r)
    /\ Becomes(p, [r EXCEPT !.channel = FALSE, !.fan = "no", !.controlling = FALSE,
                            !.restartRequired = TRUE])
    /\ UNCHANGED port

-----------------------------------------------------------------------------
(* shutdown() *)

Signal(p) == Alive(p) /\ ~Stopping(proc[p]) /\ proc[p].run # "binding"
             /\ Quiet(p, Stop(proc[p], 0))

UncaughtError(p) ==
    /\ Alive(p) /\ proc[p].run # "binding" /\ proc[p].code = 0
    /\ Fault /\ Becomes(p, Stop(proc[p], 1)) /\ UNCHANGED <<port, firmware>>

\* server.stop(true) of a listener in servers; they close independently.
StopListener(p, f) ==
    /\ Alive(p) /\ Stopping(proc[p]) /\ port[f] = p
    /\ proc[p].run \in {"init", "ready", "ended"}
    /\ port' = [port EXCEPT ![f] = None]
    /\ UNCHANGED <<proc, firmware, faults>>

\* The restore stage, or past it when there is nothing to restore.
RestoreDueWithoutHardware(r) == r.fan # "no" \/ r.owed
RestoreDueIfAvailable(r) == r.init # "none" /\ r.fan # "no"
RestoreDue(r) == r.init # "none" /\ (r.fan # "no" \/ r.owed)
EnterRestore(r) ==
    IF RestoreDue(r) THEN [r EXCEPT !.stage = "restore", !.handoff = "waiting"]
    ELSE [r EXCEPT !.stage = "cleanup"]

\* Mutations, initialization, fan writes and native calls have all ended.
Idle(r) ==
    /\ r.mutation = "none" /\ r.init \in {"none", "over", "threw"}
    /\ r.fanQueue = <<>> /\ r.calls = <<>>

Drained(p) ==
    LET r == proc[p] IN
    /\ Alive(p) /\ r.stage = "drain" /\ Ports(p) = {} /\ Idle(r)
    /\ Quiet(p, EnterRestore(IF r.init = "threw" THEN [r EXCEPT !.code = 1] ELSE r))

DrainTimesOut(p) ==
    /\ Alive(p) /\ proc[p].stage = "drain" /\ Fault
    /\ Becomes(p, EnterRestore([proc[p] EXCEPT !.code = 1]))
    /\ UNCHANGED <<port, firmware>>

\* restoreAutoFanControl() past its wait for the fan writes.
HandoffIssues(p) ==
    LET r == proc[p] IN
    /\ Alive(p) /\ r.handoff = "waiting" /\ r.fanQueue = <<>>
    /\ Quiet(p, IF Closed(r) THEN [r EXCEPT !.handoff = "failed"]
                ELSE [r EXCEPT !.handoff = "calling", !.calls = Append(@, "handoff")])

RestoreTimesOut(p) ==
    /\ Alive(p) /\ proc[p].stage = "restore" /\ Fault
    /\ Becomes(p, [proc[p] EXCEPT !.stage = "cleanup", !.code = 1])
    /\ UNCHANGED <<port, firmware>>

Exit(p, code) ==
    /\ Becomes(p, [proc[p] EXCEPT !.stage = "exited", !.code = code])
    /\ port' = Release(p)
    /\ CallMayLand(proc[p])

CleanupEnds(p) ==
    /\ Alive(p) /\ proc[p].stage = "cleanup" /\ proc[p].calls = <<>>
    /\ Exit(p, proc[p].code) /\ UNCHANGED faults

CleanupTimesOut(p) ==
    /\ Alive(p) /\ proc[p].stage = "cleanup" /\ Fault /\ Exit(p, 1)

\* The hard deadline over the whole sequence.
DeadlinePasses(p) == Alive(p) /\ Stopping(proc[p]) /\ Fault /\ Exit(p, 1)

Killed(p) == Alive(p) /\ Fault /\ Exit(p, 137)

-----------------------------------------------------------------------------
Starts(p) ==
    \/ Launch(p) \/ Unprivileged(p) \/ BindIPv4(p) \/ StoppedBeforeBinding(p)
    \/ BindIPv6(p) \/ Unbind(p) \/ ProbeEnds(p) \/ TuningEnds(p) \/ BecomesReady(p)

Works(p) ==
    \/ FanLoopWrites(p) \/ Request(p) \/ FanOpStarts(p)
    \/ CallReturns(p) \/ CallFails(p) \/ ChannelFails(p)

Stops(p) ==
    \/ Signal(p) \/ UncaughtError(p) \/ (\E f \in Families : StopListener(p, f))
    \/ Drained(p) \/ DrainTimesOut(p) \/ HandoffIssues(p) \/ RestoreTimesOut(p)
    \/ CleanupEnds(p) \/ CleanupTimesOut(p) \/ DeadlinePasses(p) \/ Killed(p)

Next == \E p \in Processes : Starts(p) \/ Works(p) \/ Stops(p)

Spec == Init /\ [][Next]_vars

-----------------------------------------------------------------------------
Up(p) == Alive(p) /\ ~Stopping(proc[p])

\* A second start beside a running server never touches the hardware, on the
\* way up or on its rollback: only a predecessor that is shutting down, and
\* had initialized the hardware before, still settles calls.
SecondStartIsHarmless ==
    [][\A p, q \in Processes :
        Up(q) /\ proc[q].run = "ready" /\ p # q /\ proc'[p].calls # proc[p].calls
        => Stopping(proc[p]) /\ proc[p].init # "none"]_vars

\* Exit code 0 is a promise to the service manager: the fans are back with
\* the BIOS, and no admitted request or initialization was cut short.
CleanExitReleasesFans ==
    \A p \in Processes :
        proc[p].stage = "exited" /\ proc[p].code = 0
            => ~proc[p].owed /\ Idle(proc[p])

\* When every process that ever ran has ended with exit code 0, the BIOS has
\* the fans, in whatever order the processes overlapped.
AllCleanMeansBios ==
    (\A p \in Processes : proc[p].run # "off" => proc[p].stage = "exited" /\ proc[p].code = 0)
        => firmware = "bios"

\* A server that serves clients never holds the fans unwatched, unless its
\* channel died and it asks to be restarted.
ManualModeIsWatched ==
    \A p \in Processes :
        Up(p) /\ proc[p].run = "ready" /\ proc[p].owed
            => proc[p].controlling \/ proc[p].restartRequired

\* The fans are watched by the server, or given back when it ends well.
FansAreNotAbandoned == CleanExitReleasesFans /\ AllCleanMeansBios /\ ManualModeIsWatched

\* Nobody waits for a fan operation that is gone: one refused at shutdown
\* settles its caller, or startup and the command would hold up the drain.
NobodyWaitsInVain ==
    \A p \in Processes :
        LET waiting == {proc[p].fanQueue[i] : i \in DOMAIN proc[p].fanQueue} IN
        Alive(p) =>
            /\ proc[p].mutation = "fan" => "command" \in waiting
            /\ proc[p].init = "fan" => waiting \cap (TakeOvers \cup {"first"}) # {}

-----------------------------------------------------------------------------
PhaseOf(r) ==
    CASE r.stage = "up" -> "up"
      [] r.stage = "exited" /\ r.code = 0 -> "clean"
      [] r.stage = "exited" /\ r.code # 0 -> "dirty"
      [] OTHER -> "stopping"

HandoffOf(r) ==
    CASE r.handoff \in {"waiting", "calling"} -> "pending"
      [] r.handoff = "ok" -> "done"
      [] OTHER -> r.handoff

Shared == INSTANCE SharedFans WITH
    manual <- firmware = "manual",
    owed <- [p \in Processes |-> proc[p].owed],
    phase <- [p \in Processes |-> PhaseOf(proc[p])],
    handoff <- [p \in Processes |-> HandoffOf(proc[p])]

\* What overlapping processes promise each other: a second start leaves the
\* hardware alone, and those that use it share the fans as SharedFans says,
\* however their startups, shutdowns, timeouts and kills interleave.
ProcessesCoexist == SecondStartIsHarmless /\ Shared!Spec
=============================================================================
