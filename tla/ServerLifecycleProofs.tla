----------------------- MODULE ServerLifecycleProofs -----------------------
(***************************************************************************)
(* Theorems about ServerLifecycle, for any number of processes, queued     *)
(* writes and faults.                                                      *)
(*                                                                         *)
(* What the properties say of a process that serves or has ended depends   *)
(* on how far its startup and its shutdown had got when they crossed.  The *)
(* invariant says it for one process, as a predicate on its record, with   *)
(* two facts that relate the processes: manual firmware has a debtor, and  *)
(* whoever has begun to initialize holds the first port.                   *)
(***************************************************************************)
EXTENDS ServerLifecycle, SequenceTheorems, TLAPS

Elements(s) == {s[i] : i \in DOMAIN s}

\* At most one place of s holds a member of S.
AtMostOne(s, S) == \A i, j \in DOMAIN s : s[i] \in S /\ s[j] \in S => i = j

Runs == {"off", "permissions", "binding", "unbinding", "init", "ready", "ended"}
Inits == {"none", "probe", "fan", "release", "tuning", "boost", "over", "threw"}
Stages == {"up", "drain", "restore", "cleanup", "exited"}

ProcessStates ==
    [run : Runs, init : Inits,
     backend : BOOLEAN, fan : {"unknown", "yes", "no"},
     controlling : BOOLEAN, restartRequired : BOOLEAN, channel : BOOLEAN,
     owed : BOOLEAN, fanQueue : Seq(FanOps), fanStarted : BOOLEAN, calls : Seq(Calls),
     mutation : {"none", "fan", "native"},
     stage : Stages, handoff : {"none", "waiting", "calling", "ok", "failed"}, code : Nat]

\* Initialization belongs to runServer(), and readiness follows it; nobody but
\* a kill stops a process while it binds.
InitBelongsToRun(r) ==
    /\ r.run \in {"off", "permissions", "binding", "unbinding"} => r.init = "none"
    /\ r.run = "off" => r.stage = "up"
    /\ r.run = "binding" => r.stage \in {"up", "exited"}
    /\ r.init \in {"probe", "fan", "release", "tuning", "boost"} => r.run = "init"
    /\ r.run = "ready" => r.init = "over"

\* Before the fan backend is there nothing has been called, queued or taken.
NothingBeforeProbe(r) ==
    /\ r.init \in {"none", "probe"} =>
            /\ r.fanQueue = <<>> /\ r.calls = <<>> /\ r.mutation = "none"
            /\ ~r.owed /\ r.handoff = "none"
    /\ r.init = "probe" => r.fan = "no"

\* The take-over and the first write are queued alone; what runs later is
\* queued by the loop and by commands, and every caller finds its operation.
QueueHoldsCallers(r) ==
    /\ r.init = "fan" => \E op \in {"takeover", "first"} : r.fanQueue = <<op>>
    /\ r.init # "fan" => Elements(r.fanQueue) \cap {"takeover", "first"} = {}
    /\ r.init = "release" => r.fanQueue = <<>>
    /\ r.fanStarted => r.fanQueue # <<>>
    /\ r.mutation = "fan" => "command" \in Elements(r.fanQueue)

\* Each call in progress has one caller waiting for it, and none takes the
\* fans over behind a release or a handoff.
CallsHaveCallers(r) ==
    /\ \A op \in Elements(r.calls) \cap FanOps : r.fanStarted /\ op = Head(r.fanQueue)
    /\ Elements(r.calls) \cap TakeOvers # {} => r.owed
    /\ "boost" \in Elements(r.calls) => r.init = "boost"
    /\ "release" \in Elements(r.calls) => r.init = "release"
    /\ "handoff" \in Elements(r.calls) => Stopping(r) /\ r.fanQueue = <<>>
    /\ r.handoff = "waiting" => r.stage \in {"restore", "cleanup", "exited"}
    /\ \A S \in {FanOps, {"boost"}, {"release"}} : AtMostOne(r.calls, S)

\* Past the fan part of initialization, fans that are or will be taken over
\* are watched or the channel is dead.
FansAreWatched(r) ==
    /\ r.controlling => /\ r.stage \in {"up", "exited"}
                         /\ r.init \in {"tuning", "boost", "over"}
    /\ ~Stopping(r) /\ (\/ r.init \in {"tuning", "boost", "over"} /\ r.owed
                        \/ "reassert" \in Elements(r.fanQueue))
            => r.controlling \/ r.restartRequired

\* While the exit code is 0, the shutdown has left nothing behind.
CleanSoFar(r) ==
    r.stage \in {"restore", "cleanup", "exited"} /\ r.code = 0 =>
        /\ r.mutation = "none" /\ r.init \in {"none", "over", "threw"} /\ r.fanQueue = <<>>
        /\ r.calls = IF r.stage = "restore" /\ r.handoff = "calling" THEN <<"handoff">> ELSE <<>>
        /\ r.stage # "restore" => ~r.owed

Fits(r) ==
    /\ r \in ProcessStates
    /\ InitBelongsToRun(r) /\ NothingBeforeProbe(r) /\ QueueHoldsCallers(r)
    /\ CallsHaveCallers(r) /\ FansAreWatched(r) /\ CleanSoFar(r)

\* Whoever left the firmware in manual mode owes the handoff, or has ended
\* without exit code 0.
ManualHasDebtor ==
    firmware = "manual" =>
        \E p \in Processes : proc[p].owed \/ (proc[p].stage = "exited" /\ proc[p].code # 0)

\* A process that has begun to initialize listens on IPv4 until it stops.
FirstPortIsHeld ==
    \A p \in Processes :
        ~Stopping(proc[p]) /\ (proc[p].run = "binding" \/ proc[p].init # "none")
            => port["ipv4"] = p

Inv ==
    /\ proc \in [Processes -> ProcessStates] /\ port \in [Families -> Processes \cup {None}]
    /\ firmware \in {"bios", "manual"}
    /\ \A p \in Processes : Fits(proc[p])
    /\ ManualHasDebtor /\ FirstPortIsHeld

-----------------------------------------------------------------------------
(* Queues as sets *)

LEMMA ElementsOfEmpty == Elements(<<>>) = {}
  BY DEF Elements

LEMMA ElementsOfAppend ==
    ASSUME NEW S, NEW s \in Seq(S), NEW x \in S
    PROVE  Elements(Append(s, x)) = Elements(s) \cup {x}
  <1>1. /\ Append(s, x) \in Seq(S) /\ Len(Append(s, x)) = Len(s) + 1 /\ Len(s) \in Nat
        /\ \A i \in 1 .. Len(s) : Append(s, x)[i] = s[i]
        /\ Append(s, x)[Len(s) + 1] = x
        /\ DOMAIN s = 1 .. Len(s) /\ DOMAIN Append(s, x) = 1 .. Len(s) + 1
    BY AppendProperties, LenProperties
  <1>2. \A y : y \in Elements(Append(s, x)) <=> y \in Elements(s) \/ y = x
    BY <1>1 DEF Elements
  <1> QED
    BY <1>2

LEMMA ElementsOfTail ==
    ASSUME NEW S, NEW s \in Seq(S), s # <<>>
    PROVE  /\ Head(s) \in S /\ Tail(s) \in Seq(S)
           /\ Elements(s) = {Head(s)} \cup Elements(Tail(s))
  <1>1. /\ Len(s) \in Nat /\ Len(s) >= 1 /\ Tail(s) \in Seq(S) /\ Head(s) \in S
        /\ Len(Tail(s)) = Len(s) - 1 /\ Head(s) = s[1]
        /\ \A i \in 1 .. Len(s) - 1 : Tail(s)[i] = s[i + 1]
        /\ DOMAIN s = 1 .. Len(s) /\ DOMAIN Tail(s) = 1 .. Len(s) - 1
    BY HeadTailProperties, LenProperties, EmptySeq
  <1>2. ASSUME NEW y \in Elements(s) PROVE y \in {Head(s)} \cup Elements(Tail(s))
    <2>1. PICK i \in 1 .. Len(s) : y = s[i]
      BY <1>1 DEF Elements
    <2>2. CASE i = 1
      BY <1>1, <2>1, <2>2
    <2>3. CASE i # 1
      <3>1. i - 1 \in 1 .. Len(s) - 1 /\ Tail(s)[i - 1] = y
        BY <1>1, <2>1, <2>3
      <3> QED
        BY <1>1, <3>1 DEF Elements
    <2> QED
      BY <2>2, <2>3
  <1>3. ASSUME NEW y \in {Head(s)} \cup Elements(Tail(s)) PROVE y \in Elements(s)
    BY <1>1 DEF Elements
  <1> QED
    BY <1>1, <1>2, <1>3

LEMMA AtMostOneOfAppend ==
    ASSUME NEW S, NEW s \in Seq(S), NEW x \in S, NEW T,
           AtMostOne(s, T), x \notin T \/ Elements(s) \cap T = {}
    PROVE  AtMostOne(Append(s, x), T)
  <1>1. /\ Len(s) \in Nat
        /\ \A i \in 1 .. Len(s) : Append(s, x)[i] = s[i]
        /\ Append(s, x)[Len(s) + 1] = x
        /\ DOMAIN s = 1 .. Len(s) /\ DOMAIN Append(s, x) = 1 .. Len(s) + 1
    BY AppendProperties, LenProperties
  <1> QED
    BY <1>1 DEF AtMostOne, Elements

LEMMA AtMostOneOfTail ==
    ASSUME NEW S, NEW s \in Seq(S), s # <<>>, NEW T, AtMostOne(s, T)
    PROVE  /\ AtMostOne(Tail(s), T)
           /\ Head(s) \in T => Elements(Tail(s)) \cap T = {}
  <1>1. /\ Len(s) \in Nat /\ Len(s) >= 1 /\ Head(s) = s[1]
        /\ \A i \in 1 .. Len(s) - 1 : Tail(s)[i] = s[i + 1] /\ i + 1 \in 1 .. Len(s)
        /\ DOMAIN s = 1 .. Len(s) /\ DOMAIN Tail(s) = 1 .. Len(s) - 1
    BY HeadTailProperties, LenProperties, EmptySeq
  <1>2. AtMostOne(Tail(s), T)
    <2> SUFFICES ASSUME NEW i \in 1 .. Len(s) - 1, NEW j \in 1 .. Len(s) - 1,
                        Tail(s)[i] \in T, Tail(s)[j] \in T
                 PROVE  i = j
      BY <1>1 DEF AtMostOne
    <2>1. i + 1 = j + 1
      BY <1>1 DEF AtMostOne
    <2> QED
      BY <1>1, <2>1
  <1>3. ASSUME Head(s) \in T, NEW i \in 1 .. Len(s) - 1, Tail(s)[i] \in T
        PROVE  FALSE
    <2>1. s[i + 1] \in T /\ s[1] \in T /\ i + 1 \in DOMAIN s /\ 1 \in DOMAIN s
      BY <1>1, <1>3
    <2>2. i + 1 = 1
      BY <2>1 DEF AtMostOne
    <2> QED
      BY <1>1, <2>2
  <1> QED
    BY <1>1, <1>2, <1>3 DEF Elements

\* What a queued operation and a settled call leave in the queue and the calls.
LEMMA QueuesOfProcess ==
    ASSUME NEW r, Fits(r)
    PROVE  /\ \A op \in FanOps : /\ Append(r.fanQueue, op) \in Seq(FanOps)
                                 /\ Append(r.fanQueue, op) # <<>>
                                 /\ Elements(Append(r.fanQueue, op)) = Elements(r.fanQueue) \cup {op}
                                 /\ r.fanQueue # <<>> => Head(Append(r.fanQueue, op)) = Head(r.fanQueue)
           /\ r.fanQueue # <<>> => /\ Head(r.fanQueue) \in FanOps /\ Tail(r.fanQueue) \in Seq(FanOps)
                                   /\ Elements(r.fanQueue) = {Head(r.fanQueue)} \cup Elements(Tail(r.fanQueue))
           /\ \A c \in Calls : /\ Append(r.calls, c) \in Seq(Calls)
                               /\ Elements(Append(r.calls, c)) = Elements(r.calls) \cup {c}
           /\ r.calls # <<>> => /\ Head(r.calls) \in Calls /\ Tail(r.calls) \in Seq(Calls)
                                /\ Elements(r.calls) = {Head(r.calls)} \cup Elements(Tail(r.calls))
           /\ r.fanQueue \in Seq(FanOps) /\ r.calls \in Seq(Calls)
  <1>1. r.fanQueue \in Seq(FanOps) /\ r.calls \in Seq(Calls)
    BY DEF Fits, ProcessStates
  <1>2. ASSUME NEW op \in FanOps
        PROVE  /\ Append(r.fanQueue, op) \in Seq(FanOps) /\ Append(r.fanQueue, op) # <<>>
               /\ r.fanQueue # <<>> => Head(Append(r.fanQueue, op)) = Head(r.fanQueue)
    BY <1>1, AppendProperties, HeadTailAppend
  <1>3. ASSUME NEW c \in Calls PROVE Append(r.calls, c) \in Seq(Calls)
    BY <1>1, AppendProperties
  <1> QED
    BY <1>1, <1>2, <1>3, ElementsOfAppend, ElementsOfTail

-----------------------------------------------------------------------------
(* The parts of a step *)

\* A process stays in its state space when one field moves within its set.
LEMMA TypedUpdates ==
    ASSUME NEW r \in ProcessStates
    PROVE  /\ \A x \in Runs : [r EXCEPT !.run = x] \in ProcessStates
           /\ \A x \in Inits : [r EXCEPT !.init = x] \in ProcessStates
           /\ \A x \in BOOLEAN : [r EXCEPT !.backend = x] \in ProcessStates
           /\ \A x \in {"unknown", "yes", "no"} : [r EXCEPT !.fan = x] \in ProcessStates
           /\ \A x \in BOOLEAN : [r EXCEPT !.controlling = x] \in ProcessStates
           /\ \A x \in BOOLEAN : [r EXCEPT !.restartRequired = x] \in ProcessStates
           /\ \A x \in BOOLEAN : [r EXCEPT !.channel = x] \in ProcessStates
           /\ \A x \in BOOLEAN : [r EXCEPT !.owed = x] \in ProcessStates
           /\ \A x \in Seq(FanOps) : [r EXCEPT !.fanQueue = x] \in ProcessStates
           /\ \A x \in BOOLEAN : [r EXCEPT !.fanStarted = x] \in ProcessStates
           /\ \A x \in Seq(Calls) : [r EXCEPT !.calls = x] \in ProcessStates
           /\ \A x \in {"none", "fan", "native"} : [r EXCEPT !.mutation = x] \in ProcessStates
           /\ \A x \in Stages : [r EXCEPT !.stage = x] \in ProcessStates
           /\ \A x \in {"none", "waiting", "calling", "ok", "failed"} :
                   [r EXCEPT !.handoff = x] \in ProcessStates
           /\ \A x \in Nat : [r EXCEPT !.code = x] \in ProcessStates
  <1>1. ASSUME NEW x \in Runs
        PROVE  [r EXCEPT !.run = x] \in ProcessStates
    BY DEF ProcessStates
  <1>2. ASSUME NEW x \in Inits
        PROVE  [r EXCEPT !.init = x] \in ProcessStates
    BY DEF ProcessStates
  <1>3. ASSUME NEW x \in BOOLEAN
        PROVE  [r EXCEPT !.backend = x] \in ProcessStates
    BY DEF ProcessStates
  <1>4. ASSUME NEW x \in {"unknown", "yes", "no"}
        PROVE  [r EXCEPT !.fan = x] \in ProcessStates
    BY DEF ProcessStates
  <1>5. ASSUME NEW x \in BOOLEAN
        PROVE  [r EXCEPT !.controlling = x] \in ProcessStates
    BY DEF ProcessStates
  <1>6. ASSUME NEW x \in BOOLEAN
        PROVE  [r EXCEPT !.restartRequired = x] \in ProcessStates
    BY DEF ProcessStates
  <1>7. ASSUME NEW x \in BOOLEAN
        PROVE  [r EXCEPT !.channel = x] \in ProcessStates
    BY DEF ProcessStates
  <1>8. ASSUME NEW x \in BOOLEAN
        PROVE  [r EXCEPT !.owed = x] \in ProcessStates
    BY DEF ProcessStates
  <1>9. ASSUME NEW x \in Seq(FanOps)
        PROVE  [r EXCEPT !.fanQueue = x] \in ProcessStates
    BY DEF ProcessStates
  <1>10. ASSUME NEW x \in BOOLEAN
        PROVE  [r EXCEPT !.fanStarted = x] \in ProcessStates
    BY DEF ProcessStates
  <1>11. ASSUME NEW x \in Seq(Calls)
        PROVE  [r EXCEPT !.calls = x] \in ProcessStates
    BY DEF ProcessStates
  <1>12. ASSUME NEW x \in {"none", "fan", "native"}
        PROVE  [r EXCEPT !.mutation = x] \in ProcessStates
    BY DEF ProcessStates
  <1>13. ASSUME NEW x \in Stages
        PROVE  [r EXCEPT !.stage = x] \in ProcessStates
    BY DEF ProcessStates
  <1>14. ASSUME NEW x \in {"none", "waiting", "calling", "ok", "failed"}
        PROVE  [r EXCEPT !.handoff = x] \in ProcessStates
    BY DEF ProcessStates
  <1>15. ASSUME NEW x \in Nat
        PROVE  [r EXCEPT !.code = x] \in ProcessStates
    BY DEF ProcessStates
  <1> QED
    BY <1>1, <1>2, <1>3, <1>4, <1>5, <1>6, <1>7, <1>8,
       <1>9, <1>10, <1>11, <1>12, <1>13, <1>14, <1>15

LEMMA StopFits ==
    ASSUME NEW r, Fits(r), r.run \notin {"off", "binding"}, r.stage # "exited", NEW c \in Nat
    PROVE  Fits(Stop(r, c))
  <1> DEFINE s == Stop(r, c)
  <1>1. /\ r \in ProcessStates /\ r.code \in Nat
        /\ Worse(r.code, c) \in Nat /\ (Worse(r.code, c) = 0 => r.code = 0)
    BY DEF Worse, Fits, ProcessStates
  <1>2. PICK n \in Nat, stage \in Stages :
            /\ s = [r EXCEPT !.code = n, !.stage = stage, !.controlling = FALSE]
            /\ n = 0 => r.code = 0
            /\ stage = IF r.stage = "up" THEN "drain" ELSE r.stage
    BY <1>1 DEF Stop, ProcessStates, Stages
  <1>3. s \in ProcessStates
    <2>1. [r EXCEPT !.code = n, !.stage = stage, !.controlling = FALSE] \in ProcessStates
      BY <1>1, TypedUpdates
    <2> QED
      BY <1>2, <2>1
  <1>4. /\ s.stage \notin {"up", "exited"} /\ (r.stage # "up" => s.stage = r.stage)
        /\ (r.stage = "up" => s.stage = "drain")
        /\ ~s.controlling /\ s.run = r.run /\ s.init = r.init /\ s.owed = r.owed
        /\ s.fanQueue = r.fanQueue /\ s.fanStarted = r.fanStarted /\ s.calls = r.calls
        /\ s.mutation = r.mutation /\ s.handoff = r.handoff /\ s.fan = r.fan
        /\ s.restartRequired = r.restartRequired /\ (s.code = 0 => r.code = 0)
    BY <1>1, <1>2, <1>3 DEF ProcessStates
  <1> HIDE DEF s
  <1>5. InitBelongsToRun(s) /\ NothingBeforeProbe(s) /\ QueueHoldsCallers(s)
    BY <1>4 DEF Fits, InitBelongsToRun, NothingBeforeProbe, QueueHoldsCallers
  <1>6. CallsHaveCallers(s)
    BY <1>4 DEF Fits, CallsHaveCallers, Stopping
  <1>7. FansAreWatched(s) /\ CleanSoFar(s)
    BY <1>4 DEF Fits, FansAreWatched, Stopping, CleanSoFar
  <1> QED
    BY <1>3, <1>5, <1>6, <1>7 DEF Fits, s

LEMMA EnterRestoreFits ==
    ASSUME NEW r, Fits(r), r.stage = "drain",
           r.code = 0 => Idle(r) /\ r.init # "threw"
    PROVE  Fits(EnterRestore(r))
  <1>1. EnterRestore(r) \in ProcessStates
    <2>1. r \in ProcessStates
      BY DEF Fits
    <2>2. /\ [r EXCEPT !.stage = "restore", !.handoff = "waiting"] \in ProcessStates
          /\ [r EXCEPT !.stage = "cleanup"] \in ProcessStates
      BY <2>1, TypedUpdates DEF Stages
    <2> QED
      BY <2>2 DEF EnterRestore
  <1> DEFINE s == EnterRestore(r)
  <1>2. /\ s.run = r.run /\ s.init = r.init /\ s.owed = r.owed /\ s.code = r.code
        /\ s.fanQueue = r.fanQueue /\ s.fanStarted = r.fanStarted /\ s.calls = r.calls
        /\ s.mutation = r.mutation /\ s.fan = r.fan /\ s.controlling = r.controlling
        /\ s.restartRequired = r.restartRequired
        /\ \/ s.stage = "restore" /\ s.handoff = "waiting" /\ RestoreDue(r)
           \/ s.stage = "cleanup" /\ s.handoff = r.handoff /\ ~RestoreDue(r)
    BY DEF EnterRestore, Fits, ProcessStates
  <1> HIDE DEF s
  <1>3. InitBelongsToRun(s) /\ NothingBeforeProbe(s) /\ QueueHoldsCallers(s)
    BY <1>2 DEF Fits, InitBelongsToRun, NothingBeforeProbe, QueueHoldsCallers, RestoreDue
  <1>4. CallsHaveCallers(s)
    BY <1>2 DEF Fits, CallsHaveCallers, Stopping
  <1>5. FansAreWatched(s)
    BY <1>2 DEF Fits, FansAreWatched, Stopping
  <1>6. CleanSoFar(s)
    <2> SUFFICES ASSUME s.code = 0
                 PROVE  /\ s.mutation = "none" /\ s.init \in {"none", "over", "threw"}
                        /\ s.fanQueue = <<>> /\ s.calls = <<>>
                        /\ s.stage = "restore" => s.handoff # "calling"
                        /\ s.stage # "restore" => ~s.owed
      BY <1>2 DEF CleanSoFar
    <2>1. Idle(r)
      BY <1>2
    <2>2. s.stage # "restore" => ~s.owed
      BY <1>2 DEF Fits, NothingBeforeProbe, RestoreDue
    <2> QED
      BY <1>2, <2>1, <2>2 DEF Idle
  <1> QED
    BY <1>1, <1>3, <1>4, <1>5, <1>6 DEF Fits, s

\* The caller of the operation at the head of the queue goes on; s is r
\* without that operation and without its call, if it had started.
LEMMA AfterFanOpFits ==
    ASSUME NEW r, Fits(r), r.fanQueue # <<>>, r.stage # "exited",
           NEW s \in ProcessStates, NEW ok \in BOOLEAN,
           s.fanQueue = Tail(r.fanQueue), ~s.fanStarted,
           Elements(s.calls) \subseteq Elements(r.calls), Elements(s.calls) \cap FanOps = {},
           \A S \in {FanOps, {"boost"}, {"release"}} : AtMostOne(s.calls, S),
           s.run = r.run, s.init = r.init, s.backend = r.backend, s.fan = r.fan,
           s.controlling = r.controlling, s.restartRequired = r.restartRequired,
           s.channel = r.channel, s.owed = r.owed, s.mutation = r.mutation,
           s.stage = r.stage, s.handoff = r.handoff, s.code = r.code
    PROVE  Fits(AfterFanOp(s, Head(r.fanQueue), ok))
  <1> DEFINE op == Head(r.fanQueue)
             t == AfterFanOp(s, op, ok)
  <1>1. op \in FanOps /\ Elements(r.fanQueue) = {op} \cup Elements(s.fanQueue)
    BY QueuesOfProcess
  <1>2. r.init \notin {"none", "probe", "release"}
    BY DEF Fits, NothingBeforeProbe, QueueHoldsCallers
  <1>3. ~(r.stage \in {"restore", "cleanup"} /\ r.code = 0)
    BY DEF Fits, CleanSoFar
  <1>4. r.init = "fan" => s.fanQueue = <<>> /\ op \in {"takeover", "first"}
    <2>1. \A x : Head(<<x>>) = x /\ Tail(<<x>>) = <<>>
      OBVIOUS
    <2> SUFFICES ASSUME r.init = "fan"
                 PROVE  s.fanQueue = <<>> /\ op \in {"takeover", "first"}
      OBVIOUS
    <2>2. PICK x \in {"takeover", "first"} : r.fanQueue = <<x>>
      BY DEF Fits, QueueHoldsCallers
    <2> QED
      BY <2>1, <2>2
  <1>5. r.init # "fan" => op \in {"reassert", "cycle", "command"}
    BY <1>1 DEF Fits, QueueHoldsCallers, FanOps, TakeOvers
  <1>6. CASE op \in {"reassert", "cycle"}
    <2>1. t = s
      BY <1>6 DEF AfterFanOp
    <2> HIDE DEF t
    <2>2. InitBelongsToRun(t) /\ NothingBeforeProbe(t) /\ CleanSoFar(t)
      BY <1>2, <1>3, <2>1 DEF Fits, InitBelongsToRun, NothingBeforeProbe, CleanSoFar
    <2>3. QueueHoldsCallers(t) /\ FansAreWatched(t)
      BY <1>1, <1>4, <1>5, <1>6, <2>1 DEF Fits, QueueHoldsCallers, FansAreWatched, Stopping
    <2>4. CallsHaveCallers(t)
      BY <2>1, <1>4, <1>6 DEF Fits, CallsHaveCallers, Stopping, TakeOvers, FanOps
    <2> QED
      BY <2>1, <2>2, <2>3, <2>4 DEF Fits, t
  <1>7. CASE op = "command"
    <2>1. t = [s EXCEPT !.mutation = "none"]
      BY <1>7 DEF AfterFanOp
    <2> HIDE DEF t
    <2>2. t \in ProcessStates
      BY <2>1, TypedUpdates
    <2>3. /\ t.run = s.run /\ t.init = s.init /\ t.fan = s.fan /\ t.stage = s.stage
          /\ t.code = s.code /\ t.handoff = s.handoff /\ t.owed = s.owed
          /\ t.controlling = s.controlling /\ t.restartRequired = s.restartRequired
          /\ t.fanQueue = s.fanQueue /\ t.fanStarted = s.fanStarted
          /\ t.calls = s.calls /\ t.mutation = "none"
      BY <2>1 DEF ProcessStates
    <2>4. InitBelongsToRun(t) /\ NothingBeforeProbe(t) /\ CleanSoFar(t)
      BY <1>2, <1>3, <2>3 DEF Fits, InitBelongsToRun, NothingBeforeProbe, CleanSoFar
    <2>5. QueueHoldsCallers(t) /\ FansAreWatched(t)
      BY <1>1, <1>4, <1>5, <1>7, <2>3 DEF Fits, QueueHoldsCallers, FansAreWatched, Stopping
    <2>6. CallsHaveCallers(t)
      BY <2>3, <1>4, <1>7 DEF Fits, CallsHaveCallers, Stopping, TakeOvers, FanOps
    <2> QED
      BY <2>2, <2>4, <2>5, <2>6 DEF Fits, t
  <1>8. CASE op \in {"takeover", "first"} /\ Stopping(s)
    <2>1. \/ t = [s EXCEPT !.fan = "no", !.init = "over"]
          \/ t = [s EXCEPT !.init = "over"]
      BY <1>8 DEF AfterFanOp, FanInitFails
    <2> HIDE DEF t
    <2>2. t \in ProcessStates
      <3>1. "over" \in Inits /\ "no" \in {"unknown", "yes", "no"}
        BY DEF Inits
      <3>2. [s EXCEPT !.fan = "no", !.init = "over"] \in ProcessStates
        BY <3>1, TypedUpdates
      <3>3. [s EXCEPT !.init = "over"] \in ProcessStates
        BY <3>1, TypedUpdates
      <3> QED
        BY <2>1, <3>2, <3>3
    <2>3. /\ t.run = s.run /\ t.init = "over" /\ t.stage = s.stage
          /\ t.code = s.code /\ t.handoff = s.handoff /\ t.owed = s.owed
          /\ t.controlling = s.controlling /\ t.restartRequired = s.restartRequired
          /\ t.fanQueue = s.fanQueue /\ t.fanStarted = s.fanStarted
          /\ t.calls = s.calls /\ t.mutation = s.mutation
      BY <2>1 DEF ProcessStates
    <2>4. r.init = "fan" /\ t.fanQueue = <<>> /\ Elements(t.fanQueue) = {}
      BY <1>4, <1>5, <1>8, <2>3, ElementsOfEmpty
    <2>5. InitBelongsToRun(t) /\ NothingBeforeProbe(t) /\ CleanSoFar(t)
      BY <1>3, <2>3, <2>4 DEF Fits, InitBelongsToRun, NothingBeforeProbe, CleanSoFar
    <2>6. QueueHoldsCallers(t) /\ FansAreWatched(t)
      BY <1>1, <1>8, <2>3, <2>4 DEF Fits, QueueHoldsCallers, FansAreWatched, Stopping
    <2>7. CallsHaveCallers(t)
      BY <1>8, <2>3, <2>4 DEF Fits, CallsHaveCallers, Stopping, TakeOvers, FanOps
    <2> QED
      BY <2>2, <2>5, <2>6, <2>7 DEF Fits, t
  <1>9. CASE op \in {"takeover", "first"} /\ ~ok /\ ~Stopping(s)
    <2>1. t = [s EXCEPT !.fan = "no", !.init = "release", !.calls = Append(@, "release")]
      BY <1>9 DEF AfterFanOp, FanInitFails
    <2>2. /\ "release" \in Calls /\ "release" \notin FanOps /\ s.calls \in Seq(Calls)
          /\ Append(s.calls, "release") \in Seq(Calls)
      BY AppendProperties DEF Calls, FanOps, TakeOvers, ProcessStates
    <2> HIDE DEF t
    <2>3. t \in ProcessStates
      BY <2>1, <2>2, TypedUpdates DEF Inits
    <2>4. /\ t.run = s.run /\ t.init = "release" /\ t.stage = s.stage
          /\ t.code = s.code /\ t.handoff = s.handoff /\ t.owed = s.owed
          /\ t.controlling = s.controlling /\ t.restartRequired = s.restartRequired
          /\ t.fanQueue = s.fanQueue /\ t.fanStarted = s.fanStarted
          /\ t.calls = Append(s.calls, "release") /\ t.mutation = s.mutation
      BY <2>1 DEF ProcessStates
    <2>5. r.init = "fan" /\ t.fanQueue = <<>> /\ Elements(t.fanQueue) = {}
      BY <1>4, <1>5, <1>9, <2>4, ElementsOfEmpty
    <2>6. Elements(s.calls) \cap {"release"} = {}
      BY <2>5 DEF Fits, CallsHaveCallers
    <2>7. /\ Elements(t.calls) = Elements(s.calls) \cup {"release"}
          /\ \A S \in {FanOps, {"boost"}, {"release"}} : AtMostOne(t.calls, S)
      BY <2>2, <2>4, <2>6, ElementsOfAppend, AtMostOneOfAppend
    <2>8. InitBelongsToRun(t) /\ NothingBeforeProbe(t) /\ CleanSoFar(t)
      BY <1>3, <2>4, <2>5 DEF Fits, InitBelongsToRun, NothingBeforeProbe, CleanSoFar
    <2>9. QueueHoldsCallers(t) /\ FansAreWatched(t)
      BY <1>1, <1>9, <2>4, <2>5 DEF Fits, QueueHoldsCallers, FansAreWatched, Stopping
    <2>10. CallsHaveCallers(t)
      BY <1>9, <2>4, <2>5, <2>7 DEF Fits, CallsHaveCallers, Stopping, TakeOvers, FanOps
    <2> QED
      BY <2>3, <2>8, <2>9, <2>10 DEF Fits, t
  <1>10. CASE op = "takeover" /\ ok /\ ~Stopping(s)
    <2>1. /\ t = [s EXCEPT !.fanQueue = Append(@, "first")]
          /\ r.init = "fan" /\ s.fanQueue = <<>>
      BY <1>4, <1>5, <1>10 DEF AfterFanOp
    <2>2. Append(<<>>, "first") = <<"first">> /\ <<"first">> \in Seq(FanOps)
      BY DEF FanOps
    <2> HIDE DEF t
    <2>3. t \in ProcessStates
      BY <2>1, <2>2, TypedUpdates
    <2>4. /\ t.run = s.run /\ t.init = s.init /\ t.fan = s.fan /\ t.stage = s.stage
          /\ t.code = s.code /\ t.handoff = s.handoff /\ t.owed = s.owed
          /\ t.controlling = s.controlling /\ t.restartRequired = s.restartRequired
          /\ t.fanQueue = <<"first">> /\ t.fanStarted = s.fanStarted
          /\ t.calls = s.calls /\ t.mutation = s.mutation
          /\ Elements(t.fanQueue) = {"first"}
      <3>1. Elements(<<"first">>) = {"first"}
        BY DEF Elements
      <3>2. s \in ProcessStates /\ t = [s EXCEPT !.fanQueue = <<"first">>]
        BY <1>5, <1>10, <2>1, <2>2
      <3> QED
        BY <3>1, <3>2 DEF ProcessStates
    <2>5. InitBelongsToRun(t) /\ NothingBeforeProbe(t) /\ CleanSoFar(t)
      BY <1>3, <2>1, <2>4 DEF Fits, InitBelongsToRun, NothingBeforeProbe, CleanSoFar
    <2>6. QueueHoldsCallers(t) /\ FansAreWatched(t)
      BY <1>1, <1>10, <2>1, <2>4, ElementsOfEmpty
         DEF Fits, QueueHoldsCallers, FansAreWatched, Stopping
    <2>7. CallsHaveCallers(t)
      BY <1>10, <2>1, <2>4 DEF Fits, CallsHaveCallers, Stopping, TakeOvers, FanOps
    <2> QED
      BY <2>3, <2>5, <2>6, <2>7 DEF Fits, t
  <1>11. CASE op = "first" /\ ok /\ ~Stopping(s)
    <2>1. t = [s EXCEPT !.init = "tuning", !.controlling = TRUE]
      BY <1>11 DEF AfterFanOp
    <2> HIDE DEF t
    <2>2. t \in ProcessStates
      BY <2>1, TypedUpdates DEF Inits
    <2>3. /\ t.run = s.run /\ t.init = "tuning" /\ t.fan = s.fan /\ t.stage = s.stage
          /\ t.code = s.code /\ t.handoff = s.handoff /\ t.owed = s.owed
          /\ t.controlling /\ t.restartRequired = s.restartRequired
          /\ t.fanQueue = s.fanQueue /\ t.fanStarted = s.fanStarted
          /\ t.calls = s.calls /\ t.mutation = s.mutation
      BY <2>1 DEF ProcessStates
    <2>4. r.init = "fan" /\ t.fanQueue = <<>> /\ Elements(t.fanQueue) = {}
      BY <1>4, <1>5, <1>11, <2>3, ElementsOfEmpty
    <2>5. InitBelongsToRun(t) /\ NothingBeforeProbe(t) /\ CleanSoFar(t)
      BY <1>3, <2>3, <2>4 DEF Fits, InitBelongsToRun, NothingBeforeProbe, CleanSoFar
    <2>6. QueueHoldsCallers(t) /\ FansAreWatched(t)
      BY <1>1, <1>11, <2>3, <2>4 DEF Fits, QueueHoldsCallers, FansAreWatched, Stopping
    <2>7. CallsHaveCallers(t)
      BY <1>11, <2>3, <2>4 DEF Fits, CallsHaveCallers, Stopping, TakeOvers, FanOps
    <2> QED
      BY <2>2, <2>5, <2>6, <2>7 DEF Fits, t
  <1> QED
    BY <1>4, <1>5, <1>6, <1>7, <1>8, <1>9, <1>10, <1>11

LEMMA RunMoves ==
    ASSUME NEW r, Fits(r), r.init = "none",
           NEW run \in {"permissions", "binding", "unbinding", "ended"},
           run = "binding" => r.stage = "up"
    PROVE  Fits([r EXCEPT !.run = run])
  <1> DEFINE s == [r EXCEPT !.run = run]
  <1>1. r \in ProcessStates /\ run \in Runs
    BY DEF Fits, Runs
  <1>2. s \in ProcessStates
    BY <1>1, TypedUpdates
  <1>3. InitBelongsToRun(s) /\ NothingBeforeProbe(s)
    BY <1>1 DEF Fits, ProcessStates, InitBelongsToRun, NothingBeforeProbe
  <1>4. QueueHoldsCallers(s)
    BY <1>1 DEF Fits, ProcessStates, QueueHoldsCallers
  <1>5. CallsHaveCallers(s)
    BY <1>1 DEF Fits, ProcessStates, CallsHaveCallers, Stopping
  <1>6. FansAreWatched(s) /\ CleanSoFar(s)
    BY <1>1 DEF Fits, ProcessStates, FansAreWatched, CleanSoFar, Stopping
  <1> QED
    BY <1>2, <1>3, <1>4, <1>5, <1>6 DEF Fits

LEMMA FailingCodeFits ==
    ASSUME NEW r, Fits(r)
    PROVE  Fits([r EXCEPT !.code = 1])
  <1> DEFINE s == [r EXCEPT !.code = 1]
  <1>1. r \in ProcessStates
    BY DEF Fits
  <1>2. s \in ProcessStates
    <2>1. 1 \in Nat
      OBVIOUS
    <2> QED
      BY <1>1, <2>1, TypedUpdates
  <1>3. InitBelongsToRun(s) /\ NothingBeforeProbe(s)
    BY <1>1 DEF Fits, ProcessStates, InitBelongsToRun, NothingBeforeProbe
  <1>4. QueueHoldsCallers(s)
    BY <1>1 DEF Fits, ProcessStates, QueueHoldsCallers
  <1>5. CallsHaveCallers(s)
    BY <1>1 DEF Fits, ProcessStates, CallsHaveCallers, Stopping
  <1>6. FansAreWatched(s) /\ CleanSoFar(s)
    BY <1>1 DEF Fits, ProcessStates, FansAreWatched, CleanSoFar, Stopping
  <1> QED
    BY <1>2, <1>3, <1>4, <1>5, <1>6 DEF Fits

LEMMA ExitFits ==
    ASSUME NEW r, Fits(r), r.run # "off", NEW n \in Nat,
           n = 0 => r.stage = "cleanup" /\ r.code = 0
    PROVE  Fits([r EXCEPT !.stage = "exited", !.code = n])
  <1> DEFINE s == [r EXCEPT !.stage = "exited", !.code = n]
  <1>1. r \in ProcessStates /\ "exited" \in Stages
    BY DEF Fits, Stages
  <1>2. s \in ProcessStates
    BY <1>1, TypedUpdates
  <1>3. InitBelongsToRun(s) /\ NothingBeforeProbe(s)
    BY <1>1 DEF Fits, ProcessStates, InitBelongsToRun, NothingBeforeProbe
  <1>4. QueueHoldsCallers(s)
    BY <1>1 DEF Fits, ProcessStates, QueueHoldsCallers
  <1>5. CallsHaveCallers(s)
    BY <1>1 DEF Fits, ProcessStates, CallsHaveCallers, Stopping
  <1>6. FansAreWatched(s)
    BY <1>1 DEF Fits, ProcessStates, FansAreWatched, Stopping
  <1>7. CleanSoFar(s)
    BY <1>1 DEF Fits, ProcessStates, CleanSoFar
  <1> QED
    BY <1>2, <1>3, <1>4, <1>5, <1>6, <1>7 DEF Fits

LEMMA FailingExitFits ==
    ASSUME NEW r, Fits(r), r.run # "off"
    PROVE  /\ Fits([r EXCEPT !.stage = "exited", !.code = 1])
           /\ Fits([r EXCEPT !.stage = "exited", !.code = 137])
  <1>1. \A n \in Nat : n # 0 => Fits([r EXCEPT !.stage = "exited", !.code = n])
    BY ExitFits
  <1>2. 1 \in Nat /\ 1 # 0 /\ 137 \in Nat /\ 137 # 0
    OBVIOUS
  <1> QED
    BY <1>1, <1>2

\* A call is entered in the calls.
LEMMA CallAdded ==
    ASSUME NEW r, Fits(r), NEW c \in {"boost", "release", "request", "handoff"},
           c \in {"boost", "release"} => c \notin Elements(r.calls)
    PROVE  /\ Append(r.calls, c) \in Seq(Calls)
           /\ Elements(Append(r.calls, c)) = Elements(r.calls) \cup {c}
           /\ \A S \in {FanOps, {"boost"}, {"release"}} : AtMostOne(Append(r.calls, c), S)
  <1>1. /\ c \in Calls /\ c \notin FanOps /\ r.calls \in Seq(Calls)
        /\ \A S \in {FanOps, {"boost"}, {"release"}} : AtMostOne(r.calls, S)
    BY DEF Calls, FanOps, TakeOvers, Fits, ProcessStates, CallsHaveCallers
  <1>2. \A S \in {FanOps, {"boost"}, {"release"}} :
            c \notin S \/ Elements(r.calls) \cap S = {}
    BY <1>1
  <1> QED
    BY <1>1, <1>2, QueuesOfProcess, AtMostOneOfAppend

-----------------------------------------------------------------------------
(* Every step leaves a fitting process *)

LEMMA Becoming ==
    ASSUME Inv, NEW p \in Processes, NEW s, Becomes(p, s)
    PROVE  /\ proc'[p] = s /\ \A q \in Processes \ {p} : proc'[q] = proc[q]
           /\ s \in ProcessStates => proc' \in [Processes -> ProcessStates]
  BY DEF Inv, Becomes

LEMMA StartsFits ==
    ASSUME Inv, NEW p \in Processes, Starts(p)
    PROVE  \E s : Becomes(p, s) /\ Fits(s)
  <1> DEFINE r == proc[p]
  <1>1. Fits(r) /\ r \in ProcessStates
    BY DEF Inv, Fits
  <1>2. r.run \in {"off", "permissions", "binding", "unbinding"} => r.init = "none"
    BY <1>1 DEF Fits, InitBelongsToRun
  <1>3. CASE Launch(p)
    <2>1. Becomes(p, [r EXCEPT !.run = "permissions"]) /\ r.init = "none"
      BY <1>2, <1>3 DEF Launch, Quiet
    <2> QED
      BY <1>1, <2>1, RunMoves
  <1>4. CASE Unprivileged(p)
    <2>1. Becomes(p, [r EXCEPT !.stage = "exited", !.code = 1]) /\ r.run # "off"
      BY <1>4 DEF Unprivileged, Quiet, Alive
    <2>2. Fits([r EXCEPT !.stage = "exited", !.code = 1])
      BY <1>1, <2>1, FailingExitFits
    <2> QED
      BY <2>1, <2>2
  <1>5. CASE BindIPv4(p)
    <2>1. /\ r.init = "none" /\ r.stage = "up"
          /\ \/ Becomes(p, [r EXCEPT !.run = "binding"])
             \/ Becomes(p, Stop([r EXCEPT !.run = "ended"], 1))
      BY <1>2, <1>5 DEF BindIPv4, Stopping
    <2>2. Fits([r EXCEPT !.run = "binding"]) /\ Fits([r EXCEPT !.run = "ended"])
      BY <1>1, <2>1, RunMoves
    <2>3. [r EXCEPT !.run = "ended"].run = "ended" /\ [r EXCEPT !.run = "ended"].stage = r.stage
      BY <1>1 DEF ProcessStates
    <2>4. Fits(Stop([r EXCEPT !.run = "ended"], 1))
      BY <2>1, <2>2, <2>3, StopFits
    <2> QED
      BY <2>1, <2>2, <2>4
  <1>6. CASE StoppedBeforeBinding(p)
    <2>1. Becomes(p, [r EXCEPT !.run = "ended"]) /\ r.init = "none"
      BY <1>2, <1>6 DEF StoppedBeforeBinding, Quiet
    <2> QED
      BY <1>1, <2>1, RunMoves
  <1>7. CASE BindIPv6(p)
    <2> DEFINE s == [r EXCEPT !.run = "init", !.init = "probe", !.fan = "no"]
    <2>1. /\ r.init = "none" /\ r.stage = "up"
          /\ Becomes(p, s) \/ Becomes(p, [r EXCEPT !.run = "unbinding"])
      BY <1>1, <1>2, <1>7 DEF BindIPv6, Alive, Fits, InitBelongsToRun
    <2>2. "init" \in Runs /\ "probe" \in Inits
      BY DEF Runs, Inits
    <2>3. s \in ProcessStates
      BY <1>1, <2>2, TypedUpdates
    <2>4. InitBelongsToRun(s) /\ NothingBeforeProbe(s)
      BY <1>1, <2>1 DEF Fits, ProcessStates, InitBelongsToRun, NothingBeforeProbe
    <2>5. QueueHoldsCallers(s)
      BY <1>1, <2>1 DEF Fits, ProcessStates, QueueHoldsCallers
    <2>6. CallsHaveCallers(s)
      BY <1>1, <2>1, ElementsOfEmpty DEF Fits, ProcessStates, CallsHaveCallers, Stopping, NothingBeforeProbe
    <2>7. FansAreWatched(s)
      BY <1>1, <2>1 DEF Fits, ProcessStates, FansAreWatched, Stopping
    <2>8. CleanSoFar(s)
      BY <1>1, <2>1 DEF Fits, ProcessStates, CleanSoFar
    <2>9. Fits(s)
      BY <2>3, <2>4, <2>5, <2>6, <2>7, <2>8 DEF Fits
    <2> QED
      BY <1>1, <2>1, <2>9, RunMoves
  <1>8. CASE Unbind(p)
    <2>1. /\ r.init = "none" /\ r.stage # "exited"
          /\ Becomes(p, Stop([r EXCEPT !.run = "ended"], 1))
      BY <1>2, <1>8 DEF Unbind, Alive
    <2>2. Fits([r EXCEPT !.run = "ended"])
      BY <1>1, <2>1, RunMoves
    <2>3. [r EXCEPT !.run = "ended"].run = "ended" /\ [r EXCEPT !.run = "ended"].stage = r.stage
      BY <1>1 DEF ProcessStates
    <2> QED
      BY <2>1, <2>2, <2>3, StopFits
  <1>9. CASE ProbeEnds(p)
    <2>1. r.init = "probe" /\ r.run = "init" /\ r.fanQueue = <<>>
      BY <1>1, <1>9 DEF ProbeEnds, Fits, InitBelongsToRun, NothingBeforeProbe
    <2>2. PICK fan \in {"yes", "no"} :
            \/ Becomes(p, [r EXCEPT !.fan = fan, !.init = "over"]) /\ Stopping(r)
            \/ Becomes(p, [r EXCEPT !.fan = fan, !.init = "fan", !.backend = TRUE,
                                    !.fanQueue = Append(@, "takeover")]) /\ ~Stopping(r)
            \/ Becomes(p, [r EXCEPT !.fan = fan, !.init = "tuning"])
      <3>1. PICK available \in BOOLEAN :
                LET q == [r EXCEPT !.fan = IF available THEN "yes" ELSE "no"] IN
                Becomes(p, IF Stopping(q) THEN [q EXCEPT !.init = "over"]
                           ELSE IF available
                           THEN [q EXCEPT !.init = "fan", !.backend = TRUE,
                                          !.fanQueue = Append(@, "takeover")]
                           ELSE [q EXCEPT !.init = "tuning"])
        BY <1>9 DEF ProbeEnds, Quiet
      <3> DEFINE q == [r EXCEPT !.fan = IF available THEN "yes" ELSE "no"]
      <3>2. Stopping(q) <=> Stopping(r)
        BY <1>1 DEF Stopping, ProcessStates
      <3>3. CASE available
        BY <3>1, <3>2, <3>3
      <3>4. CASE ~available
        BY <3>1, <3>2, <3>4
      <3> QED
        BY <3>3, <3>4
    <2>3. CASE Becomes(p, [r EXCEPT !.fan = fan, !.init = "over"])
      <3> DEFINE s == [r EXCEPT !.fan = fan, !.init = "over"]
      <3>1. s \in ProcessStates
        BY <1>1, TypedUpdates DEF Inits
      <3>2. InitBelongsToRun(s) /\ NothingBeforeProbe(s)
        BY <1>1, <2>1 DEF Fits, ProcessStates, InitBelongsToRun, NothingBeforeProbe
      <3>3. QueueHoldsCallers(s)
        BY <1>1, <2>1, ElementsOfEmpty DEF Fits, ProcessStates, QueueHoldsCallers
      <3>4. CallsHaveCallers(s)
        BY <1>1, <2>1, ElementsOfEmpty
           DEF Fits, ProcessStates, CallsHaveCallers, Stopping, NothingBeforeProbe
      <3>5. FansAreWatched(s)
        BY <1>1, <2>1 DEF Fits, ProcessStates, FansAreWatched, Stopping, NothingBeforeProbe
      <3>6. CleanSoFar(s)
        BY <1>1, <2>1 DEF Fits, ProcessStates, CleanSoFar
      <3> QED
        BY <2>3, <3>1, <3>2, <3>3, <3>4, <3>5, <3>6 DEF Fits
    <2>4. CASE /\ ~Stopping(r)
               /\ Becomes(p, [r EXCEPT !.fan = fan, !.init = "fan", !.backend = TRUE,
                                       !.fanQueue = Append(@, "takeover")])
      <3> DEFINE s == [r EXCEPT !.fan = fan, !.init = "fan", !.backend = TRUE,
                                !.fanQueue = Append(@, "takeover")]
      <3>1. Append(r.fanQueue, "takeover") = <<"takeover">> /\ <<"takeover">> \in Seq(FanOps)
        BY <2>1 DEF FanOps, TakeOvers
      <3>2. s \in ProcessStates
        BY <1>1, <3>1, TypedUpdates DEF Inits
      <3>3. /\ s.run = "init" /\ s.init = "fan" /\ s.fanQueue = <<"takeover">>
            /\ s.fanStarted = r.fanStarted /\ s.calls = <<>> /\ s.mutation = r.mutation
            /\ s.stage = "up" /\ s.controlling = r.controlling
            /\ Elements(s.fanQueue) = {"takeover"} /\ r.mutation = "none"
            /\ s.handoff = "none"
        <4>1. Elements(<<"takeover">>) = {"takeover"}
          BY DEF Elements
        <4>2. r.calls = <<>> /\ r.mutation = "none" /\ r.handoff = "none"
          BY <1>1, <2>1 DEF Fits, NothingBeforeProbe
        <4> QED
          BY <1>1, <2>1, <2>4, <3>1, <4>1, <4>2 DEF ProcessStates, Stopping
      <3> HIDE DEF s
      <3>4. InitBelongsToRun(s) /\ NothingBeforeProbe(s)
        BY <3>3 DEF InitBelongsToRun, NothingBeforeProbe
      <3>5. QueueHoldsCallers(s)
        BY <3>3 DEF QueueHoldsCallers
      <3>6. CallsHaveCallers(s)
        BY <3>3, ElementsOfEmpty DEF CallsHaveCallers, AtMostOne
      <3>7. FansAreWatched(s) /\ CleanSoFar(s)
        BY <1>1, <2>1, <3>3 DEF Fits, FansAreWatched, CleanSoFar
      <3>8. Fits(s)
        BY <3>2, <3>4, <3>5, <3>6, <3>7 DEF Fits
      <3> QED
        BY <2>4, <3>8 DEF s
    <2>5. CASE Becomes(p, [r EXCEPT !.fan = fan, !.init = "tuning"])
      <3> DEFINE s == [r EXCEPT !.fan = fan, !.init = "tuning"]
      <3>1. s \in ProcessStates
        BY <1>1, TypedUpdates DEF Inits
      <3>2. InitBelongsToRun(s) /\ NothingBeforeProbe(s)
        BY <1>1, <2>1 DEF Fits, ProcessStates, InitBelongsToRun, NothingBeforeProbe
      <3>3. QueueHoldsCallers(s)
        BY <1>1, <2>1, ElementsOfEmpty DEF Fits, ProcessStates, QueueHoldsCallers
      <3>4. CallsHaveCallers(s)
        BY <1>1, <2>1, ElementsOfEmpty
           DEF Fits, ProcessStates, CallsHaveCallers, Stopping, NothingBeforeProbe
      <3>5. FansAreWatched(s)
        BY <1>1, <2>1 DEF Fits, ProcessStates, FansAreWatched, Stopping, NothingBeforeProbe
      <3>6. CleanSoFar(s)
        BY <1>1, <2>1 DEF Fits, ProcessStates, CleanSoFar
      <3> QED
        BY <2>5, <3>1, <3>2, <3>3, <3>4, <3>5, <3>6 DEF Fits
    <2> QED
      BY <2>2, <2>3, <2>4, <2>5
  <1>10. CASE TuningEnds(p)
    <2>1. r.init = "tuning" /\ r.run = "init"
      BY <1>1, <1>10 DEF TuningEnds, Fits, InitBelongsToRun
    <2>2. CASE Becomes(p, [r EXCEPT !.init = "over"])
      <3> DEFINE s == [r EXCEPT !.init = "over"]
      <3>1. s \in ProcessStates
        BY <1>1, TypedUpdates DEF Inits
      <3>2. InitBelongsToRun(s) /\ NothingBeforeProbe(s)
        BY <1>1, <2>1 DEF Fits, ProcessStates, InitBelongsToRun, NothingBeforeProbe
      <3>3. QueueHoldsCallers(s)
        BY <1>1, <2>1 DEF Fits, ProcessStates, QueueHoldsCallers
      <3>4. CallsHaveCallers(s)
        BY <1>1, <2>1 DEF Fits, ProcessStates, CallsHaveCallers, Stopping
      <3>5. FansAreWatched(s)
        BY <1>1, <2>1 DEF Fits, ProcessStates, FansAreWatched, Stopping
      <3>6. CleanSoFar(s)
        BY <1>1, <2>1 DEF Fits, ProcessStates, CleanSoFar
      <3> QED
        BY <2>2, <3>1, <3>2, <3>3, <3>4, <3>5, <3>6 DEF Fits
    <2>3. CASE Becomes(p, [r EXCEPT !.init = "boost", !.calls = Append(@, "boost")])
      <3> DEFINE s == [r EXCEPT !.init = "boost", !.calls = Append(@, "boost")]
      <3>1. "boost" \notin Elements(r.calls)
        BY <1>1, <2>1 DEF Fits, CallsHaveCallers
      <3>2. /\ Append(r.calls, "boost") \in Seq(Calls)
            /\ Elements(Append(r.calls, "boost")) = Elements(r.calls) \cup {"boost"}
            /\ \A S \in {FanOps, {"boost"}, {"release"}} : AtMostOne(Append(r.calls, "boost"), S)
        BY <1>1, <3>1, CallAdded
      <3>3. s \in ProcessStates
        BY <1>1, <3>2, TypedUpdates DEF Inits
      <3>4. InitBelongsToRun(s) /\ NothingBeforeProbe(s)
        BY <1>1, <2>1 DEF Fits, ProcessStates, InitBelongsToRun, NothingBeforeProbe
      <3>5. QueueHoldsCallers(s)
        BY <1>1, <2>1 DEF Fits, ProcessStates, QueueHoldsCallers
      <3>6. CallsHaveCallers(s)
        BY <1>1, <2>1, <3>2 DEF Fits, ProcessStates, CallsHaveCallers, Stopping, FanOps, TakeOvers
      <3>7. FansAreWatched(s)
        BY <1>1, <2>1 DEF Fits, ProcessStates, FansAreWatched, Stopping
      <3>8. CleanSoFar(s)
        BY <1>1, <2>1 DEF Fits, ProcessStates, CleanSoFar
      <3> QED
        BY <2>3, <3>3, <3>4, <3>5, <3>6, <3>7, <3>8 DEF Fits
    <2> QED
      BY <1>10, <2>2, <2>3 DEF TuningEnds, Quiet
  <1>11. CASE BecomesReady(p)
    <2>1. PICK run \in {"ended", "ready"} : Becomes(p, [r EXCEPT !.run = run]) /\ r.init = "over"
      BY <1>11 DEF BecomesReady, Quiet
    <2> DEFINE s == [r EXCEPT !.run = run]
    <2>2. s \in ProcessStates
      BY <1>1, TypedUpdates DEF Runs
    <2>3. InitBelongsToRun(s) /\ NothingBeforeProbe(s)
      BY <1>1, <2>1 DEF Fits, ProcessStates, InitBelongsToRun, NothingBeforeProbe
    <2>4. QueueHoldsCallers(s)
      BY <1>1, <2>1 DEF Fits, ProcessStates, QueueHoldsCallers
    <2>5. CallsHaveCallers(s)
      BY <1>1, <2>1 DEF Fits, ProcessStates, CallsHaveCallers, Stopping
    <2>6. FansAreWatched(s) /\ CleanSoFar(s)
      BY <1>1, <2>1 DEF Fits, ProcessStates, FansAreWatched, CleanSoFar, Stopping
    <2> QED
      BY <2>1, <2>2, <2>3, <2>4, <2>5, <2>6 DEF Fits
  <1> QED
    BY <1>3, <1>4, <1>5, <1>6, <1>7, <1>8, <1>9, <1>10, <1>11 DEF Starts

\* A call settles: s is r without it, and its caller goes on.
LEMMA AfterCallFits ==
    ASSUME NEW r, Fits(r), r.calls # <<>>, r.stage # "exited", NEW ok \in BOOLEAN
    PROVE  Fits(AfterCall([r EXCEPT !.calls = Tail(@)], Head(r.calls), ok))
  <1> DEFINE call == Head(r.calls)
             q == [r EXCEPT !.calls = Tail(@)]
             t == AfterCall(q, call, ok)
  <1>1. /\ r \in ProcessStates /\ call \in Calls /\ Tail(r.calls) \in Seq(Calls)
        /\ Elements(r.calls) = {call} \cup Elements(Tail(r.calls))
        /\ r.calls \in Seq(Calls)
    BY QueuesOfProcess DEF Fits
  <1>2. \A S \in {FanOps, {"boost"}, {"release"}} :
            /\ AtMostOne(Tail(r.calls), S)
            /\ call \in S => Elements(Tail(r.calls)) \cap S = {}
    BY <1>1, AtMostOneOfTail DEF Fits, CallsHaveCallers
  <1>3. q \in ProcessStates
    BY <1>1, TypedUpdates
  <1>4. /\ q.run = r.run /\ q.init = r.init /\ q.fan = r.fan /\ q.stage = r.stage
        /\ q.code = r.code /\ q.handoff = r.handoff /\ q.owed = r.owed
        /\ q.controlling = r.controlling /\ q.restartRequired = r.restartRequired
        /\ q.fanQueue = r.fanQueue /\ q.fanStarted = r.fanStarted
        /\ q.calls = Tail(r.calls) /\ q.mutation = r.mutation
        /\ q.backend = r.backend /\ q.channel = r.channel
    BY <1>1 DEF ProcessStates
  <1>5. r.init \notin {"none", "probe"}
    BY DEF Fits, NothingBeforeProbe
  <1>6. ASSUME call # "handoff" PROVE ~(r.stage \in {"restore", "cleanup"} /\ r.code = 0)
    <2>1. Head(<<"handoff">>) = "handoff"
      OBVIOUS
    <2> QED
      BY <1>6, <2>1 DEF Fits, CleanSoFar
  <1>7. call \in FanOps \cup {"request", "boost", "release", "handoff"}
    BY <1>1 DEF Calls
  <1>8. /\ "request" \notin FanOps /\ "boost" \notin FanOps
        /\ "release" \notin FanOps /\ "handoff" \notin FanOps
    BY DEF FanOps, TakeOvers
  <1> HIDE DEF q, call
  <1>9. CASE call \in FanOps
    <2> DEFINE s == [q EXCEPT !.fanQueue = Tail(@), !.fanStarted = FALSE]
    <2>1. call = Head(r.fanQueue) /\ r.fanQueue # <<>> /\ "handoff" # call
      BY <1>1, <1>8, <1>9 DEF Fits, CallsHaveCallers, QueueHoldsCallers
    <2>2. t = AfterFanOp(s, Head(r.fanQueue), ok)
      BY <1>8, <1>9, <2>1, Zenon DEF AfterCall
    <2>3. Tail(r.fanQueue) \in Seq(FanOps)
      BY <2>1, QueuesOfProcess
    <2>4. s \in ProcessStates
      BY <1>3, <1>4, <2>3, TypedUpdates
    <2>5. /\ s.run = r.run /\ s.init = r.init /\ s.fan = r.fan /\ s.stage = r.stage
          /\ s.code = r.code /\ s.handoff = r.handoff /\ s.owed = r.owed
          /\ s.controlling = r.controlling /\ s.restartRequired = r.restartRequired
          /\ s.fanQueue = Tail(r.fanQueue) /\ ~s.fanStarted
          /\ s.calls = Tail(r.calls) /\ s.mutation = r.mutation
          /\ s.backend = r.backend /\ s.channel = r.channel
      BY <1>3, <1>4 DEF ProcessStates
    <2>6. Elements(s.calls) \subseteq Elements(r.calls) /\ Elements(s.calls) \cap FanOps = {}
      BY <1>1, <1>2, <1>9, <2>5
    <2>7. \A S \in {FanOps, {"boost"}, {"release"}} : AtMostOne(s.calls, S)
      BY <1>2, <2>5
    <2> HIDE DEF s, t
    <2>8. Fits(AfterFanOp(s, Head(r.fanQueue), ok))
      BY <2>1, <2>4, <2>5, <2>6, <2>7, AfterFanOpFits
    <2> QED
      BY <2>2, <2>8 DEF t, q, call
  <1>10. CASE call = "request"
    <2>1. t = [q EXCEPT !.mutation = "none"]
      BY <1>8, <1>10 DEF AfterCall
    <2> HIDE DEF t
    <2>2. t \in ProcessStates
      BY <1>3, <2>1, TypedUpdates
    <2>3. /\ t.run = r.run /\ t.init = r.init /\ t.fan = r.fan /\ t.stage = r.stage
          /\ t.code = r.code /\ t.handoff = r.handoff /\ t.owed = r.owed
          /\ t.controlling = r.controlling /\ t.restartRequired = r.restartRequired
          /\ t.fanQueue = r.fanQueue /\ t.fanStarted = r.fanStarted
          /\ t.calls = Tail(r.calls) /\ t.mutation = "none"
      BY <1>3, <1>4, <2>1 DEF ProcessStates
    <2>4. InitBelongsToRun(t) /\ NothingBeforeProbe(t) /\ CleanSoFar(t)
      BY <1>5, <1>6, <1>10, <2>3 DEF Fits, InitBelongsToRun, NothingBeforeProbe, CleanSoFar
    <2>5. QueueHoldsCallers(t) /\ FansAreWatched(t)
      BY <2>3 DEF Fits, QueueHoldsCallers, FansAreWatched, Stopping
    <2>6. CallsHaveCallers(t)
      BY <1>1, <1>2, <2>3 DEF Fits, CallsHaveCallers, Stopping
    <2> QED
      BY <2>2, <2>4, <2>5, <2>6 DEF Fits, t, q, call
  <1>11. CASE call = "boost"
    <2>1. t = [q EXCEPT !.init = "over"] /\ r.init = "boost"
      BY <1>1, <1>8, <1>11 DEF AfterCall, Fits, CallsHaveCallers
    <2>2. "boost" \notin Elements(Tail(r.calls))
      BY <1>2, <1>11
    <2> HIDE DEF t
    <2>3. t \in ProcessStates
      BY <1>3, <2>1, TypedUpdates DEF Inits
    <2>4. /\ t.run = r.run /\ t.init = "over" /\ t.fan = r.fan /\ t.stage = r.stage
          /\ t.code = r.code /\ t.handoff = r.handoff /\ t.owed = r.owed
          /\ t.controlling = r.controlling /\ t.restartRequired = r.restartRequired
          /\ t.fanQueue = r.fanQueue /\ t.fanStarted = r.fanStarted
          /\ t.calls = Tail(r.calls) /\ t.mutation = r.mutation
      BY <1>3, <1>4, <2>1 DEF ProcessStates
    <2>5. InitBelongsToRun(t) /\ NothingBeforeProbe(t) /\ CleanSoFar(t)
      BY <1>6, <1>11, <2>1, <2>4 DEF Fits, InitBelongsToRun, NothingBeforeProbe, CleanSoFar
    <2>6. QueueHoldsCallers(t) /\ FansAreWatched(t)
      BY <2>1, <2>4 DEF Fits, QueueHoldsCallers, FansAreWatched, Stopping
    <2>7. CallsHaveCallers(t)
      BY <1>1, <1>2, <2>1, <2>2, <2>4 DEF Fits, CallsHaveCallers, Stopping
    <2> QED
      BY <2>3, <2>5, <2>6, <2>7 DEF Fits, t, q, call
  <1>12. CASE call = "release"
    <2>1. /\ r.init = "release" /\ r.fanQueue = <<>> /\ r.run = "init"
          /\ "release" \notin Elements(Tail(r.calls))
      BY <1>1, <1>2, <1>12 DEF Fits, CallsHaveCallers, QueueHoldsCallers, InitBelongsToRun
    <2>2. Elements(Tail(r.calls)) \cap FanOps = {} /\ TakeOvers \subseteq FanOps
      BY <1>1, <2>1 DEF Fits, CallsHaveCallers, QueueHoldsCallers, FanOps
    <2>3. CASE ok
      <3>1. PICK init \in {"over", "tuning"} : t = [q EXCEPT !.owed = FALSE, !.init = init]
        BY <1>8, <1>12, <2>3 DEF AfterCall
      <3> HIDE DEF t
      <3>2. t \in ProcessStates
        BY <1>3, <3>1, TypedUpdates DEF Inits
      <3>3. /\ t.run = r.run /\ t.init = init /\ t.fan = r.fan /\ t.stage = r.stage
            /\ t.code = r.code /\ t.handoff = r.handoff /\ ~t.owed
            /\ t.controlling = r.controlling /\ t.restartRequired = r.restartRequired
            /\ t.fanQueue = r.fanQueue /\ t.fanStarted = r.fanStarted
            /\ t.calls = Tail(r.calls) /\ t.mutation = r.mutation
        BY <1>3, <1>4, <3>1 DEF ProcessStates
      <3>4. InitBelongsToRun(t) /\ NothingBeforeProbe(t) /\ CleanSoFar(t)
        BY <1>6, <1>12, <2>1, <3>3 DEF Fits, InitBelongsToRun, NothingBeforeProbe, CleanSoFar
      <3>5. QueueHoldsCallers(t) /\ FansAreWatched(t)
        BY <2>1, <3>3, ElementsOfEmpty DEF Fits, QueueHoldsCallers, FansAreWatched, Stopping
      <3>6. CallsHaveCallers(t)
        BY <1>1, <1>2, <2>1, <2>2, <3>3 DEF Fits, CallsHaveCallers, Stopping
      <3> QED
        BY <3>2, <3>4, <3>5, <3>6 DEF Fits, t, q, call
    <2>4. CASE ~ok
      <3> DEFINE u == [q EXCEPT !.init = "threw", !.run = "ended"]
      <3>1. t = Stop(u, 1)
        BY <1>8, <1>12, <2>4 DEF AfterCall, ReleaseFails
      <3>2. u \in ProcessStates
        BY <1>3, TypedUpdates DEF Inits, Runs
      <3>3. /\ u.run = "ended" /\ u.init = "threw" /\ u.fan = r.fan /\ u.stage = r.stage
            /\ u.code = r.code /\ u.handoff = r.handoff /\ u.owed = r.owed
            /\ u.controlling = r.controlling /\ u.restartRequired = r.restartRequired
            /\ u.fanQueue = r.fanQueue /\ u.fanStarted = r.fanStarted
            /\ u.calls = Tail(r.calls) /\ u.mutation = r.mutation
        BY <1>3, <1>4 DEF ProcessStates
      <3> HIDE DEF u, t
      <3>4. InitBelongsToRun(u) /\ NothingBeforeProbe(u) /\ CleanSoFar(u)
        BY <1>6, <1>12, <2>1, <3>3 DEF Fits, InitBelongsToRun, NothingBeforeProbe, CleanSoFar
      <3>5. QueueHoldsCallers(u) /\ FansAreWatched(u)
        BY <2>1, <3>3, ElementsOfEmpty DEF Fits, QueueHoldsCallers, FansAreWatched, Stopping
      <3>6. CallsHaveCallers(u)
        BY <1>1, <1>2, <2>1, <2>2, <3>3 DEF Fits, CallsHaveCallers, Stopping
      <3>7. Fits(u)
        BY <3>2, <3>4, <3>5, <3>6 DEF Fits
      <3>8. Fits(Stop(u, 1))
        BY <3>3, <3>7, StopFits
      <3> QED
        BY <3>1, <3>8 DEF t, q, call
    <2> QED
      BY <2>3, <2>4
  <1>13. CASE call = "handoff"
    <2>1. r.stage # "up" /\ r.fanQueue = <<>>
      BY <1>1, <1>13 DEF Fits, CallsHaveCallers, Stopping
    <2>2. Elements(Tail(r.calls)) \cap FanOps = {} /\ TakeOvers \subseteq FanOps
      BY <1>1, <2>1 DEF Fits, CallsHaveCallers, QueueHoldsCallers, FanOps
    <2>3. t = HandoffEnds(q, ok)
      BY <1>8, <1>13 DEF AfterCall
    <2> DEFINE h == IF ok THEN "ok" ELSE "failed"
               o == q.owed /\ ~ok
               c == IF ok \/ q.stage # "restore" THEN q.code ELSE 1
               g == IF q.stage = "restore" THEN "cleanup" ELSE q.stage
    <2>4. /\ h \in {"ok", "failed"} /\ o \in BOOLEAN /\ c \in Nat /\ g \in Stages
          /\ t = [q EXCEPT !.handoff = h, !.owed = o, !.code = c, !.stage = g]
          /\ (ok => ~o) /\ (r.owed /\ ~ok => o)
          /\ g = IF r.stage = "restore" THEN "cleanup" ELSE r.stage
          /\ c = IF ok \/ r.stage # "restore" THEN r.code ELSE 1
      <3>1. t = [q EXCEPT !.handoff = h, !.owed = o, !.code = c, !.stage = g]
        BY <2>3 DEF HandoffEnds
      <3>2. h \in {"ok", "failed"} /\ o \in BOOLEAN /\ c \in Nat /\ g \in Stages
        BY <1>3 DEF ProcessStates, Stages
      <3>3. /\ (ok => ~o) /\ (r.owed /\ ~ok => o)
        BY <1>4
      <3>4. g = IF r.stage = "restore" THEN "cleanup" ELSE r.stage
        BY <1>4
      <3>5. c = IF ok \/ r.stage # "restore" THEN r.code ELSE 1
        BY <1>4
      <3> HIDE DEF h, o, c, g
      <3> QED
        BY <3>1, <3>2, <3>3, <3>4, <3>5
    <2> HIDE DEF t, h, o, c, g
    <2>5. t \in ProcessStates
      <3>1. [q EXCEPT !.handoff = h, !.owed = o, !.code = c, !.stage = g] \in ProcessStates
        <4>1. h \in {"none", "waiting", "calling", "ok", "failed"}
          BY <2>4
        <4>2. [q EXCEPT !.handoff = h, !.owed = o] \in ProcessStates
          BY <1>3, <2>4, <4>1, TypedUpdates
        <4>3. [[q EXCEPT !.handoff = h, !.owed = o] EXCEPT !.code = c, !.stage = g] \in ProcessStates
          BY <2>4, <4>2, TypedUpdates
        <4> QED
          BY <4>3
      <3> QED
        BY <2>4, <3>1
    <2>6. /\ t.run = r.run /\ t.init = r.init /\ t.fan = r.fan /\ t.stage = g
          /\ t.code = c /\ t.handoff = h /\ t.owed = o
          /\ t.controlling = r.controlling /\ t.restartRequired = r.restartRequired
          /\ t.fanQueue = r.fanQueue /\ t.fanStarted = r.fanStarted
          /\ t.calls = Tail(r.calls) /\ t.mutation = r.mutation
      BY <1>3, <1>4, <2>4 DEF ProcessStates
    <2>7. g \notin {"up", "exited", "restore"}
      BY <1>1, <2>1, <2>4 DEF ProcessStates, Stages
    <2>8. InitBelongsToRun(t) /\ NothingBeforeProbe(t)
      BY <1>5, <2>1, <2>6, <2>7 DEF Fits, InitBelongsToRun, NothingBeforeProbe
    <2>9. CleanSoFar(t)
      <3> SUFFICES ASSUME g = "cleanup", c = 0
                   PROVE  /\ t.mutation = "none" /\ t.init \in {"none", "over", "threw"}
                          /\ t.fanQueue = <<>> /\ t.calls = <<>> /\ ~t.owed
        BY <2>6, <2>7 DEF CleanSoFar
      <3>1. r.stage \in {"restore", "cleanup"} /\ r.code = 0 /\ (r.stage = "restore" => ok)
        BY <2>4, <2>7
      <3>2. Tail(<<"handoff">>) = <<>>
        OBVIOUS
      <3>3. /\ r.mutation = "none" /\ r.init \in {"none", "over", "threw"}
            /\ r.calls = <<"handoff">> /\ r.stage = "restore"
        BY <3>1 DEF Fits, CleanSoFar
      <3> QED
        BY <2>1, <2>4, <2>6, <3>1, <3>2, <3>3
    <2>10. QueueHoldsCallers(t)
      BY <2>6 DEF Fits, QueueHoldsCallers
    <2>11. FansAreWatched(t)
      BY <2>4, <2>6, <2>7 DEF Fits, FansAreWatched, Stopping
    <2>12. CallsHaveCallers(t)
      BY <1>1, <1>2, <2>1, <2>2, <2>4, <2>6, <2>7 DEF Fits, CallsHaveCallers, Stopping
    <2> QED
      BY <2>5, <2>8, <2>9, <2>10, <2>11, <2>12 DEF Fits, t, q, call
  <1> QED
    BY <1>7, <1>9, <1>10, <1>11, <1>12, <1>13

LEMMA WorksFits ==
    ASSUME Inv, NEW p \in Processes, Works(p)
    PROVE  \E s : Becomes(p, s) /\ Fits(s)
  <1> DEFINE r == proc[p]
  <1>1. Fits(r) /\ r \in ProcessStates /\ r.stage # "exited" /\ r.run # "off"
    BY DEF Inv, Fits, Works, FanLoopWrites, Request, FanOpStarts, CallReturns, CallFails,
           ChannelFails, Alive
  <1>2. /\ r.fanQueue \in Seq(FanOps) /\ r.calls \in Seq(Calls)
        /\ r.controlling => r.stage = "up" /\ r.init \in {"tuning", "boost", "over"}
    BY <1>1 DEF Fits, ProcessStates, FansAreWatched
  <1>3. CASE FanLoopWrites(p)
    <2>1. PICK op \in {"reassert", "cycle"} :
            Becomes(p, [r EXCEPT !.fanQueue = Append(@, op)]) /\ r.controlling
      BY <1>3 DEF FanLoopWrites, Quiet
    <2> DEFINE s == [r EXCEPT !.fanQueue = Append(@, op)]
    <2>2. /\ Append(r.fanQueue, op) \in Seq(FanOps) /\ Append(r.fanQueue, op) # <<>>
          /\ Elements(Append(r.fanQueue, op)) = Elements(r.fanQueue) \cup {op}
          /\ r.fanQueue # <<>> => Head(Append(r.fanQueue, op)) = Head(r.fanQueue)
      BY <1>1, QueuesOfProcess DEF FanOps, TakeOvers
    <2>3. s \in ProcessStates
      BY <1>1, <2>2, TypedUpdates
    <2>4. InitBelongsToRun(s) /\ NothingBeforeProbe(s)
      BY <1>1, <1>2, <2>1 DEF Fits, ProcessStates, InitBelongsToRun, NothingBeforeProbe
    <2>5. QueueHoldsCallers(s)
      BY <1>1, <1>2, <2>1, <2>2 DEF Fits, ProcessStates, QueueHoldsCallers
    <2>6. CallsHaveCallers(s)
      BY <1>1, <1>2, <2>1, <2>2 DEF Fits, ProcessStates, CallsHaveCallers, QueueHoldsCallers, Stopping
    <2>7. FansAreWatched(s) /\ CleanSoFar(s)
      BY <1>1, <1>2, <2>1, <2>2 DEF Fits, ProcessStates, FansAreWatched, CleanSoFar, Stopping
    <2> QED
      BY <2>1, <2>3, <2>4, <2>5, <2>6, <2>7 DEF Fits
  <1>4. CASE Request(p)
    <2>1. r.init = "over" /\ r.stage = "up" /\ r.mutation = "none"
      BY <1>1, <1>4 DEF Request, Fits, InitBelongsToRun, Stopping
    <2>2. CASE Becomes(p, [r EXCEPT !.mutation = "fan", !.fanQueue = Append(@, "command")])
      <3> DEFINE s == [r EXCEPT !.mutation = "fan", !.fanQueue = Append(@, "command")]
      <3>1. /\ Append(r.fanQueue, "command") \in Seq(FanOps)
            /\ Append(r.fanQueue, "command") # <<>>
            /\ Elements(Append(r.fanQueue, "command")) = Elements(r.fanQueue) \cup {"command"}
            /\ r.fanQueue # <<>> => Head(Append(r.fanQueue, "command")) = Head(r.fanQueue)
        BY <1>1, QueuesOfProcess DEF FanOps, TakeOvers
      <3>2. s \in ProcessStates
        BY <1>1, <3>1, TypedUpdates
      <3>3. InitBelongsToRun(s) /\ NothingBeforeProbe(s)
        BY <1>1, <2>1 DEF Fits, ProcessStates, InitBelongsToRun, NothingBeforeProbe
      <3>4. QueueHoldsCallers(s)
        BY <1>1, <2>1, <3>1 DEF Fits, ProcessStates, QueueHoldsCallers
      <3>5. CallsHaveCallers(s)
        BY <1>1, <2>1, <3>1
           DEF Fits, ProcessStates, CallsHaveCallers, QueueHoldsCallers, Stopping
      <3>6. FansAreWatched(s) /\ CleanSoFar(s)
        BY <1>1, <2>1, <3>1 DEF Fits, ProcessStates, FansAreWatched, CleanSoFar, Stopping
      <3> QED
        BY <2>2, <3>2, <3>3, <3>4, <3>5, <3>6 DEF Fits
    <2>3. CASE Becomes(p, [r EXCEPT !.mutation = "native", !.calls = Append(@, "request")])
      <3> DEFINE s == [r EXCEPT !.mutation = "native", !.calls = Append(@, "request")]
      <3>1. /\ Append(r.calls, "request") \in Seq(Calls)
            /\ Elements(Append(r.calls, "request")) = Elements(r.calls) \cup {"request"}
            /\ \A S \in {FanOps, {"boost"}, {"release"}} : AtMostOne(Append(r.calls, "request"), S)
        BY <1>1, CallAdded
      <3>2. s \in ProcessStates
        BY <1>1, <3>1, TypedUpdates
      <3>3. InitBelongsToRun(s) /\ NothingBeforeProbe(s)
        BY <1>1, <2>1 DEF Fits, ProcessStates, InitBelongsToRun, NothingBeforeProbe
      <3>4. QueueHoldsCallers(s)
        BY <1>1, <2>1 DEF Fits, ProcessStates, QueueHoldsCallers
      <3>5. CallsHaveCallers(s)
        BY <1>1, <2>1, <3>1
           DEF Fits, ProcessStates, CallsHaveCallers, Stopping, FanOps, TakeOvers
      <3>6. FansAreWatched(s) /\ CleanSoFar(s)
        BY <1>1, <2>1 DEF Fits, ProcessStates, FansAreWatched, CleanSoFar, Stopping
      <3> QED
        BY <2>3, <3>2, <3>3, <3>4, <3>5, <3>6 DEF Fits
    <2> QED
      BY <1>4, <2>2, <2>3 DEF Request, Quiet
  <1>5. CASE FanOpStarts(p)
    <2> DEFINE op == Head(r.fanQueue)
    <2>1. r.fanQueue # <<>> /\ ~r.fanStarted /\ Elements(r.calls) \cap FanOps = {}
      BY <1>1, <1>5 DEF FanOpStarts, Fits, CallsHaveCallers
    <2>2. /\ op \in FanOps /\ op \in Elements(r.fanQueue) /\ Tail(r.fanQueue) \in Seq(FanOps)
      BY <1>1, <2>1, QueuesOfProcess
    <2>3. CASE Stopping(r)
      <3> DEFINE s == [r EXCEPT !.fanQueue = Tail(@)]
      <3>1. Becomes(p, AfterFanOp(s, op, FALSE))
        BY <1>5, <2>3 DEF FanOpStarts, Quiet
      <3>2. s \in ProcessStates
        BY <1>1, <2>2, TypedUpdates
      <3>3. /\ s.run = r.run /\ s.init = r.init /\ s.fan = r.fan /\ s.stage = r.stage
            /\ s.code = r.code /\ s.handoff = r.handoff /\ s.owed = r.owed
            /\ s.controlling = r.controlling /\ s.restartRequired = r.restartRequired
            /\ s.fanQueue = Tail(r.fanQueue) /\ ~s.fanStarted
            /\ s.calls = r.calls /\ s.mutation = r.mutation
            /\ s.backend = r.backend /\ s.channel = r.channel
        BY <1>1, <2>1 DEF ProcessStates
      <3>4. \A S \in {FanOps, {"boost"}, {"release"}} : AtMostOne(s.calls, S)
        BY <1>1, <3>3 DEF Fits, CallsHaveCallers
      <3> HIDE DEF s
      <3>5. FALSE \in BOOLEAN /\ Elements(s.calls) \subseteq Elements(r.calls)
            /\ Elements(s.calls) \cap FanOps = {}
        BY <2>1, <3>3
      <3>6. Fits(AfterFanOp(s, op, FALSE))
        BY <1>1, <2>1, <3>2, <3>3, <3>4, <3>5, AfterFanOpFits
      <3> QED
        BY <3>1, <3>6
    <2>4. CASE ~Stopping(r)
      <3> DEFINE owed == r.owed \/ op \in TakeOvers
                 s == [r EXCEPT !.fanStarted = TRUE, !.calls = Append(@, op), !.owed = owed]
      <3>1. Becomes(p, s) /\ r.stage = "up"
        BY <1>5, <2>4 DEF FanOpStarts, Quiet, Stopping
      <3>2. /\ op \in Calls /\ op \notin {"boost", "release", "request", "handoff"}
            /\ r.calls \in Seq(Calls) /\ Append(r.calls, op) \in Seq(Calls)
            /\ Elements(Append(r.calls, op)) = Elements(r.calls) \cup {op}
            /\ owed \in BOOLEAN
        BY <1>1, <1>2, <2>2, QueuesOfProcess DEF Calls, FanOps, TakeOvers
      <3>3. \A S \in {FanOps, {"boost"}, {"release"}} :
                AtMostOne(r.calls, S) /\ (op \notin S \/ Elements(r.calls) \cap S = {})
        BY <1>1, <2>1, <3>2 DEF Fits, CallsHaveCallers
      <3>4. \A S \in {FanOps, {"boost"}, {"release"}} : AtMostOne(Append(r.calls, op), S)
        BY <3>2, <3>3, AtMostOneOfAppend
      <3>5. s \in ProcessStates
        BY <1>1, <3>2, TypedUpdates
      <3>6. /\ s.run = r.run /\ s.init = r.init /\ s.fan = r.fan /\ s.stage = "up"
            /\ s.code = r.code /\ s.handoff = r.handoff /\ s.owed = owed
            /\ s.controlling = r.controlling /\ s.restartRequired = r.restartRequired
            /\ s.fanQueue = r.fanQueue /\ s.fanStarted
            /\ s.calls = Append(r.calls, op) /\ s.mutation = r.mutation
        BY <1>1, <3>1 DEF ProcessStates
      <3>7. op \in TakeOvers => (r.init = "fan" \/ op = "reassert")
        BY <1>1, <2>2 DEF Fits, QueueHoldsCallers, TakeOvers
      <3> HIDE DEF s
      <3>8. InitBelongsToRun(s) /\ NothingBeforeProbe(s)
        BY <1>1, <2>1, <3>6 DEF Fits, InitBelongsToRun, NothingBeforeProbe
      <3>9. QueueHoldsCallers(s)
        BY <1>1, <2>1, <3>6 DEF Fits, QueueHoldsCallers
      <3>10. CallsHaveCallers(s)
        <4>1. /\ Elements(r.calls) \cap TakeOvers = {}
              /\ Elements(s.calls) = Elements(r.calls) \cup {op}
          BY <2>1, <3>2, <3>6 DEF FanOps
        <4>2. \A c \in Elements(s.calls) \cap FanOps : s.fanStarted /\ c = Head(s.fanQueue)
          BY <2>1, <3>6, <4>1
        <4>3. Elements(s.calls) \cap TakeOvers # {} => s.owed
          BY <3>6, <4>1
        <4> QED
          BY <1>1, <2>1, <3>1, <3>2, <3>4, <3>6, <4>1, <4>2, <4>3
             DEF Fits, CallsHaveCallers, Stopping
      <3>11. FansAreWatched(s) /\ CleanSoFar(s)
        BY <1>1, <2>2, <3>1, <3>6, <3>7 DEF Fits, FansAreWatched, CleanSoFar, Stopping
      <3> QED
        BY <3>1, <3>5, <3>8, <3>9, <3>10, <3>11 DEF Fits
    <2> QED
      BY <2>3, <2>4
  <1>6. CASE CallReturns(p) \/ CallFails(p)
    <2>1. PICK ok \in BOOLEAN : /\ r.calls # <<>>
                                /\ Becomes(p, AfterCall([r EXCEPT !.calls = Tail(@)], Head(r.calls), ok))
      BY <1>6 DEF CallReturns, CallFails
    <2> QED
      BY <1>1, <2>1, AfterCallFits
  <1>7. CASE ChannelFails(p)
    <2> DEFINE s == [r EXCEPT !.channel = FALSE, !.fan = "no", !.controlling = FALSE,
                              !.restartRequired = TRUE]
    <2>1. Becomes(p, s) /\ r.init \notin {"none", "probe"}
      BY <1>7 DEF ChannelFails
    <2>2. s \in ProcessStates
      <3>1. FALSE \in BOOLEAN /\ TRUE \in BOOLEAN /\ "no" \in {"unknown", "yes", "no"}
        OBVIOUS
      <3>2. [r EXCEPT !.channel = FALSE, !.fan = "no"] \in ProcessStates
        BY <1>1, <3>1, TypedUpdates
      <3>3. [[r EXCEPT !.channel = FALSE, !.fan = "no"]
                EXCEPT !.controlling = FALSE, !.restartRequired = TRUE] \in ProcessStates
        BY <3>1, <3>2, TypedUpdates
      <3> QED
        BY <3>3
    <2>3. InitBelongsToRun(s) /\ NothingBeforeProbe(s)
      BY <1>1, <2>1 DEF Fits, ProcessStates, InitBelongsToRun, NothingBeforeProbe
    <2>4. QueueHoldsCallers(s)
      BY <1>1, <2>1 DEF Fits, ProcessStates, QueueHoldsCallers
    <2>5. CallsHaveCallers(s)
      BY <1>1, <2>1 DEF Fits, ProcessStates, CallsHaveCallers, Stopping
    <2>6. FansAreWatched(s) /\ CleanSoFar(s)
      BY <1>1, <2>1 DEF Fits, ProcessStates, FansAreWatched, CleanSoFar, Stopping
    <2> QED
      BY <2>1, <2>2, <2>3, <2>4, <2>5, <2>6 DEF Fits
  <1> QED
    BY <1>3, <1>4, <1>5, <1>6, <1>7 DEF Works

LEMMA StopsFits ==
    ASSUME Inv, NEW p \in Processes, Stops(p)
    PROVE  \E s : Becomes(p, s) /\ Fits(s)
  <1> DEFINE r == proc[p]
  <1>1. Fits(r) /\ r \in ProcessStates /\ r.stage # "exited" /\ r.run # "off"
    BY DEF Inv, Fits, Stops, Signal, UncaughtError, StopListener, Drained, DrainTimesOut,
           HandoffIssues, RestoreTimesOut, CleanupEnds, CleanupTimesOut, DeadlinePasses,
           Killed, Alive
  <1>2. 0 \in Nat /\ 1 \in Nat /\ 137 \in Nat /\ 1 # 0 /\ 137 # 0
    OBVIOUS
  <1>3. Fits([r EXCEPT !.code = 1]) /\ [r EXCEPT !.code = 1].code = 1
        /\ [r EXCEPT !.code = 1].stage = r.stage
    BY <1>1, FailingCodeFits DEF ProcessStates
  <1>4. CASE Signal(p) \/ UncaughtError(p)
    <2>1. PICK c \in {0, 1} : Becomes(p, Stop(r, c)) /\ r.run # "binding"
      BY <1>4 DEF Signal, UncaughtError, Quiet
    <2>2. c \in Nat
      BY <1>2
    <2> QED
      BY <1>1, <2>1, <2>2, StopFits
  <1>5. CASE \E f \in Families : StopListener(p, f)
    <2>1. Becomes(p, r)
      <3>1. proc' = proc /\ proc \in [Processes -> ProcessStates]
        BY <1>5 DEF StopListener, Inv
      <3>2. [proc EXCEPT ![p] = proc[p]] = proc
        BY <3>1
      <3> QED
        BY <3>1, <3>2 DEF Becomes
    <2> QED
      BY <1>1, <2>1
  <1>6. CASE Drained(p)
    <2>1. r.stage = "drain" /\ Idle(r)
      BY <1>6 DEF Drained
    <2>2. CASE r.init = "threw"
      <3>1. Becomes(p, EnterRestore([r EXCEPT !.code = 1]))
        BY <1>6, <2>2 DEF Drained, Quiet
      <3> QED
        BY <1>2, <1>3, <2>1, <3>1, EnterRestoreFits
    <2>3. CASE r.init # "threw"
      <3>1. Becomes(p, EnterRestore(r))
        BY <1>6, <2>3 DEF Drained, Quiet
      <3> QED
        BY <1>1, <2>1, <2>3, <3>1, EnterRestoreFits
    <2> QED
      BY <2>2, <2>3
  <1>7. CASE DrainTimesOut(p)
    <2>1. r.stage = "drain" /\ Becomes(p, EnterRestore([r EXCEPT !.code = 1]))
      BY <1>7 DEF DrainTimesOut
    <2> QED
      BY <1>2, <1>3, <2>1, EnterRestoreFits
  <1>8. CASE HandoffIssues(p)
    <2>1. r.handoff = "waiting" /\ r.fanQueue = <<>> /\ r.init \notin {"none", "probe"}
      BY <1>1, <1>8 DEF HandoffIssues, Fits, NothingBeforeProbe
    <2>2. CASE Closed(r) /\ Becomes(p, [r EXCEPT !.handoff = "failed"])
      <3> DEFINE s == [r EXCEPT !.handoff = "failed"]
      <3>1. s \in ProcessStates
        BY <1>1, TypedUpdates
      <3>2. InitBelongsToRun(s) /\ NothingBeforeProbe(s)
        BY <1>1, <2>1 DEF Fits, ProcessStates, InitBelongsToRun, NothingBeforeProbe
      <3>3. QueueHoldsCallers(s)
        BY <1>1, <2>1 DEF Fits, ProcessStates, QueueHoldsCallers
      <3>4. CallsHaveCallers(s)
        BY <1>1, <2>1 DEF Fits, ProcessStates, CallsHaveCallers, Stopping
      <3>5. FansAreWatched(s)
        BY <1>1, <2>1 DEF Fits, ProcessStates, FansAreWatched, Stopping
      <3>6. CleanSoFar(s)
        BY <1>1, <2>1, <2>2 DEF Fits, ProcessStates, CleanSoFar, Closed
      <3> QED
        BY <2>2, <3>1, <3>2, <3>3, <3>4, <3>5, <3>6 DEF Fits
    <2>3. CASE /\ ~Closed(r)
               /\ Becomes(p, [r EXCEPT !.handoff = "calling", !.calls = Append(@, "handoff")])
      <3> DEFINE s == [r EXCEPT !.handoff = "calling", !.calls = Append(@, "handoff")]
      <3>1. /\ Append(r.calls, "handoff") \in Seq(Calls)
            /\ Elements(Append(r.calls, "handoff")) = Elements(r.calls) \cup {"handoff"}
            /\ \A S \in {FanOps, {"boost"}, {"release"}} : AtMostOne(Append(r.calls, "handoff"), S)
        BY <1>1, CallAdded
      <3>2. s \in ProcessStates
        BY <1>1, <3>1, TypedUpdates
      <3>3. InitBelongsToRun(s) /\ NothingBeforeProbe(s)
        BY <1>1, <2>1 DEF Fits, ProcessStates, InitBelongsToRun, NothingBeforeProbe
      <3>4. QueueHoldsCallers(s)
        BY <1>1, <2>1 DEF Fits, ProcessStates, QueueHoldsCallers
      <3>5. r.stage = "restore"
        BY <1>1, <2>1, <2>3 DEF Fits, CallsHaveCallers, Closed
      <3>6. CallsHaveCallers(s)
        BY <1>1, <2>1, <3>1, <3>5
           DEF Fits, ProcessStates, CallsHaveCallers, Stopping, FanOps, TakeOvers
      <3>7. FansAreWatched(s)
        BY <1>1, <2>1 DEF Fits, ProcessStates, FansAreWatched, Stopping
      <3>8. CleanSoFar(s)
        <4>1. r.code = 0 => r.calls = <<>>
          BY <1>1, <2>1, <3>5 DEF Fits, CleanSoFar
        <4>2. Append(<<>>, "handoff") = <<"handoff">>
          OBVIOUS
        <4> QED
          BY <1>1, <2>1, <3>5, <4>1, <4>2 DEF Fits, ProcessStates, CleanSoFar
      <3> QED
        BY <2>3, <3>2, <3>3, <3>4, <3>6, <3>7, <3>8 DEF Fits
    <2> QED
      BY <1>8, <2>2, <2>3 DEF HandoffIssues, Quiet
  <1>9. CASE RestoreTimesOut(p)
    <2> DEFINE s == [r EXCEPT !.stage = "cleanup", !.code = 1]
    <2>1. Becomes(p, s) /\ r.stage = "restore"
      BY <1>9 DEF RestoreTimesOut
    <2>2. s \in ProcessStates
      BY <1>1, <1>2, TypedUpdates DEF Stages
    <2>3. InitBelongsToRun(s) /\ NothingBeforeProbe(s)
      BY <1>1, <2>1 DEF Fits, ProcessStates, InitBelongsToRun, NothingBeforeProbe
    <2>4. QueueHoldsCallers(s)
      BY <1>1, <2>1 DEF Fits, ProcessStates, QueueHoldsCallers
    <2>5. CallsHaveCallers(s)
      BY <1>1, <2>1 DEF Fits, ProcessStates, CallsHaveCallers, Stopping
    <2>6. FansAreWatched(s) /\ CleanSoFar(s)
      BY <1>1, <2>1 DEF Fits, ProcessStates, FansAreWatched, CleanSoFar, Stopping
    <2> QED
      BY <2>1, <2>2, <2>3, <2>4, <2>5, <2>6 DEF Fits
  <1>10. CASE CleanupEnds(p)
    <2>1. /\ r.stage = "cleanup" /\ r.code \in Nat
          /\ Becomes(p, [r EXCEPT !.stage = "exited", !.code = r.code])
      BY <1>1, <1>10 DEF CleanupEnds, Exit, ProcessStates
    <2>2. \A n \in Nat : (n = 0 => r.stage = "cleanup" /\ r.code = 0)
                          => Fits([r EXCEPT !.stage = "exited", !.code = n])
      BY <1>1, ExitFits
    <2>3. r.code = 0 => r.stage = "cleanup" /\ r.code = 0
      BY <2>1
    <2>4. Fits([r EXCEPT !.stage = "exited", !.code = r.code])
      BY <2>1, <2>2, <2>3
    <2> QED
      BY <2>1, <2>4
  <1>11. CASE CleanupTimesOut(p) \/ DeadlinePasses(p) \/ Killed(p)
    <2>1. \/ Becomes(p, [r EXCEPT !.stage = "exited", !.code = 1])
          \/ Becomes(p, [r EXCEPT !.stage = "exited", !.code = 137])
      BY <1>11 DEF CleanupTimesOut, DeadlinePasses, Killed, Exit
    <2>2. /\ Fits([r EXCEPT !.stage = "exited", !.code = 1])
          /\ Fits([r EXCEPT !.stage = "exited", !.code = 137])
      BY <1>1, FailingExitFits
    <2> QED
      BY <2>1, <2>2
  <1> QED
    BY <1>4, <1>5, <1>6, <1>7, <1>8, <1>9, <1>10, <1>11 DEF Stops

-----------------------------------------------------------------------------
(* Every step keeps the account between the processes *)

\* A call may leave manual mode behind only while its process owes the handoff.
LEMMA LandingIsOwed ==
    ASSUME Inv, NEW p \in Processes, CallMayLand(proc[p])
    PROVE  firmware' \in {"bios", "manual"}
           /\ (firmware' = "manual" => firmware = "manual" \/ proc[p].owed)
  <1> DEFINE r == proc[p]
  <1>1. Fits(r) /\ r.calls \in Seq(Calls)
    BY DEF Inv, Fits, ProcessStates
  <1>2. CASE firmware' = firmware
    BY <1>2 DEF Inv
  <1>3. CASE firmware' # firmware
    <2>1. 1 \in DOMAIN r.calls /\ firmware' = Effect(r.calls[1])
      BY <1>3 DEF CallMayLand
    <2>2. r.calls[1] \in Elements(r.calls)
      BY <2>1 DEF Elements
    <2>3. r.calls[1] \in TakeOvers => r.owed
      BY <1>1, <2>2 DEF Fits, CallsHaveCallers
    <2> QED
      BY <2>1, <2>3 DEF Effect, Inv
  <1> QED
    BY <1>2, <1>3

\* What AfterCall does to the debt: only a release or a handoff pays it.
LEMMA DebtAfterCall ==
    ASSUME NEW q \in ProcessStates, NEW call \in Calls, NEW ok \in BOOLEAN,
           q.owed, ~(ok /\ call \in {"release", "handoff"})
    PROVE  AfterCall(q, call, ok).owed
  <1>1. CASE call \in FanOps
    <2> DEFINE s == [q EXCEPT !.fanQueue = Tail(@), !.fanStarted = FALSE]
    <2>1. s.owed
      BY DEF ProcessStates
    <2>2. call \notin {"request", "boost", "release", "handoff"}
      BY <1>1 DEF FanOps, TakeOvers
    <2>3. AfterCall(q, call, ok) = AfterFanOp(s, call, ok)
      BY <1>1, <2>2, Zenon DEF AfterCall
    <2>4. DOMAIN s = DOMAIN q /\ "owed" \in DOMAIN q
      BY DEF ProcessStates
    <2> HIDE DEF s
    <2>5. AfterFanOp(s, call, ok).owed
      BY <1>1, <2>1, <2>4 DEF AfterFanOp, FanInitFails, FanOps, TakeOvers
    <2> QED
      BY <2>3, <2>5
  <1>2. CASE call \in {"request", "boost"}
    BY <1>2 DEF AfterCall, ProcessStates, FanOps, TakeOvers
  <1>3. CASE call = "release"
    BY <1>3 DEF AfterCall, ReleaseFails, Stop, ProcessStates, FanOps, TakeOvers
  <1>4. CASE call = "handoff"
    BY <1>4 DEF AfterCall, HandoffEnds, ProcessStates, FanOps, TakeOvers
  <1> QED
    BY <1>1, <1>2, <1>3, <1>4 DEF Calls

\* Nor does it revive a stopped process, or take one back to binding.
LEMMA StageAfterFanOp ==
    ASSUME NEW q \in ProcessStates, NEW op \in FanOps, NEW ok \in BOOLEAN
    PROVE  /\ AfterFanOp(q, op, ok).stage = q.stage
           /\ AfterFanOp(q, op, ok).run = q.run
           /\ AfterFanOp(q, op, ok).owed = q.owed
  BY DEF AfterFanOp, FanInitFails, ProcessStates, FanOps, TakeOvers

LEMMA StageAfterCall ==
    ASSUME NEW q \in ProcessStates, NEW call \in Calls, NEW ok \in BOOLEAN
    PROVE  LET t == AfterCall(q, call, ok) IN
           (t.stage = "up" => q.stage = "up") /\ (t.run = "binding" => q.run = "binding")
  <1> DEFINE t == AfterCall(q, call, ok)
  <1>1. CASE call \in FanOps
    <2> DEFINE s == [q EXCEPT !.fanQueue = Tail(@), !.fanStarted = FALSE]
    <2>1. s.stage = q.stage /\ s.run = q.run
      BY DEF ProcessStates
    <2>2. call \notin {"request", "boost", "release", "handoff"}
      BY <1>1 DEF FanOps, TakeOvers
    <2>3. t = AfterFanOp(s, call, ok)
      BY <1>1, <2>2, Zenon DEF AfterCall
    <2>4. DOMAIN s = DOMAIN q /\ {"stage", "run"} \subseteq DOMAIN q
      BY DEF ProcessStates
    <2> HIDE DEF s, t
    <2>5. t.stage = s.stage /\ t.run = s.run
      BY <1>1, <2>3, <2>4 DEF AfterFanOp, FanInitFails, FanOps, TakeOvers
    <2> QED
      BY <2>1, <2>5 DEF t
  <1>2. CASE call \in {"request", "boost"}
    BY <1>2 DEF AfterCall, ProcessStates, FanOps, TakeOvers
  <1>3. CASE call = "release"
    BY <1>3 DEF AfterCall, ReleaseFails, Stop, ProcessStates, FanOps, TakeOvers
  <1>4. CASE call = "handoff"
    BY <1>4 DEF AfterCall, HandoffEnds, ProcessStates, FanOps, TakeOvers
  <1> QED
    BY <1>1, <1>2, <1>3, <1>4 DEF Calls

Step(p) == Starts(p) \/ Works(p) \/ Stops(p)

\* What the globals depend on, of the process that moves.
Kept(p) ==
    /\ proc'[p].stage = "up" => proc[p].stage = "up"
    /\ proc'[p].run = "binding" => proc[p].run = "binding" \/ BindIPv4(p)
    /\ proc[p].init = "none" => \/ proc'[p].init = "none"
                                \/ proc'[p].init = "probe" /\ proc[p].run = "binding"
    /\ proc[p].owed /\ firmware' = "manual" => proc'[p].owed

LEMMA StartsKeeps ==
    ASSUME Inv, NEW p \in Processes, Starts(p)
    PROVE  Kept(p) /\ firmware' = firmware
  <1> DEFINE r == proc[p]
  <1>1. Fits(r) /\ r \in ProcessStates /\ proc \in [Processes -> ProcessStates]
    BY DEF Inv, Fits
  <1>2. CASE Launch(p) \/ Unprivileged(p) \/ StoppedBeforeBinding(p) \/ BecomesReady(p)
    <2>1. /\ \/ proc'[p] = [r EXCEPT !.run = "permissions"]
             \/ proc'[p] = [r EXCEPT !.stage = "exited", !.code = 1]
             \/ proc'[p] = [r EXCEPT !.run = "ended"]
             \/ proc'[p] = [r EXCEPT !.run = "ready"]
          /\ firmware' = firmware
      BY <1>1, <1>2 DEF Launch, Unprivileged, StoppedBeforeBinding, BecomesReady, Quiet, Becomes
    <2> QED
      BY <1>1, <2>1 DEF Kept, ProcessStates
  <1>3. CASE BindIPv4(p)
    <2>1. /\ \/ proc'[p] = [r EXCEPT !.run = "binding"]
             \/ proc'[p] = Stop([r EXCEPT !.run = "ended"], 1)
          /\ firmware' = firmware
      BY <1>1, <1>3 DEF BindIPv4, Becomes
    <2> QED
      BY <1>1, <1>3, <2>1 DEF Kept, ProcessStates, Stop
  <1>4. CASE BindIPv6(p)
    <2>1. /\ \/ proc'[p] = [r EXCEPT !.run = "init", !.init = "probe", !.fan = "no"]
             \/ proc'[p] = [r EXCEPT !.run = "unbinding"]
          /\ firmware' = firmware /\ r.run = "binding"
      BY <1>1, <1>4 DEF BindIPv6, Becomes
    <2>2. /\ proc'[p].stage = r.stage /\ proc'[p].owed = r.owed
          /\ proc'[p].run \in {"init", "unbinding"} /\ proc'[p].init \in {"probe", r.init}
      BY <1>1, <2>1 DEF ProcessStates
    <2> QED
      BY <2>1, <2>2 DEF Kept
  <1>5. CASE Unbind(p)
    <2>1. /\ proc'[p] = Stop([r EXCEPT !.run = "ended"], 1)
          /\ firmware' = firmware
      BY <1>1, <1>5 DEF Unbind, Becomes
    <2> QED
      BY <1>1, <2>1 DEF Kept, ProcessStates, Stop
  <1>6. CASE ProbeEnds(p)
    <2>1. r.init = "probe" /\ firmware' = firmware /\ ~r.owed /\ r.run = "init"
      BY <1>1, <1>6 DEF ProbeEnds, Quiet, Fits, NothingBeforeProbe, InitBelongsToRun
    <2>2. PICK available \in BOOLEAN :
            LET q == [r EXCEPT !.fan = IF available THEN "yes" ELSE "no"] IN
            proc'[p] = (IF Stopping(q) THEN [q EXCEPT !.init = "over"]
                       ELSE IF available
                       THEN [q EXCEPT !.init = "fan", !.backend = TRUE,
                                      !.fanQueue = Append(@, "takeover")]
                       ELSE [q EXCEPT !.init = "tuning"])
      BY <1>1, <1>6 DEF ProbeEnds, Quiet, Becomes
    <2>3. proc'[p].stage = r.stage /\ proc'[p].run = r.run
      BY <1>1, <2>2 DEF ProcessStates
    <2> QED
      BY <2>1, <2>3 DEF Kept
  <1>7. CASE TuningEnds(p)
    <2>1. /\ \/ proc'[p] = [r EXCEPT !.init = "over"]
             \/ proc'[p] = [r EXCEPT !.init = "boost", !.calls = Append(@, "boost")]
          /\ firmware' = firmware /\ r.init = "tuning"
      BY <1>1, <1>7 DEF TuningEnds, Quiet, Becomes
    <2>2. proc'[p].stage = r.stage /\ proc'[p].owed = r.owed /\ proc'[p].run = r.run
      BY <1>1, <2>1 DEF ProcessStates
    <2> QED
      BY <2>1, <2>2 DEF Kept
  <1> QED
    BY <1>2, <1>3, <1>4, <1>5, <1>6, <1>7 DEF Starts

LEMMA WorksKeeps ==
    ASSUME Inv, NEW p \in Processes, Works(p)
    PROVE  /\ Kept(p) /\ firmware' \in {"bios", "manual"}
           /\ firmware' = "manual" => firmware = "manual" \/ proc[p].owed \/ proc'[p].owed
  <1> DEFINE r == proc[p]
  <1>1. /\ Fits(r) /\ r \in ProcessStates /\ firmware \in {"bios", "manual"}
        /\ proc \in [Processes -> ProcessStates]
    BY DEF Inv, Fits
  <1>2. CASE FanLoopWrites(p)
    <2>1. PICK op \in {"reassert", "cycle"} :
            proc'[p] = [r EXCEPT !.fanQueue = Append(@, op)] /\ firmware' = firmware
      BY <1>1, <1>2 DEF FanLoopWrites, Quiet, Becomes
    <2> QED
      BY <1>1, <2>1 DEF Kept, ProcessStates
  <1>3. CASE Request(p)
    <2>1. /\ \/ proc'[p] = [r EXCEPT !.mutation = "fan", !.fanQueue = Append(@, "command")]
             \/ proc'[p] = [r EXCEPT !.mutation = "native", !.calls = Append(@, "request")]
          /\ firmware' = firmware
      BY <1>1, <1>3 DEF Request, Quiet, Becomes
    <2>2. /\ proc'[p].stage = r.stage /\ proc'[p].owed = r.owed
          /\ proc'[p].run = r.run /\ proc'[p].init = r.init
      BY <1>1, <2>1 DEF ProcessStates
    <2> QED
      BY <1>1, <2>1, <2>2 DEF Kept
  <1>4. CASE FanOpStarts(p)
    <2>1. r.init # "none" /\ r.fanQueue # <<>> /\ firmware' = firmware
      BY <1>1, <1>4 DEF FanOpStarts, Quiet, Fits, NothingBeforeProbe
    <2>2. Head(r.fanQueue) \in FanOps /\ Tail(r.fanQueue) \in Seq(FanOps)
      BY <1>1, <2>1, QueuesOfProcess
    <2>3. CASE Stopping(r)
      <3> DEFINE s == [r EXCEPT !.fanQueue = Tail(@)]
      <3>1. proc'[p] = AfterFanOp(s, Head(r.fanQueue), FALSE)
        BY <1>1, <1>4, <2>3 DEF FanOpStarts, Quiet, Becomes
      <3>2. s \in ProcessStates
        BY <1>1, <2>2, TypedUpdates
      <3>3. s.stage = r.stage /\ s.run = r.run /\ s.owed = r.owed
        BY <1>1 DEF ProcessStates
      <3>4. proc'[p] = AfterFanOp(s, Head(r.fanQueue), FALSE) /\ FALSE \in BOOLEAN
        BY <3>1
      <3> HIDE DEF s
      <3>5. proc'[p].stage = s.stage /\ proc'[p].run = s.run /\ proc'[p].owed = s.owed
        BY <2>2, <3>2, <3>4, StageAfterFanOp
      <3> QED
        BY <1>1, <2>1, <3>3, <3>5 DEF Kept
    <2>4. CASE ~Stopping(r)
      <3>1. proc'[p] = [r EXCEPT !.fanStarted = TRUE, !.calls = Append(@, Head(r.fanQueue)),
                                 !.owed = @ \/ Head(r.fanQueue) \in TakeOvers]
        BY <1>1, <1>4, <2>4 DEF FanOpStarts, Quiet, Becomes
      <3>2. proc'[p].stage = r.stage /\ proc'[p].run = r.run /\ (r.owed => proc'[p].owed)
        BY <1>1, <3>1 DEF ProcessStates
      <3> QED
        BY <1>1, <2>1, <3>2 DEF Kept
    <2> QED
      BY <2>3, <2>4
  <1>5. CASE CallReturns(p) \/ CallFails(p)
    <2> DEFINE call == Head(r.calls)
               q == [r EXCEPT !.calls = Tail(@)]
    <2>1. r.calls # <<>> /\ r.init # "none"
      BY <1>1, <1>5 DEF CallReturns, CallFails, Fits, NothingBeforeProbe
    <2>2. /\ call \in Calls /\ Tail(r.calls) \in Seq(Calls)
          /\ Elements(r.calls) = {call} \cup Elements(Tail(r.calls))
      BY <1>1, <2>1, QueuesOfProcess
    <2>3. q \in ProcessStates
      BY <1>1, <2>2, TypedUpdates
    <2>4. q.stage = r.stage /\ q.run = r.run /\ q.owed = r.owed
      BY <1>1 DEF ProcessStates
    <2>5. PICK ok \in BOOLEAN : /\ proc'[p] = AfterCall(q, call, ok)
                                /\ ok => firmware' = Effect(call)
                                /\ ~ok => CallMayLand(r) \/ firmware' = firmware
      <3>1. CASE CallReturns(p)
        BY <1>1, <3>1 DEF CallReturns, Becomes
      <3>2. CASE CallFails(p)
        BY <1>1, <3>2 DEF CallFails, Becomes
      <3> QED
        BY <1>5, <3>1, <3>2
    <2>6. proc'[p] = AfterCall(q, call, ok)
      BY <2>5
    <2> HIDE DEF q
    <2>7. /\ proc'[p].stage = "up" => r.stage = "up"
          /\ proc'[p].run = "binding" => r.run = "binding"
      BY <2>2, <2>3, <2>4, <2>6, StageAfterCall
    <2>8. /\ firmware' \in {"bios", "manual"}
          /\ firmware' = "manual" => firmware = "manual" \/ r.owed
      <3>1. CASE ok
        <4>1. call \in TakeOvers => r.owed
          BY <1>1, <2>2 DEF Fits, CallsHaveCallers
        <4> QED
          BY <1>1, <2>5, <3>1, <4>1 DEF Effect
      <3>2. CASE ~ok
        BY <1>1, <2>5, <3>2, LandingIsOwed
      <3> QED
        BY <3>1, <3>2
    <2>9. r.owed /\ firmware' = "manual" => proc'[p].owed
      <3>1. ok /\ call \in {"release", "handoff"} => firmware' # "manual"
        BY <2>5 DEF Effect, TakeOvers
      <3> QED
        BY <2>2, <2>3, <2>4, <2>6, <3>1, DebtAfterCall
    <2> QED
      BY <2>1, <2>7, <2>8, <2>9 DEF Kept
  <1>6. CASE ChannelFails(p)
    <2>1. /\ proc'[p] = [r EXCEPT !.channel = FALSE, !.fan = "no", !.controlling = FALSE,
                                  !.restartRequired = TRUE]
          /\ r.init # "none" /\ CallMayLand(r)
      BY <1>1, <1>6 DEF ChannelFails, Becomes
    <2>2. proc'[p].stage = r.stage /\ proc'[p].run = r.run /\ proc'[p].owed = r.owed
      BY <1>1, <2>1 DEF ProcessStates
    <2> QED
      BY <2>1, <2>2, LandingIsOwed DEF Kept
  <1> QED
    BY <1>2, <1>3, <1>4, <1>5, <1>6 DEF Works

LEMMA StopsKeeps ==
    ASSUME Inv, NEW p \in Processes, Stops(p)
    PROVE  /\ Kept(p) /\ firmware' \in {"bios", "manual"}
           /\ firmware' = "manual" => firmware = "manual" \/ proc[p].owed
  <1> DEFINE r == proc[p]
  <1>1. /\ Fits(r) /\ r \in ProcessStates /\ firmware \in {"bios", "manual"}
        /\ proc \in [Processes -> ProcessStates]
    BY DEF Inv, Fits
  <1>2. CASE Signal(p) \/ UncaughtError(p)
    <2>1. PICK c \in {0, 1} : proc'[p] = Stop(r, c) /\ firmware' = firmware
      BY <1>1, <1>2 DEF Signal, UncaughtError, Quiet, Becomes
    <2> QED
      BY <1>1, <2>1 DEF Kept, ProcessStates, Stop
  <1>3. CASE \E f \in Families : StopListener(p, f)
    BY <1>1, <1>3 DEF StopListener, Kept
  <1>4. CASE Drained(p) \/ DrainTimesOut(p)
    <2>1. PICK c \in Nat : /\ proc'[p] = EnterRestore([r EXCEPT !.code = c])
                           /\ firmware' = firmware
      <3>1. r.code \in Nat /\ 1 \in Nat /\ [r EXCEPT !.code = r.code] = r
        BY <1>1 DEF ProcessStates
      <3>2. /\ \/ proc'[p] = EnterRestore([r EXCEPT !.code = 1])
               \/ proc'[p] = EnterRestore(r)
            /\ firmware' = firmware
        BY <1>1, <1>4 DEF Drained, DrainTimesOut, Quiet, Becomes
      <3> QED
        BY <3>1, <3>2
    <2>2. proc'[p].stage # "up" /\ proc'[p].run = r.run /\ proc'[p].init = r.init
          /\ proc'[p].owed = r.owed
      BY <1>1, <2>1 DEF ProcessStates, EnterRestore
    <2> QED
      BY <1>1, <2>1, <2>2 DEF Kept
  <1>5. CASE HandoffIssues(p)
    <2>1. /\ \/ proc'[p] = [r EXCEPT !.handoff = "failed"]
             \/ proc'[p] = [r EXCEPT !.handoff = "calling", !.calls = Append(@, "handoff")]
          /\ firmware' = firmware
      BY <1>1, <1>5 DEF HandoffIssues, Quiet, Becomes
    <2> QED
      BY <1>1, <2>1 DEF Kept, ProcessStates
  <1>6. CASE RestoreTimesOut(p)
    <2>1. /\ proc'[p] = [r EXCEPT !.stage = "cleanup", !.code = 1]
          /\ firmware' = firmware
      BY <1>1, <1>6 DEF RestoreTimesOut, Becomes
    <2> QED
      BY <1>1, <2>1 DEF Kept, ProcessStates
  <1>7. CASE CleanupEnds(p) \/ CleanupTimesOut(p) \/ DeadlinePasses(p) \/ Killed(p)
    <2>1. PICK c : /\ proc'[p] = [r EXCEPT !.stage = "exited", !.code = c]
                   /\ CallMayLand(r)
      BY <1>1, <1>7 DEF CleanupEnds, CleanupTimesOut, DeadlinePasses, Killed, Exit, Becomes
    <2>2. proc'[p].stage # "up" /\ proc'[p].run = r.run /\ proc'[p].init = r.init
          /\ proc'[p].owed = r.owed
      BY <1>1, <2>1 DEF ProcessStates
    <2> QED
      BY <2>1, <2>2, LandingIsOwed DEF Kept
  <1> QED
    BY <1>2, <1>3, <1>4, <1>5, <1>6, <1>7 DEF Stops

\* The listeners: whoever holds the first port keeps it while others act.
LEMMA PortsKept ==
    ASSUME Inv, NEW p \in Processes, Step(p)
    PROVE  /\ port' \in [Families -> Processes \cup {None}]
           /\ \A q \in Processes \ {p} : port["ipv4"] = q => port'["ipv4"] = q
           /\ BindIPv4(p) /\ proc'[p].run = "binding" => port'["ipv4"] = p
           /\ port["ipv4"] = p /\ proc'[p].stage = "up" => port'["ipv4"] = p
  <1>1. /\ port \in [Families -> Processes \cup {None}] /\ "ipv4" \in Families
        /\ None \notin Processes /\ proc \in [Processes -> ProcessStates]
        /\ proc[p] \in ProcessStates
    BY FamiliesAssumption, NoneAssumption DEF Inv
  <1>2. CASE UNCHANGED port /\ ~BindIPv4(p)
    BY <1>1, <1>2
  <1>3. CASE BindIPv4(p)
    <2>1. \/ /\ Free("ipv4") /\ port' = [port EXCEPT !["ipv4"] = p]
          \/ /\ UNCHANGED port
             /\ proc'[p] = Stop([proc[p] EXCEPT !.run = "ended"], 1)
      BY <1>1, <1>3 DEF BindIPv4, Becomes
    <2>2. CASE Free("ipv4") /\ port' = [port EXCEPT !["ipv4"] = p]
      BY <1>1, <2>2 DEF Free
    <2>3. CASE UNCHANGED port /\ proc'[p] = Stop([proc[p] EXCEPT !.run = "ended"], 1)
      <3>1. proc'[p].run = "ended"
        BY <1>1, <2>3 DEF Stop, ProcessStates
      <3> QED
        BY <1>1, <2>3, <3>1
    <2> QED
      BY <2>1, <2>2, <2>3
  <1>4. CASE BindIPv6(p) /\ ~UNCHANGED port
    <2>1. port' = [port EXCEPT !["ipv6"] = p] /\ "ipv6" \in Families /\ ~BindIPv4(p)
      BY <1>4 DEF BindIPv6, BindIPv4
    <2> QED
      BY <1>1, <2>1
  <1>5. CASE Unbind(p)
    <2>1. /\ port' = Release(p) /\ ~BindIPv4(p)
          /\ proc'[p] = Stop([proc[p] EXCEPT !.run = "ended"], 1)
      BY <1>1, <1>5 DEF Unbind, BindIPv4, Becomes
    <2>2. proc'[p].stage # "up"
      BY <1>1, <2>1 DEF Stop, ProcessStates
    <2> QED
      BY <1>1, <2>1, <2>2 DEF Release
  <1>6. CASE \E f \in Families : StopListener(p, f)
    <2>1. PICK f \in Families : StopListener(p, f)
      BY <1>6
    <2>2. /\ port' = [port EXCEPT ![f] = None] /\ port[f] = p /\ ~BindIPv4(p)
          /\ proc'[p].stage # "up"
      BY <2>1 DEF StopListener, BindIPv4, Stopping
    <2> QED
      BY <1>1, <2>2
  <1>7. CASE /\ CleanupEnds(p) \/ CleanupTimesOut(p) \/ DeadlinePasses(p) \/ Killed(p)
             /\ ~BindIPv4(p)
    <2>1. PICK c : port' = Release(p) /\ proc'[p] = [proc[p] EXCEPT !.stage = "exited", !.code = c]
      BY <1>1, <1>7 DEF CleanupEnds, CleanupTimesOut, DeadlinePasses, Killed, Exit, Becomes
    <2>2. proc'[p].stage # "up"
      BY <1>1, <2>1 DEF ProcessStates
    <2> QED
      BY <1>1, <1>7, <2>1, <2>2 DEF Release
  <1>8. \/ UNCHANGED port \/ BindIPv4(p) \/ BindIPv6(p) \/ Unbind(p)
        \/ (\E f \in Families : StopListener(p, f))
        \/ CleanupEnds(p) \/ CleanupTimesOut(p) \/ DeadlinePasses(p) \/ Killed(p)
    BY DEF Step, Starts, Works, Stops, Launch, Unprivileged, StoppedBeforeBinding, ProbeEnds,
           TuningEnds, BecomesReady, FanLoopWrites, Request, FanOpStarts, CallReturns,
           CallFails, ChannelFails, Signal, UncaughtError, Drained, DrainTimesOut,
           HandoffIssues, RestoreTimesOut, Quiet
  <1> QED
    BY <1>2, <1>3, <1>4, <1>5, <1>6, <1>7, <1>8

LEMMA StepKeeps ==
    ASSUME Inv, NEW p \in Processes, Step(p)
    PROVE  /\ Kept(p) /\ proc[p].stage # "exited" /\ firmware' \in {"bios", "manual"}
           /\ firmware' = "manual" => firmware = "manual" \/ proc[p].owed \/ proc'[p].owed
           /\ \A q \in Processes \ {p} : proc'[q] = proc[q]
           /\ proc' \in [Processes -> ProcessStates] /\ Fits(proc'[p])
  <1>1. PICK s : Becomes(p, s) /\ Fits(s)
    BY StartsFits, WorksFits, StopsFits DEF Step
  <1>2. /\ proc'[p] = s /\ s \in ProcessStates
        /\ \A q \in Processes \ {p} : proc'[q] = proc[q]
        /\ proc' \in [Processes -> ProcessStates]
    <2>1. s \in ProcessStates
      BY <1>1 DEF Fits
    <2> QED
      BY <1>1, <2>1, Becoming
  <1>3. proc[p].stage # "exited"
    <2>1. Fits(proc[p])
      BY DEF Inv
    <2>2. Alive(p) \/ proc[p].run = "off"
      BY DEF Step, Starts, Works, Stops, Launch, Unprivileged, BindIPv4, StoppedBeforeBinding,
             BindIPv6, Unbind, ProbeEnds, TuningEnds, BecomesReady, FanLoopWrites, Request,
             FanOpStarts, CallReturns, CallFails, ChannelFails, Signal, UncaughtError,
             StopListener, Drained, DrainTimesOut, HandoffIssues, RestoreTimesOut,
             CleanupEnds, CleanupTimesOut, DeadlinePasses, Killed
    <2> QED
      BY <2>1, <2>2 DEF Alive, Fits, InitBelongsToRun
  <1>4. /\ Kept(p) /\ firmware' \in {"bios", "manual"}
        /\ firmware' = "manual" => firmware = "manual" \/ proc[p].owed \/ proc'[p].owed
    <2>1. CASE Starts(p)
      BY <2>1, StartsKeeps DEF Inv
    <2>2. CASE Works(p)
      BY <2>2, WorksKeeps
    <2>3. CASE Stops(p)
      BY <2>3, StopsKeeps
    <2> QED
      BY <2>1, <2>2, <2>3 DEF Step
  <1> QED
    BY <1>1, <1>2, <1>3, <1>4

LEMMA InvKept ==
    ASSUME Inv, NEW p \in Processes, Step(p)
    PROVE  Inv'
  <1>1. /\ Kept(p) /\ proc[p].stage # "exited" /\ firmware' \in {"bios", "manual"}
        /\ firmware' = "manual" => firmware = "manual" \/ proc[p].owed \/ proc'[p].owed
        /\ \A q \in Processes \ {p} : proc'[q] = proc[q]
        /\ proc' \in [Processes -> ProcessStates] /\ Fits(proc'[p])
    BY StepKeeps
  <1>2. \A q \in Processes : Fits(proc'[q])
    BY <1>1 DEF Inv
  <1>3. ManualHasDebtor'
    <2> SUFFICES ASSUME firmware' = "manual"
                 PROVE  \E q \in Processes :
                            proc'[q].owed \/ (proc'[q].stage = "exited" /\ proc'[q].code # 0)
      BY DEF ManualHasDebtor
    <2>1. CASE proc[p].owed \/ proc'[p].owed
      BY <1>1, <2>1 DEF Kept
    <2>2. CASE ~(proc[p].owed \/ proc'[p].owed)
      <3>1. PICK q \in Processes :
                proc[q].owed \/ (proc[q].stage = "exited" /\ proc[q].code # 0)
        BY <1>1, <2>2 DEF Inv, ManualHasDebtor
      <3>2. q # p
        BY <1>1, <2>2, <3>1
      <3> QED
        BY <1>1, <3>1, <3>2
    <2> QED
      BY <2>1, <2>2
  <1>4. FirstPortIsHeld'
    <2> SUFFICES ASSUME NEW q \in Processes, ~Stopping(proc'[q]),
                        proc'[q].run = "binding" \/ proc'[q].init # "none"
                 PROVE  port'["ipv4"] = q
      BY DEF FirstPortIsHeld
    <2>1. CASE q # p
      BY <1>1, <2>1, PortsKept DEF Inv, FirstPortIsHeld
    <2>2. CASE q = p
      <3>1. proc'[p].stage = "up" /\ ~Stopping(proc[p])
        BY <1>1, <2>2 DEF Stopping, Kept
      <3>2. CASE proc[p].run = "binding" \/ proc[p].init # "none"
        BY <2>2, <3>1, <3>2, PortsKept DEF Inv, FirstPortIsHeld
      <3>3. CASE ~(proc[p].run = "binding" \/ proc[p].init # "none")
        <4>1. BindIPv4(p) /\ proc'[p].run = "binding"
          BY <1>1, <2>2, <3>3 DEF Kept
        <4> QED
          BY <2>2, <4>1, PortsKept
      <3> QED
        BY <3>2, <3>3
    <2> QED
      BY <2>1, <2>2
  <1> QED
    BY <1>1, <1>2, <1>3, <1>4, PortsKept DEF Inv

LEMMA InvBegins ==
    ASSUME Init
    PROVE  Inv
  <1> DEFINE n == NewProcess
  <1>1. n \in ProcessStates
    BY DEF NewProcess, ProcessStates, Runs, Inits, Stages
  <1>2. Elements(n.fanQueue) = {} /\ Elements(n.calls) = {} /\ DOMAIN n.calls = {}
    BY ElementsOfEmpty DEF NewProcess
  <1>3. InitBelongsToRun(n) /\ NothingBeforeProbe(n) /\ CleanSoFar(n)
    BY DEF NewProcess, InitBelongsToRun, NothingBeforeProbe, CleanSoFar
  <1>4. QueueHoldsCallers(n) /\ FansAreWatched(n)
    BY <1>2 DEF NewProcess, QueueHoldsCallers, FansAreWatched, Stopping
  <1>5. CallsHaveCallers(n)
    BY <1>2 DEF NewProcess, CallsHaveCallers, AtMostOne
  <1>6. Fits(n)
    BY <1>1, <1>3, <1>4, <1>5 DEF Fits
  <1>7. proc = [p \in Processes |-> n]
    BY DEF Init
  <1>8. FirstPortIsHeld /\ ManualHasDebtor
    BY DEF Init, NewProcess, FirstPortIsHeld, ManualHasDebtor
  <1> HIDE DEF n
  <1> QED
    BY <1>1, <1>6, <1>7, <1>8 DEF Init, Inv

-----------------------------------------------------------------------------
\* The invariant: each process fits its stage, manual firmware has a debtor,
\* and an initialized process holds the first port.
THEOREM InvHolds == Spec => []Inv
  <1>1. Inv /\ [Next]_vars => Inv'
    <2> SUFFICES ASSUME Inv, [Next]_vars
                 PROVE  Inv'
      OBVIOUS
    <2>1. CASE Next
      BY <2>1, InvKept DEF Next, Step
    <2>2. CASE UNCHANGED vars
      BY <2>2 DEF vars, Inv, ManualHasDebtor, FirstPortIsHeld
    <2> QED
      BY <2>1, <2>2
  <1> QED
    BY InvBegins, <1>1, PTL DEF Spec

\* The fans are watched by the server that took them over, or are back with
\* the BIOS when it ends with exit code 0, however many processes overlap.
THEOREM FansNotAbandoned == Spec => []FansAreNotAbandoned
  <1>1. Inv => FansAreNotAbandoned
    <2> SUFFICES ASSUME Inv
                 PROVE  FansAreNotAbandoned
      OBVIOUS
    <2>1. ASSUME NEW p \in Processes
          PROVE  Fits(proc[p]) /\ proc[p] \in ProcessStates
      BY DEF Inv, Fits
    <2>2. CleanExitReleasesFans
      <3> SUFFICES ASSUME NEW p \in Processes, proc[p].stage = "exited", proc[p].code = 0
                   PROVE  ~proc[p].owed /\ Idle(proc[p])
        BY DEF CleanExitReleasesFans
      <3> QED
        BY <2>1 DEF Fits, CleanSoFar, Idle
    <2>3. AllCleanMeansBios
      <3> SUFFICES ASSUME \A p \in Processes : proc[p].run # "off" =>
                              proc[p].stage = "exited" /\ proc[p].code = 0,
                          firmware # "bios"
                   PROVE  FALSE
        BY DEF AllCleanMeansBios
      <3>1. PICK p \in Processes :
                proc[p].owed \/ (proc[p].stage = "exited" /\ proc[p].code # 0)
        BY DEF Inv, ManualHasDebtor
      <3>2. proc[p].run # "off"
        BY <2>1, <3>1 DEF Fits, InitBelongsToRun, NothingBeforeProbe
      <3> QED
        BY <2>2, <3>1, <3>2 DEF CleanExitReleasesFans
    <2>4. ManualModeIsWatched
      <3> SUFFICES ASSUME NEW p \in Processes, Up(p), proc[p].run = "ready", proc[p].owed
                   PROVE  proc[p].controlling \/ proc[p].restartRequired
        BY DEF ManualModeIsWatched
      <3> QED
        BY <2>1 DEF Fits, InitBelongsToRun, FansAreWatched, Up
    <2> QED
      BY <2>2, <2>3, <2>4 DEF FansAreNotAbandoned
  <1> QED
    BY InvHolds, <1>1, PTL

\* A startup or a command that waits for a fan operation finds it queued, at
\* every point of the shutdown.
THEOREM WaitersAreServed == Spec => []NobodyWaitsInVain
  <1>1. Inv => NobodyWaitsInVain
    <2> SUFFICES ASSUME Inv, NEW p \in Processes
                 PROVE  LET waiting == {proc[p].fanQueue[i] : i \in DOMAIN proc[p].fanQueue} IN
                        Alive(p) =>
                            /\ proc[p].mutation = "fan" => "command" \in waiting
                            /\ proc[p].init = "fan" =>
                                  waiting \cap (TakeOvers \cup {"first"}) # {}
      BY DEF NobodyWaitsInVain
    <2> DEFINE q == proc[p].fanQueue
    <2>1. QueueHoldsCallers(proc[p])
      BY DEF Inv, Fits
    <2>2. proc[p].mutation = "fan" => "command" \in {q[i] : i \in DOMAIN q}
      BY <2>1 DEF QueueHoldsCallers, Elements
    <2>3. ASSUME proc[p].init = "fan"
          PROVE  {q[i] : i \in DOMAIN q} \cap (TakeOvers \cup {"first"}) # {}
      <3>1. PICK op \in {"takeover", "first"} : q = <<op>>
        BY <2>1, <2>3 DEF QueueHoldsCallers
      <3>2. 1 \in DOMAIN q /\ q[1] = op
        BY <3>1
      <3> QED
        BY <3>1, <3>2 DEF TakeOvers
    <2> QED
      BY <2>2, <2>3
  <1> QED
    BY InvHolds, <1>1, PTL

\* While a server is ready, the native calls of another process change only
\* if that one is shutting down and had initialized the hardware before.
THEOREM SecondStartHarmless == Spec => SecondStartIsHarmless
  <1> DEFINE Goal ==
        \A p, q \in Processes :
            Up(q) /\ proc[q].run = "ready" /\ p # q /\ proc'[p].calls # proc[p].calls
            => Stopping(proc[p]) /\ proc[p].init # "none"
  <1>1. Inv /\ Next => Goal
    <2> SUFFICES ASSUME Inv, Next, NEW p \in Processes, NEW q \in Processes,
                        Up(q), proc[q].run = "ready", p # q, proc'[p].calls # proc[p].calls
                 PROVE  Stopping(proc[p]) /\ proc[p].init # "none"
      OBVIOUS
    <2>1. PICK a \in Processes : Step(a)
      BY DEF Next, Step
    <2>2. a = p
      BY <2>1, StepKeeps
    <2>3. Fits(proc[p]) /\ Fits(proc[q]) /\ Fits(proc'[p]) /\ Kept(p)
      BY <2>1, <2>2, StepKeeps DEF Inv
    <2>4. proc[p].init # "none"
      <3> SUFFICES ASSUME proc[p].init = "none"
                   PROVE  FALSE
        OBVIOUS
      <3>1. proc'[p].init \in {"none", "probe"}
        BY <2>3 DEF Kept
      <3> QED
        BY <2>3, <3>1 DEF Fits, NothingBeforeProbe
    <2>5. port["ipv4"] = q
      BY <2>3 DEF Inv, FirstPortIsHeld, Up, Fits, InitBelongsToRun
    <2> QED
      BY <2>4, <2>5 DEF Inv, FirstPortIsHeld
  <1>2. Inv /\ [Next]_vars => [Goal]_vars
    BY <1>1
  <1> QED
    BY InvHolds, <1>2, PTL DEF Spec, SecondStartIsHarmless

-----------------------------------------------------------------------------
(* The processes share the fans as SharedFans says.  A take-over can be    *)
(* carried out late, but never behind the handoff of its own process.      *)

\* How far the handoff of a process is at each stage: it is made once, behind
\* every fan operation, and its failure shows in the exit code.
HandoffOrder(r) ==
    /\ r.stage \in {"up", "drain"} => r.handoff = "none"
    /\ r.stage = "restore" => r.handoff \in {"waiting", "calling"}
    /\ r.stage \in {"cleanup", "exited"} /\ r.code = 0 => r.handoff \in {"none", "ok"}
    /\ r.handoff \in {"calling", "ok", "failed"} => r.fanQueue = <<>>
    /\ "handoff" \in Elements(r.calls) => r.handoff = "calling"
    /\ AtMostOne(r.calls, {"handoff"})

SharedInv == Inv /\ \A p \in Processes : HandoffOrder(proc[p])

\* Manual mode begins only as a debt of a process whose handoff is still to come.
Lands(r) ==
    firmware' = "manual" => firmware = "manual" \/ (r.owed /\ HandoffOf(r) \in {"none", "pending"})
Eases == firmware' = "manual" => firmware = "manual"

\* What the step of a process from r to s is to the others.
Same(r, s) == s.owed = r.owed /\ HandoffOf(s) = HandoffOf(r)
Move(r, s) ==
    \/ Same(r, s) /\ PhaseOf(s) = PhaseOf(r) /\ Lands(r)
    \/ /\ s.owed /\ HandoffOf(s) = HandoffOf(r) /\ PhaseOf(s) = "up" /\ PhaseOf(r) = "up"
       /\ firmware' = firmware
    \/ Same(r, s) /\ PhaseOf(r) = "up" /\ PhaseOf(s) = "stopping" /\ Eases
    \/ /\ s.owed = r.owed /\ PhaseOf(s) = "stopping" /\ PhaseOf(r) = "stopping"
       /\ HandoffOf(r) = "none" /\ HandoffOf(s) = "pending"
       /\ firmware' = firmware
    \/ /\ ~s.owed /\ PhaseOf(s) = PhaseOf(r) /\ firmware' # "manual"
       /\ HandoffOf(s) = HandoffOf(r) \/ (HandoffOf(r) = "pending" /\ HandoffOf(s) = "done")
    \/ /\ s.owed = r.owed /\ PhaseOf(s) = PhaseOf(r) /\ Eases
       /\ HandoffOf(r) = "pending" /\ HandoffOf(s) = "failed"
    \/ /\ Same(r, s) /\ PhaseOf(r) = "stopping" /\ PhaseOf(s) = "clean"
       /\ ~r.owed /\ HandoffOf(r) \in {"none", "done"}
       /\ firmware' = firmware
    \/ Same(r, s) /\ PhaseOf(s) = "dirty" /\ Lands(r)

\* Each of these is a step of SharedFans, or none.
LEMMA MoveIsShared ==
    ASSUME NEW p \in Processes, proc \in [Processes -> ProcessStates],
           proc' \in [Processes -> ProcessStates],
           \A q \in Processes \ {p} : proc'[q] = proc[q],
           proc[p].stage # "exited", Move(proc[p], proc'[p])
    PROVE  [Shared!Next]_(Shared!vars)
  <1> DEFINE r == proc[p]
             s == proc'[p]
             manual == firmware = "manual"
             owed == [q \in Processes |-> proc[q].owed]
             phase == [q \in Processes |-> PhaseOf(proc[q])]
             handoff == [q \in Processes |-> HandoffOf(proc[q])]
  <1>1. /\ owed' = [owed EXCEPT ![p] = s.owed] /\ owed[p] = r.owed
        /\ r.owed \in BOOLEAN /\ s.owed \in BOOLEAN
    BY DEF ProcessStates
  <1>2. phase' = [phase EXCEPT ![p] = PhaseOf(s)] /\ phase[p] = PhaseOf(r)
    OBVIOUS
  <1>3. handoff' = [handoff EXCEPT ![p] = HandoffOf(s)] /\ handoff[p] = HandoffOf(r)
    OBVIOUS
  <1>4. /\ s.owed = r.owed => owed' = owed
        /\ PhaseOf(s) = PhaseOf(r) => phase' = phase
        /\ HandoffOf(s) = HandoffOf(r) => handoff' = handoff
    BY <1>1, <1>2, <1>3
  <1>5. phase[p] \notin {"clean", "dirty"}
    BY <1>2 DEF PhaseOf
  <1>6. CASE Same(r, s) /\ PhaseOf(s) = PhaseOf(r) /\ Lands(r)
    <2>1. UNCHANGED <<owed, phase, handoff>>
      BY <1>4, <1>6 DEF Same
    <2>2. CASE firmware' # "manual"
      BY <1>5, <2>1, <2>2 DEF Shared!Next, Shared!Yield, Shared!Ended
    <2>3. CASE firmware' = "manual" /\ firmware = "manual"
      BY <2>1, <2>3 DEF Shared!vars
    <2>4. CASE firmware' = "manual" /\ firmware # "manual"
      <3>1. owed[p] /\ handoff[p] \in {"none", "pending"}
        BY <1>1, <1>3, <1>6, <2>4 DEF Lands
      <3> QED
        BY <1>5, <2>1, <2>4, <3>1 DEF Shared!Next, Shared!Take, Shared!MayTake, Shared!Ended
    <2> QED
      BY <2>2, <2>3, <2>4
  <1>7. CASE /\ s.owed /\ HandoffOf(s) = HandoffOf(r) /\ PhaseOf(s) = "up" /\ PhaseOf(r) = "up"
             /\ firmware' = firmware
    <2>1. owed' = [owed EXCEPT ![p] = TRUE] /\ phase[p] = "up" /\ UNCHANGED <<manual, phase, handoff>>
      BY <1>1, <1>2, <1>4, <1>7
    <2> QED
      BY <2>1 DEF Shared!Next, Shared!Owe
  <1>8. CASE Same(r, s) /\ PhaseOf(r) = "up" /\ PhaseOf(s) = "stopping" /\ Eases
    <2>1. /\ phase' = [phase EXCEPT ![p] = "stopping"] /\ phase[p] = "up"
          /\ UNCHANGED <<owed, handoff>>
      BY <1>2, <1>4, <1>8 DEF Same
    <2>2. manual' \in {manual, FALSE}
      BY <1>8 DEF Eases
    <2> QED
      BY <2>1, <2>2 DEF Shared!Next, Shared!Stop
  <1>9. CASE /\ s.owed = r.owed /\ PhaseOf(s) = "stopping" /\ PhaseOf(r) = "stopping"
             /\ HandoffOf(r) = "none" /\ HandoffOf(s) = "pending"
             /\ firmware' = firmware
    <2>1. /\ handoff' = [handoff EXCEPT ![p] = "pending"] /\ handoff[p] = "none"
          /\ phase[p] = "stopping" /\ UNCHANGED <<manual, owed, phase>>
      BY <1>2, <1>3, <1>4, <1>9
    <2> QED
      BY <2>1 DEF Shared!Next, Shared!Attempt
  <1>10. CASE /\ ~s.owed /\ PhaseOf(s) = PhaseOf(r) /\ firmware' # "manual"
              /\ HandoffOf(s) = HandoffOf(r) \/ (HandoffOf(r) = "pending" /\ HandoffOf(s) = "done")
    <2>1. /\ owed' = [owed EXCEPT ![p] = FALSE] /\ UNCHANGED phase /\ manual' = FALSE
          /\ \/ UNCHANGED handoff
             \/ handoff[p] = "pending" /\ handoff' = [handoff EXCEPT ![p] = "done"]
      BY <1>1, <1>3, <1>4, <1>10
    <2> QED
      BY <1>5, <2>1 DEF Shared!Next, Shared!Settle, Shared!Ended
  <1>11. CASE /\ s.owed = r.owed /\ PhaseOf(s) = PhaseOf(r) /\ Eases
              /\ HandoffOf(r) = "pending" /\ HandoffOf(s) = "failed"
    <2>1. /\ handoff' = [handoff EXCEPT ![p] = "failed"] /\ handoff[p] = "pending"
          /\ UNCHANGED <<owed, phase>>
      BY <1>3, <1>4, <1>11
    <2>2. manual' \in {manual, FALSE}
      BY <1>11 DEF Eases
    <2> QED
      BY <1>5, <2>1, <2>2 DEF Shared!Next, Shared!GiveUp, Shared!Ended
  <1>12. CASE /\ Same(r, s) /\ PhaseOf(r) = "stopping" /\ PhaseOf(s) = "clean"
              /\ ~r.owed /\ HandoffOf(r) \in {"none", "done"}
              /\ firmware' = firmware
    <2>1. /\ phase' = [phase EXCEPT ![p] = "clean"] /\ phase[p] = "stopping"
          /\ ~owed[p] /\ handoff[p] \in {"none", "done"} /\ UNCHANGED <<manual, owed, handoff>>
      BY <1>1, <1>2, <1>3, <1>4, <1>12 DEF Same
    <2> QED
      BY <2>1 DEF Shared!Next, Shared!EndCleanly
  <1>13. CASE Same(r, s) /\ PhaseOf(s) = "dirty" /\ Lands(r)
    <2>1. phase' = [phase EXCEPT ![p] = "dirty"] /\ UNCHANGED <<owed, handoff>>
      BY <1>2, <1>4, <1>13 DEF Same
    <2>2. \/ manual' \in {manual, FALSE}
          \/ owed[p] /\ handoff[p] \in {"none", "pending"} /\ manual' = TRUE
      BY <1>1, <1>3, <1>13 DEF Lands
    <2> QED
      BY <1>5, <2>1, <2>2 DEF Shared!Next, Shared!Die, Shared!MayTake, Shared!Ended
  <1> HIDE DEF r, s
  <1>14. Move(r, s)
    BY DEF r, s
  <1> QED
    BY <1>6, <1>7, <1>8, <1>9, <1>10, <1>11, <1>12, <1>13, <1>14 DEF Move

LEMMA Unmoved ==
    ASSUME NEW r, NEW s, r.stage # "exited", Lands(r),
           s.stage = r.stage, s.owed = r.owed, s.handoff = r.handoff
    PROVE  Move(r, s)
  BY DEF Move, Same, PhaseOf, HandoffOf

LEMMA OrderKept ==
    ASSUME NEW r, NEW s, HandoffOrder(r), s.stage = r.stage, s.handoff = r.handoff,
           s.code = 0 => r.code = 0,
           r.handoff \in {"calling", "ok", "failed"} => s.fanQueue = <<>>,
           "handoff" \in Elements(s.calls) => "handoff" \in Elements(r.calls),
           AtMostOne(s.calls, {"handoff"})
    PROVE  HandoffOrder(s)
  BY DEF HandoffOrder

\* Another call in the calls is no second handoff.
LEMMA OtherCallAdded ==
    ASSUME NEW c \in Seq(Calls), NEW x \in Calls, x # "handoff", AtMostOne(c, {"handoff"})
    PROVE  /\ "handoff" \in Elements(Append(c, x)) => "handoff" \in Elements(c)
           /\ AtMostOne(Append(c, x), {"handoff"})
  BY ElementsOfAppend, AtMostOneOfAppend

LEMMA StartsMoves ==
    ASSUME SharedInv, NEW p \in Processes, Starts(p)
    PROVE  HandoffOrder(proc'[p]) /\ Move(proc[p], proc'[p])
  <1> DEFINE r == proc[p]
             s == proc'[p]
  <1> SUFFICES HandoffOrder(s) /\ Move(r, s)
    OBVIOUS
  <1>1. /\ Fits(r) /\ r \in ProcessStates /\ HandoffOrder(r)
        /\ proc \in [Processes -> ProcessStates]
    BY DEF SharedInv, Inv, Fits
  <1>2. firmware' = firmware /\ Lands(r) /\ Eases
    BY StartsKeeps DEF SharedInv, Lands, Eases
  <1>3. r.stage # "exited"
    BY StepKeeps DEF Step, SharedInv
  <1>4. /\ r.calls \in Seq(Calls) /\ AtMostOne(r.calls, {"handoff"})
        /\ r.stage \in Stages /\ r.code \in Nat
    BY <1>1 DEF ProcessStates, HandoffOrder
  <1>5. ASSUME s.stage = r.stage, s.handoff = r.handoff, s.owed = r.owed, s.code = r.code,
               s.calls = r.calls, s.fanQueue = r.fanQueue
        PROVE  HandoffOrder(s) /\ Move(r, s)
    <2> HIDE DEF r, s
    <2>1. HandoffOrder(s)
      BY <1>1, <1>5 DEF HandoffOrder
    <2> QED
      BY <1>2, <1>3, <1>5, <2>1, Unmoved
  <1>6. ASSUME r.stage = "up", s = Stop([r EXCEPT !.run = "ended"], 1)
        PROVE  HandoffOrder(s) /\ Move(r, s)
    <2>1. /\ s.stage = "drain" /\ s.handoff = r.handoff /\ s.owed = r.owed
          /\ s.calls = r.calls /\ s.fanQueue = r.fanQueue
      BY <1>1, <1>6 DEF Stop, ProcessStates
    <2> HIDE DEF r, s
    <2>2. HandoffOrder(s)
      BY <1>1, <1>6, <2>1 DEF HandoffOrder
    <2>3. Same(r, s) /\ PhaseOf(r) = "up" /\ PhaseOf(s) = "stopping"
      BY <1>6, <2>1 DEF Same, PhaseOf, HandoffOf
    <2> QED
      BY <1>2, <2>2, <2>3 DEF Move
  <1>7. CASE Launch(p) \/ StoppedBeforeBinding(p) \/ BecomesReady(p)
    <2>1. \E run : s = [r EXCEPT !.run = run]
      BY <1>1, <1>7 DEF Launch, StoppedBeforeBinding, BecomesReady, Quiet, Becomes
    <2> QED
      BY <1>1, <1>5, <2>1 DEF ProcessStates
  <1>8. CASE Unprivileged(p)
    <2>1. s = [r EXCEPT !.stage = "exited", !.code = 1]
      BY <1>1, <1>8 DEF Unprivileged, Quiet, Becomes
    <2>2. /\ s.stage = "exited" /\ s.code = 1 /\ s.handoff = r.handoff /\ s.owed = r.owed
          /\ s.calls = r.calls /\ s.fanQueue = r.fanQueue
      BY <1>1, <2>1 DEF ProcessStates
    <2> HIDE DEF r, s
    <2>3. HandoffOrder(s)
      BY <1>1, <2>2 DEF HandoffOrder
    <2>4. Same(r, s) /\ PhaseOf(s) = "dirty"
      BY <2>2 DEF Same, PhaseOf, HandoffOf
    <2> QED
      BY <1>2, <2>3, <2>4 DEF Move
  <1>9. CASE BindIPv4(p)
    <2>1. /\ r.stage = "up"
          /\ s = [r EXCEPT !.run = "binding"] \/ s = Stop([r EXCEPT !.run = "ended"], 1)
      BY <1>1, <1>9 DEF BindIPv4, Becomes, Stopping
    <2>2. CASE s = [r EXCEPT !.run = "binding"]
      BY <1>1, <1>5, <2>2 DEF ProcessStates
    <2> QED
      BY <1>6, <2>1, <2>2
  <1>10. CASE BindIPv6(p)
    <2>1. \/ s = [r EXCEPT !.run = "init", !.init = "probe", !.fan = "no"]
          \/ s = [r EXCEPT !.run = "unbinding"]
      BY <1>1, <1>10 DEF BindIPv6, Becomes
    <2>2. /\ s.stage = r.stage /\ s.handoff = r.handoff /\ s.owed = r.owed /\ s.code = r.code
          /\ s.calls = r.calls /\ s.fanQueue = r.fanQueue
      BY <1>1, <2>1 DEF ProcessStates
    <2> QED
      BY <1>5, <2>2
  <1>11. CASE Unbind(p)
    <2>1. s = Stop([r EXCEPT !.run = "ended"], 1) /\ r.run = "unbinding"
      BY <1>1, <1>11 DEF Unbind, Becomes
    <2>2. CASE r.stage = "up"
      BY <1>6, <2>1, <2>2
    <2>3. CASE r.stage # "up"
      <3>1. /\ s.stage = r.stage /\ s.handoff = r.handoff /\ s.owed = r.owed
            /\ s.calls = r.calls /\ s.fanQueue = r.fanQueue /\ s.code # 0
        BY <1>1, <1>4, <2>1, <2>3 DEF Stop, Worse, ProcessStates
      <3> HIDE DEF r, s
      <3>2. HandoffOrder(s)
        BY <1>1, <3>1 DEF HandoffOrder
      <3> QED
        BY <1>2, <1>3, <3>1, <3>2, Unmoved
    <2> QED
      BY <2>2, <2>3
  <1>12. CASE ProbeEnds(p)
    <2>1. r.handoff = "none"
      BY <1>1, <1>12 DEF ProbeEnds, Fits, NothingBeforeProbe
    <2>2. PICK available \in BOOLEAN :
            LET q == [r EXCEPT !.fan = IF available THEN "yes" ELSE "no"] IN
            s = (IF Stopping(q) THEN [q EXCEPT !.init = "over"]
                 ELSE IF available
                 THEN [q EXCEPT !.init = "fan", !.backend = TRUE,
                                !.fanQueue = Append(@, "takeover")]
                 ELSE [q EXCEPT !.init = "tuning"])
      BY <1>1, <1>12 DEF ProbeEnds, Quiet, Becomes
    <2>3. /\ s.stage = r.stage /\ s.handoff = r.handoff /\ s.owed = r.owed /\ s.code = r.code
          /\ s.calls = r.calls
      BY <1>1, <2>2 DEF ProcessStates
    <2> HIDE DEF r, s
    <2>4. HandoffOrder(s)
      BY <1>1, <1>4, <2>1, <2>3 DEF HandoffOrder
    <2> QED
      BY <1>2, <1>3, <2>3, <2>4, Unmoved
  <1>13. CASE TuningEnds(p)
    <2>1. \/ s = [r EXCEPT !.init = "over"]
          \/ s = [r EXCEPT !.init = "boost", !.calls = Append(@, "boost")]
      BY <1>1, <1>13 DEF TuningEnds, Quiet, Becomes
    <2>2. /\ s.stage = r.stage /\ s.handoff = r.handoff /\ s.owed = r.owed /\ s.code = r.code
          /\ s.fanQueue = r.fanQueue /\ s.calls \in {r.calls, Append(r.calls, "boost")}
      BY <1>1, <2>1 DEF ProcessStates
    <2>3. "boost" \in Calls
      BY DEF Calls
    <2>4. /\ "handoff" \in Elements(s.calls) => "handoff" \in Elements(r.calls)
          /\ AtMostOne(s.calls, {"handoff"})
      BY <1>4, <2>2, <2>3, OtherCallAdded
    <2> HIDE DEF r, s
    <2>5. HandoffOrder(s)
      BY <1>1, <2>2, <2>4 DEF HandoffOrder
    <2> QED
      BY <1>2, <1>3, <2>2, <2>5, Unmoved
  <1> QED
    BY <1>7, <1>8, <1>9, <1>10, <1>11, <1>12, <1>13 DEF Starts

\* While a fan operation is queued or called, the handoff is still to come.
LEMMA FanOpsPrecedeHandoff ==
    ASSUME NEW r, Fits(r), HandoffOrder(r),
           r.fanQueue # <<>> \/ Elements(r.calls) \cap FanOps # {}
    PROVE  r.handoff \in {"none", "waiting"} /\ HandoffOf(r) \in {"none", "pending"}
  <1>1. r.fanQueue # <<>>
    BY DEF Fits, CallsHaveCallers, QueueHoldsCallers
  <1>2. r.handoff \in {"none", "waiting", "calling", "ok", "failed"}
    BY DEF Fits, ProcessStates
  <1> QED
    BY <1>1, <1>2 DEF HandoffOrder, HandoffOf

LEMMA LandingMoves ==
    ASSUME SharedInv, NEW p \in Processes, CallMayLand(proc[p])
    PROVE  /\ Lands(proc[p])
           /\ proc[p].calls # <<>> /\ Head(proc[p].calls) \notin TakeOvers => Eases
  <1> DEFINE r == proc[p]
  <1>1. Fits(r) /\ HandoffOrder(r) /\ r.calls \in Seq(Calls)
    BY DEF SharedInv, Inv, Fits, ProcessStates
  <1>2. SUFFICES ASSUME firmware' = "manual", firmware # "manual"
                 PROVE  /\ r.owed /\ HandoffOf(r) \in {"none", "pending"}
                        /\ r.calls # <<>> => Head(r.calls) \in TakeOvers
    BY DEF Lands, Eases
  <1>3. 1 \in DOMAIN r.calls /\ "manual" = Effect(r.calls[1])
    BY <1>2 DEF CallMayLand
  <1>4. r.calls[1] \in TakeOvers /\ r.calls[1] \in Elements(r.calls)
    BY <1>2, <1>3 DEF Effect, Elements
  <1>5. r.owed
    BY <1>1, <1>4 DEF Fits, CallsHaveCallers
  <1>6. HandoffOf(r) \in {"none", "pending"}
    BY <1>1, <1>4, FanOpsPrecedeHandoff DEF FanOps
  <1> QED
    BY <1>1, <1>4, <1>5, <1>6

\* What follows a fan operation leaves the debt and the handoff alone.
LEMMA ShareAfterFanOp ==
    ASSUME NEW q \in ProcessStates, NEW op \in FanOps, NEW ok \in BOOLEAN
    PROVE  LET t == AfterFanOp(q, op, ok) IN
           /\ t.stage = q.stage /\ t.owed = q.owed /\ t.handoff = q.handoff /\ t.code = q.code
           /\ t.calls \in {q.calls, Append(q.calls, "release")}
  BY DEF AfterFanOp, FanInitFails, ProcessStates, FanOps, TakeOvers

LEMMA CallEndsMoves ==
    ASSUME SharedInv, NEW p \in Processes, CallReturns(p) \/ CallFails(p)
    PROVE  HandoffOrder(proc'[p]) /\ Move(proc[p], proc'[p])
  <1> DEFINE r == proc[p]
             s == proc'[p]
             call == Head(r.calls)
             q == [r EXCEPT !.calls = Tail(@)]
  <1> SUFFICES HandoffOrder(s) /\ Move(r, s)
    OBVIOUS
  <1>1. /\ Fits(r) /\ r \in ProcessStates /\ HandoffOrder(r)
        /\ proc \in [Processes -> ProcessStates]
    BY DEF SharedInv, Inv, Fits
  <1>2. r.calls # <<>> /\ r.stage # "exited"
    BY DEF CallReturns, CallFails, Alive
  <1>3. /\ call \in Calls /\ Tail(r.calls) \in Seq(Calls)
        /\ Elements(r.calls) = {call} \cup Elements(Tail(r.calls))
    BY <1>1, <1>2, QueuesOfProcess
  <1>4. /\ AtMostOne(Tail(r.calls), {"handoff"})
        /\ call = "handoff" => "handoff" \notin Elements(Tail(r.calls))
    <2>1. r.calls \in Seq(Calls) /\ AtMostOne(r.calls, {"handoff"})
      BY <1>1 DEF ProcessStates, HandoffOrder
    <2> QED
      BY <1>2, <2>1, AtMostOneOfTail
  <1>5. PICK ok \in BOOLEAN : /\ s = AfterCall(q, call, ok)
                              /\ ok => firmware' = Effect(call)
                              /\ ~ok => CallMayLand(r) \/ firmware' = firmware
    <2>1. CASE CallReturns(p)
      BY <1>1, <2>1 DEF CallReturns, Becomes
    <2>2. CASE CallFails(p)
      BY <1>1, <2>2 DEF CallFails, Becomes
    <2> QED
      BY <2>1, <2>2
  <1>6. q \in ProcessStates
    BY <1>1, <1>3, TypedUpdates
  <1>7. /\ q.stage = r.stage /\ q.owed = r.owed /\ q.handoff = r.handoff /\ q.code = r.code
        /\ q.fanQueue = r.fanQueue /\ q.calls = Tail(r.calls) /\ r.code \in Nat
        /\ r.owed \in BOOLEAN
    BY <1>1 DEF ProcessStates
  <1>8. Lands(r) /\ (call \notin TakeOvers => Eases)
    <2>1. CASE ok
      <3>1. call \in TakeOvers => r.owed
        BY <1>1, <1>3 DEF Fits, CallsHaveCallers
      <3>2. call \in TakeOvers => HandoffOf(r) \in {"none", "pending"}
        BY <1>1, <1>3, FanOpsPrecedeHandoff DEF FanOps
      <3> QED
        BY <1>5, <2>1, <3>1, <3>2 DEF Lands, Eases, Effect
    <2>2. CASE ~ok
      BY <1>2, <1>5, <2>2, LandingMoves DEF Lands, Eases
    <2> QED
      BY <2>1, <2>2
  <1>9. s = AfterCall(q, call, ok)
    BY <1>5
  <1> HIDE DEF q, s, r, call
  <1>10. CASE call \in FanOps
    <2> DEFINE q2 == [q EXCEPT !.fanQueue = Tail(@), !.fanStarted = FALSE]
    <2>1. r.handoff \in {"none", "waiting"}
      BY <1>1, <1>3, <1>10, FanOpsPrecedeHandoff
    <2>2. r.fanQueue # <<>> /\ Tail(r.fanQueue) \in Seq(FanOps)
      <3>1. r.fanQueue # <<>>
        BY <1>1, <1>3, <1>10 DEF Fits, CallsHaveCallers, QueueHoldsCallers
      <3> QED
        BY <1>1, <3>1, QueuesOfProcess
    <2>3. q2 \in ProcessStates
      BY <1>6, <1>7, <2>2 DEF ProcessStates
    <2>4. /\ q2.stage = r.stage /\ q2.owed = r.owed /\ q2.handoff = r.handoff /\ q2.code = r.code
          /\ q2.calls = Tail(r.calls)
      BY <1>6, <1>7 DEF ProcessStates
    <2>5. s = AfterFanOp(q2, call, ok)
      <3>1. call \notin {"request", "boost", "release", "handoff"}
        BY <1>10 DEF FanOps, TakeOvers
      <3> QED
        BY <1>9, <1>10, <3>1, Zenon DEF AfterCall
    <2> HIDE DEF q2
    <2>6. /\ s.stage = r.stage /\ s.owed = r.owed /\ s.handoff = r.handoff /\ s.code = r.code
          /\ s.calls \in {Tail(r.calls), Append(Tail(r.calls), "release")}
      BY <1>10, <2>3, <2>4, <2>5, ShareAfterFanOp
    <2>7. "release" \in Calls
      BY DEF Calls
    <2>8. /\ "handoff" \in Elements(s.calls) => "handoff" \in Elements(r.calls)
          /\ AtMostOne(s.calls, {"handoff"})
      <3> DEFINE c == Tail(r.calls)
      <3>1. /\ "handoff" \in Elements(Append(c, "release")) => "handoff" \in Elements(c)
            /\ AtMostOne(Append(c, "release"), {"handoff"})
        BY <1>3, <1>4, <2>7, OtherCallAdded
      <3>2. "handoff" \in Elements(c) => "handoff" \in Elements(r.calls)
        BY <1>3
      <3>3. CASE s.calls = c
        BY <1>4, <3>2, <3>3
      <3>4. CASE s.calls = Append(c, "release")
        BY <3>1, <3>2, <3>4
      <3> QED
        BY <2>6, <3>3, <3>4
    <2>9. HandoffOrder(s)
      BY <1>1, <2>1, <2>6, <2>8, OrderKept
    <2> QED
      BY <1>2, <1>8, <2>6, <2>9, Unmoved
  <1>11. CASE call \in {"request", "boost"}
    <2>1. s = [q EXCEPT !.mutation = "none"] \/ s = [q EXCEPT !.init = "over"]
      BY <1>9, <1>11 DEF AfterCall, FanOps, TakeOvers
    <2>2. /\ s.stage = r.stage /\ s.owed = r.owed /\ s.handoff = r.handoff /\ s.code = r.code
          /\ s.calls = Tail(r.calls) /\ s.fanQueue = r.fanQueue
      BY <1>6, <1>7, <2>1 DEF ProcessStates
    <2>3. HandoffOrder(s)
      BY <1>1, <1>3, <1>4, <2>2 DEF HandoffOrder
    <2> QED
      BY <1>2, <1>8, <2>2, <2>3, Unmoved
  <1>12. CASE call = "release" /\ ok
    <2>1. s = [q EXCEPT !.owed = FALSE, !.init = IF Stopping(q) THEN "over" ELSE "tuning"]
      BY <1>9, <1>12 DEF AfterCall, FanOps, TakeOvers
    <2>2. /\ s.stage = r.stage /\ s.owed = FALSE /\ s.handoff = r.handoff /\ s.code = r.code
          /\ s.calls = Tail(r.calls) /\ s.fanQueue = r.fanQueue
      BY <1>6, <1>7, <2>1 DEF ProcessStates
    <2>3. HandoffOrder(s)
      BY <1>1, <1>3, <1>4, <2>2 DEF HandoffOrder
    <2>4. firmware' # "manual"
      BY <1>5, <1>12 DEF Effect, TakeOvers
    <2>5. PhaseOf(s) = PhaseOf(r) /\ HandoffOf(s) = HandoffOf(r)
      BY <2>2 DEF PhaseOf, HandoffOf
    <2> QED
      BY <2>2, <2>3, <2>4, <2>5 DEF Move
  <1>13. CASE call = "release" /\ ~ok
    <2>1. s = Stop([q EXCEPT !.init = "threw", !.run = "ended"], 1)
      BY <1>9, <1>13 DEF AfterCall, ReleaseFails, FanOps, TakeOvers
    <2>2. /\ s.stage = (IF r.stage = "up" THEN "drain" ELSE r.stage)
          /\ s.owed = r.owed /\ s.handoff = r.handoff /\ s.code # 0
          /\ s.calls = Tail(r.calls) /\ s.fanQueue = r.fanQueue
      BY <1>6, <1>7, <2>1 DEF ProcessStates, Stop, Worse
    <2>3. HandoffOrder(s)
      BY <1>1, <1>3, <1>4, <2>2 DEF HandoffOrder
    <2>4. Eases
      BY <1>8, <1>13 DEF TakeOvers
    <2>5. CASE r.stage = "up"
      <3>1. Same(r, s) /\ PhaseOf(r) = "up" /\ PhaseOf(s) = "stopping"
        BY <2>2, <2>5 DEF Same, PhaseOf, HandoffOf
      <3> QED
        BY <2>3, <2>4, <3>1 DEF Move
    <2>6. CASE r.stage # "up"
      BY <1>2, <1>8, <2>2, <2>3, <2>6, Unmoved
    <2> QED
      BY <2>5, <2>6
  <1>14. CASE call = "handoff"
    <2>1. r.handoff = "calling" /\ r.fanQueue = <<>> /\ r.stage \in {"restore", "cleanup"}
      BY <1>1, <1>2, <1>3, <1>14 DEF HandoffOrder, ProcessStates, Stages
    <2>2. s = HandoffEnds(q, ok)
      BY <1>9, <1>14 DEF AfterCall, FanOps, TakeOvers
    <2>3. /\ s.stage = "cleanup" /\ s.owed = (r.owed /\ ~ok)
          /\ s.handoff = (IF ok THEN "ok" ELSE "failed")
          /\ s.code = (IF ok \/ r.stage # "restore" THEN r.code ELSE 1)
          /\ s.calls = Tail(r.calls) /\ s.fanQueue = r.fanQueue
      BY <1>6, <1>7, <2>1, <2>2 DEF ProcessStates, HandoffEnds
    <2>4. HandoffOrder(s)
      BY <1>1, <1>3, <1>4, <1>14, <2>1, <2>3 DEF HandoffOrder
    <2>5. PhaseOf(r) = "stopping" /\ PhaseOf(s) = "stopping" /\ HandoffOf(r) = "pending"
      BY <2>1, <2>3 DEF PhaseOf, HandoffOf
    <2>6. CASE ok
      <3>1. ~s.owed /\ HandoffOf(s) = "done" /\ firmware' # "manual"
        BY <1>5, <1>14, <2>3, <2>6 DEF HandoffOf, Effect, TakeOvers
      <3> QED
        BY <2>4, <2>5, <3>1 DEF Move
    <2>7. CASE ~ok
      <3>1. s.owed = r.owed /\ HandoffOf(s) = "failed" /\ Eases
        BY <1>7, <1>8, <1>14, <2>3, <2>7 DEF HandoffOf, TakeOvers
      <3> QED
        BY <2>4, <2>5, <3>1 DEF Move
    <2> QED
      BY <2>6, <2>7
  <1> QED
    BY <1>3, <1>10, <1>11, <1>12, <1>13, <1>14 DEF Calls

LEMMA WorksMoves ==
    ASSUME SharedInv, NEW p \in Processes, Works(p)
    PROVE  HandoffOrder(proc'[p]) /\ Move(proc[p], proc'[p])
  <1> DEFINE r == proc[p]
             s == proc'[p]
  <1> SUFFICES HandoffOrder(s) /\ Move(r, s)
    OBVIOUS
  <1>1. /\ Fits(r) /\ r \in ProcessStates /\ HandoffOrder(r)
        /\ proc \in [Processes -> ProcessStates]
    BY DEF SharedInv, Inv, Fits
  <1>2. r.stage # "exited"
    BY StepKeeps DEF Step, SharedInv
  <1>3. r.calls \in Seq(Calls) /\ AtMostOne(r.calls, {"handoff"})
    BY <1>1 DEF ProcessStates, HandoffOrder
  <1>4. firmware' = firmware => Lands(r)
    BY DEF Lands
  <1>5. CASE FanLoopWrites(p)
    <2>1. PICK op \in {"reassert", "cycle"} :
            s = [r EXCEPT !.fanQueue = Append(@, op)] /\ firmware' = firmware
      BY <1>1, <1>5 DEF FanLoopWrites, Quiet, Becomes
    <2>2. r.handoff = "none"
      BY <1>1, <1>2, <1>5 DEF FanLoopWrites, Fits, FansAreWatched, HandoffOrder
    <2>3. /\ s.stage = r.stage /\ s.owed = r.owed /\ s.handoff = r.handoff /\ s.code = r.code
          /\ s.calls = r.calls
      BY <1>1, <2>1 DEF ProcessStates
    <2> HIDE DEF r, s
    <2>4. HandoffOrder(s)
      BY <1>1, <2>2, <2>3 DEF HandoffOrder
    <2> QED
      BY <1>2, <1>4, <2>1, <2>3, <2>4, Unmoved
  <1>6. CASE Request(p)
    <2>1. /\ \/ s = [r EXCEPT !.mutation = "fan", !.fanQueue = Append(@, "command")]
             \/ s = [r EXCEPT !.mutation = "native", !.calls = Append(@, "request")]
          /\ firmware' = firmware /\ r.stage = "up"
      BY <1>1, <1>6 DEF Request, Quiet, Becomes, Stopping
    <2>2. /\ s.stage = r.stage /\ s.owed = r.owed /\ s.handoff = r.handoff /\ s.code = r.code
          /\ s.calls \in {r.calls, Append(r.calls, "request")}
      BY <1>1, <2>1 DEF ProcessStates
    <2>3. "request" \in Calls
      BY DEF Calls
    <2>4. /\ "handoff" \in Elements(s.calls) => "handoff" \in Elements(r.calls)
          /\ AtMostOne(s.calls, {"handoff"})
      BY <1>3, <2>2, <2>3, OtherCallAdded
    <2>5. r.handoff = "none"
      BY <1>1, <2>1 DEF HandoffOrder
    <2> HIDE DEF r, s
    <2>6. HandoffOrder(s)
      BY <1>1, <2>2, <2>4, <2>5 DEF HandoffOrder
    <2> QED
      BY <1>2, <1>4, <2>1, <2>2, <2>6, Unmoved
  <1>7. CASE FanOpStarts(p)
    <2> DEFINE op == Head(r.fanQueue)
    <2>1. r.fanQueue # <<>> /\ firmware' = firmware
      BY <1>7 DEF FanOpStarts, Quiet
    <2>2. op \in FanOps /\ Tail(r.fanQueue) \in Seq(FanOps)
      BY <1>1, <2>1, QueuesOfProcess
    <2>3. r.handoff \in {"none", "waiting"}
      BY <1>1, <2>1, FanOpsPrecedeHandoff
    <2>4. CASE Stopping(r)
      <3> DEFINE q == [r EXCEPT !.fanQueue = Tail(@)]
      <3>1. s = AfterFanOp(q, op, FALSE)
        BY <1>1, <1>7, <2>4 DEF FanOpStarts, Quiet, Becomes
      <3>2. q \in ProcessStates
        BY <1>1, <2>2, TypedUpdates
      <3>3. /\ q.stage = r.stage /\ q.owed = r.owed /\ q.handoff = r.handoff /\ q.code = r.code
            /\ q.calls = r.calls
        BY <1>1 DEF ProcessStates
      <3> HIDE DEF q, r, s
      <3>4. /\ s.stage = r.stage /\ s.owed = r.owed /\ s.handoff = r.handoff /\ s.code = r.code
            /\ s.calls \in {r.calls, Append(r.calls, "release")}
        BY <2>2, <3>1, <3>2, <3>3, ShareAfterFanOp
      <3>5. "release" \in Calls
        BY DEF Calls
      <3>6. /\ "handoff" \in Elements(s.calls) => "handoff" \in Elements(r.calls)
            /\ AtMostOne(s.calls, {"handoff"})
        BY <1>3, <3>4, <3>5, OtherCallAdded
      <3>7. HandoffOrder(s)
        BY <1>1, <2>3, <3>4, <3>6, OrderKept
      <3> QED
        BY <1>2, <1>4, <2>1, <3>4, <3>7, Unmoved
    <2>5. CASE ~Stopping(r)
      <3>1. s = [r EXCEPT !.fanStarted = TRUE, !.calls = Append(@, op),
                          !.owed = @ \/ op \in TakeOvers]
        BY <1>1, <1>7, <2>5 DEF FanOpStarts, Quiet, Becomes
      <3>2. /\ s.stage = r.stage /\ s.owed = (r.owed \/ op \in TakeOvers)
            /\ s.handoff = r.handoff /\ s.code = r.code /\ s.calls = Append(r.calls, op)
            /\ s.fanQueue = r.fanQueue /\ r.owed \in BOOLEAN /\ s.owed \in BOOLEAN
        BY <1>1, <3>1 DEF ProcessStates
      <3> HIDE DEF r, s
      <3>3. op \in Calls /\ op # "handoff"
        BY <2>2 DEF Calls, FanOps, TakeOvers
      <3>4. /\ "handoff" \in Elements(s.calls) => "handoff" \in Elements(r.calls)
            /\ AtMostOne(s.calls, {"handoff"})
        BY <1>3, <3>2, <3>3, OtherCallAdded
      <3>5. HandoffOrder(s)
        BY <1>1, <2>3, <3>2, <3>4, OrderKept
      <3>6. CASE s.owed = r.owed
        BY <1>2, <1>4, <2>1, <3>2, <3>5, <3>6, Unmoved
      <3>7. CASE s.owed # r.owed
        <4>1. /\ s.owed /\ HandoffOf(s) = HandoffOf(r) /\ PhaseOf(s) = "up"
              /\ PhaseOf(r) = "up"
          BY <2>5, <3>2, <3>7 DEF HandoffOf, PhaseOf, Stopping
        <4> QED
          BY <2>1, <3>5, <4>1 DEF Move
      <3> QED
        BY <3>6, <3>7
    <2> QED
      BY <2>4, <2>5
  <1>8. CASE CallReturns(p) \/ CallFails(p)
    BY <1>8, CallEndsMoves
  <1>9. CASE ChannelFails(p)
    <2>1. /\ s = [r EXCEPT !.channel = FALSE, !.fan = "no", !.controlling = FALSE,
                           !.restartRequired = TRUE]
          /\ CallMayLand(r)
      BY <1>1, <1>9 DEF ChannelFails, Becomes
    <2>2. Lands(r)
      BY <2>1, LandingMoves
    <2>3. /\ s.stage = r.stage /\ s.owed = r.owed /\ s.handoff = r.handoff /\ s.code = r.code
          /\ s.calls = r.calls /\ s.fanQueue = r.fanQueue
      BY <1>1, <2>1 DEF ProcessStates
    <2> HIDE DEF r, s
    <2>4. HandoffOrder(s)
      BY <1>1, <2>3 DEF HandoffOrder
    <2> QED
      BY <1>2, <2>2, <2>3, <2>4, Unmoved
  <1> QED
    BY <1>5, <1>6, <1>7, <1>8, <1>9 DEF Works

LEMMA StopsMoves ==
    ASSUME SharedInv, NEW p \in Processes, Stops(p)
    PROVE  HandoffOrder(proc'[p]) /\ Move(proc[p], proc'[p])
  <1> DEFINE r == proc[p]
             s == proc'[p]
  <1> SUFFICES HandoffOrder(s) /\ Move(r, s)
    OBVIOUS
  <1>1. /\ Fits(r) /\ r \in ProcessStates /\ HandoffOrder(r)
        /\ proc \in [Processes -> ProcessStates]
    BY DEF SharedInv, Inv, Fits
  <1>2. r.stage # "exited"
    BY StepKeeps DEF Step, SharedInv
  <1>3. r.calls \in Seq(Calls) /\ AtMostOne(r.calls, {"handoff"}) /\ r.stage \in Stages
        /\ r.code \in Nat /\ r.owed \in BOOLEAN
    BY <1>1 DEF ProcessStates, HandoffOrder
  <1>4. firmware' = firmware => Lands(r) /\ Eases
    BY DEF Lands, Eases
  <1>5. CASE Signal(p) \/ UncaughtError(p)
    <2>1. PICK c \in {0, 1} : s = Stop(r, c) /\ firmware' = firmware
      BY <1>1, <1>5 DEF Signal, UncaughtError, Quiet, Becomes
    <2>2. /\ s.stage = (IF r.stage = "up" THEN "drain" ELSE r.stage)
          /\ s.owed = r.owed /\ s.handoff = r.handoff /\ (s.code = 0 => r.code = 0)
          /\ s.calls = r.calls /\ s.fanQueue = r.fanQueue
      BY <1>1, <1>3, <2>1 DEF ProcessStates, Stop, Worse
    <2> HIDE DEF r, s
    <2>3. HandoffOrder(s)
      BY <1>1, <2>2 DEF HandoffOrder
    <2>4. CASE r.stage = "up"
      <3>1. Same(r, s) /\ PhaseOf(r) = "up" /\ PhaseOf(s) = "stopping"
        BY <2>2, <2>4 DEF Same, PhaseOf, HandoffOf
      <3> QED
        BY <1>4, <2>1, <2>3, <3>1 DEF Move
    <2>5. CASE r.stage # "up"
      BY <1>2, <1>4, <2>1, <2>2, <2>3, <2>5, Unmoved
    <2> QED
      BY <2>4, <2>5
  <1>6. CASE \E f \in Families : StopListener(p, f)
    <2>1. s = r /\ firmware' = firmware
      BY <1>6 DEF StopListener
    <2> HIDE DEF r, s
    <2> QED
      BY <1>1, <1>2, <1>4, <2>1, Unmoved
  <1>7. CASE Drained(p) \/ DrainTimesOut(p)
    <2>1. PICK c \in Nat : /\ s = EnterRestore([r EXCEPT !.code = c])
                           /\ firmware' = firmware /\ r.stage = "drain"
      <3>1. r.code \in Nat /\ 1 \in Nat /\ [r EXCEPT !.code = r.code] = r
        BY <1>1 DEF ProcessStates
      <3>2. /\ \/ s = EnterRestore([r EXCEPT !.code = 1])
               \/ s = EnterRestore(r)
            /\ firmware' = firmware /\ r.stage = "drain"
        BY <1>1, <1>7 DEF Drained, DrainTimesOut, Quiet, Becomes
      <3> QED
        BY <3>1, <3>2
    <2>2. /\ \/ s.stage = "restore" /\ s.handoff = "waiting"
             \/ s.stage = "cleanup" /\ s.handoff = r.handoff
          /\ s.owed = r.owed /\ s.calls = r.calls /\ s.fanQueue = r.fanQueue
      BY <1>1, <2>1 DEF ProcessStates, EnterRestore
    <2>3. r.handoff = "none"
      BY <1>1, <2>1 DEF HandoffOrder
    <2> HIDE DEF r, s
    <2>4. HandoffOrder(s)
      BY <1>1, <2>2, <2>3 DEF HandoffOrder
    <2>5. /\ s.owed = r.owed /\ PhaseOf(s) = "stopping" /\ PhaseOf(r) = "stopping"
          /\ HandoffOf(r) = "none" /\ HandoffOf(s) \in {"pending", "none"}
      BY <2>1, <2>2, <2>3 DEF PhaseOf, HandoffOf
    <2> QED
      BY <1>4, <2>1, <2>4, <2>5 DEF Move, Same
  <1>8. CASE HandoffIssues(p)
    <2>1. /\ \/ Closed(r) /\ s = [r EXCEPT !.handoff = "failed"]
             \/ ~Closed(r) /\ s = [r EXCEPT !.handoff = "calling", !.calls = Append(@, "handoff")]
          /\ firmware' = firmware /\ r.handoff = "waiting" /\ r.fanQueue = <<>>
      BY <1>1, <1>8 DEF HandoffIssues, Quiet, Becomes
    <2>2. r.stage \in {"restore", "cleanup"} /\ "handoff" \notin Elements(r.calls)
      BY <1>1, <1>2, <1>3, <2>1 DEF HandoffOrder, Stages
    <2>3. /\ s.stage = r.stage /\ s.owed = r.owed /\ s.code = r.code /\ s.fanQueue = r.fanQueue
          /\ \/ Closed(r) /\ s.handoff = "failed" /\ s.calls = r.calls
             \/ ~Closed(r) /\ s.handoff = "calling" /\ s.calls = Append(r.calls, "handoff")
      BY <1>1, <2>1 DEF ProcessStates
    <2>4. "handoff" \in Calls
      BY DEF Calls
    <2>5. AtMostOne(Append(r.calls, "handoff"), {"handoff"})
      BY <1>3, <2>2, <2>4, AtMostOneOfAppend
    <2> HIDE DEF r, s
    <2>6. HandoffOrder(s)
      <3>1. AtMostOne(s.calls, {"handoff"})
        BY <1>3, <2>3, <2>5
      <3> QED
        BY <1>1, <2>1, <2>2, <2>3, <3>1 DEF HandoffOrder, Closed
    <2>7. PhaseOf(s) = PhaseOf(r) /\ HandoffOf(r) = "pending"
      BY <2>1, <2>3 DEF PhaseOf, HandoffOf
    <2>8. CASE s.handoff = "failed"
      <3>1. HandoffOf(s) = "failed"
        BY <2>8 DEF HandoffOf
      <3> QED
        BY <1>4, <2>1, <2>3, <2>6, <2>7, <3>1 DEF Move
    <2>9. CASE s.handoff = "calling"
      <3>1. HandoffOf(s) = HandoffOf(r)
        BY <2>1, <2>9 DEF HandoffOf
      <3> QED
        BY <1>4, <2>1, <2>3, <2>6, <2>7, <3>1 DEF Move, Same
    <2> QED
      BY <2>3, <2>8, <2>9
  <1>9. CASE RestoreTimesOut(p)
    <2>1. /\ s = [r EXCEPT !.stage = "cleanup", !.code = 1] /\ r.stage = "restore"
          /\ firmware' = firmware
      BY <1>1, <1>9 DEF RestoreTimesOut, Becomes
    <2>2. /\ s.stage = "cleanup" /\ s.owed = r.owed /\ s.handoff = r.handoff /\ s.code = 1
          /\ s.calls = r.calls /\ s.fanQueue = r.fanQueue
      BY <1>1, <2>1 DEF ProcessStates
    <2> HIDE DEF r, s
    <2>3. HandoffOrder(s)
      BY <1>1, <2>2 DEF HandoffOrder
    <2>4. Same(r, s) /\ PhaseOf(s) = PhaseOf(r)
      BY <2>1, <2>2 DEF Same, PhaseOf, HandoffOf
    <2> QED
      BY <1>4, <2>1, <2>3, <2>4 DEF Move
  <1>10. CASE CleanupEnds(p) \/ CleanupTimesOut(p) \/ DeadlinePasses(p) \/ Killed(p)
    <2>1. PICK c \in Nat :
            /\ s = [r EXCEPT !.stage = "exited", !.code = c] /\ CallMayLand(r)
            /\ c = 0 => r.stage = "cleanup" /\ r.calls = <<>> /\ r.code = 0
      <3>1. 1 \in Nat /\ 137 \in Nat /\ r.code \in Nat
        BY <1>3
      <3>2. CASE CleanupEnds(p)
        BY <1>1, <3>1, <3>2 DEF CleanupEnds, Exit, Becomes
      <3>3. CASE CleanupTimesOut(p) \/ DeadlinePasses(p) \/ Killed(p)
        <4>1. PICK c \in {1, 137} : Exit(p, c)
          BY <3>3 DEF CleanupTimesOut, DeadlinePasses, Killed
        <4>2. s = [r EXCEPT !.stage = "exited", !.code = c] /\ CallMayLand(r)
          BY <1>1, <4>1 DEF Exit, Becomes
        <4>3. c \in Nat /\ c # 0
          OBVIOUS
        <4> HIDE DEF r, s
        <4> QED
          BY <4>2, <4>3
      <3> QED
        BY <1>10, <3>2, <3>3
    <2>2. /\ s.stage = "exited" /\ s.owed = r.owed /\ s.handoff = r.handoff /\ s.code = c
          /\ s.calls = r.calls /\ s.fanQueue = r.fanQueue
      BY <1>1, <2>1 DEF ProcessStates
    <2>3. Lands(r)
      BY <2>1, LandingMoves
    <2>4. c = 0 => ~r.owed /\ r.handoff \in {"none", "ok"} /\ firmware' = firmware
      <3>1. ASSUME c = 0
            PROVE  ~r.owed /\ r.handoff \in {"none", "ok"}
        BY <1>1, <2>1, <3>1 DEF Fits, CleanSoFar, HandoffOrder
      <3>2. ASSUME c = 0
            PROVE  firmware' = firmware
        <4>1. DOMAIN r.calls = {}
          BY <2>1, <3>2
        <4> QED
          BY <2>1, <4>1 DEF CallMayLand
      <3> QED
        BY <3>1, <3>2
    <2> HIDE DEF r, s
    <2>5. HandoffOrder(s)
      BY <1>1, <2>2, <2>4 DEF HandoffOrder
    <2>6. Same(r, s)
      BY <2>2 DEF Same, HandoffOf
    <2>7. CASE c = 0
      <3>1. /\ PhaseOf(r) = "stopping" /\ PhaseOf(s) = "clean"
            /\ HandoffOf(r) \in {"none", "done"}
        BY <2>1, <2>2, <2>4, <2>7 DEF PhaseOf, HandoffOf
      <3> QED
        BY <2>4, <2>5, <2>6, <2>7, <3>1 DEF Move
    <2>8. CASE c # 0
      <3>1. PhaseOf(s) = "dirty"
        BY <2>2, <2>8 DEF PhaseOf
      <3> QED
        BY <2>3, <2>5, <2>6, <3>1 DEF Move
    <2> QED
      BY <2>7, <2>8
  <1> QED
    BY <1>5, <1>6, <1>7, <1>8, <1>9, <1>10 DEF Stops

LEMMA SharedInvHolds == Spec => []SharedInv
  <1>1. Init => SharedInv
    <2> SUFFICES ASSUME Init
                 PROVE  SharedInv
      OBVIOUS
    <2>1. \A p \in Processes : proc[p] = NewProcess
      BY DEF Init
    <2>2. HandoffOrder(NewProcess)
      BY ElementsOfEmpty DEF HandoffOrder, NewProcess, AtMostOne
    <2> QED
      BY <2>1, <2>2, InvBegins DEF SharedInv
  <1>2. SharedInv /\ [Next]_vars => SharedInv'
    <2> SUFFICES ASSUME SharedInv, [Next]_vars
                 PROVE  SharedInv'
      OBVIOUS
    <2>1. CASE Next
      <3>1. PICK p \in Processes : Step(p)
        BY <2>1 DEF Next, Step
      <3>2. Inv' /\ \A q \in Processes \ {p} : proc'[q] = proc[q]
        BY <3>1, InvKept, StepKeeps DEF SharedInv
      <3>3. HandoffOrder(proc'[p])
        BY <3>1, StartsMoves, WorksMoves, StopsMoves DEF Step
      <3>4. \A q \in Processes : HandoffOrder(proc'[q])
        BY <3>2, <3>3 DEF SharedInv
      <3> QED
        BY <3>2, <3>4 DEF SharedInv
    <2>2. CASE UNCHANGED vars
      BY <2>2 DEF vars, SharedInv, Inv, ManualHasDebtor, FirstPortIsHeld
    <2> QED
      BY <2>1, <2>2
  <1> QED
    BY <1>1, <1>2, PTL DEF Spec

LEMMA FansAreShared == Spec => Shared!Spec
  <1>1. Init => Shared!Init
    BY DEF Init, NewProcess, PhaseOf, HandoffOf, Shared!Init
  <1>2. SharedInv /\ [Next]_vars => [Shared!Next]_(Shared!vars)
    <2> SUFFICES ASSUME SharedInv, [Next]_vars
                 PROVE  [Shared!Next]_(Shared!vars)
      OBVIOUS
    <2>1. CASE Next
      <3>1. PICK p \in Processes : Step(p)
        BY <2>1 DEF Next, Step
      <3>2. Move(proc[p], proc'[p])
        BY <3>1, StartsMoves, WorksMoves, StopsMoves DEF Step
      <3>3. /\ proc[p].stage # "exited" /\ proc' \in [Processes -> ProcessStates]
            /\ \A q \in Processes \ {p} : proc'[q] = proc[q]
            /\ proc \in [Processes -> ProcessStates]
        BY <3>1, StepKeeps DEF SharedInv, Inv
      <3> QED
        BY <3>2, <3>3, MoveIsShared
    <2>2. CASE UNCHANGED vars
      BY <2>2 DEF vars, Shared!vars
    <2> QED
      BY <2>1, <2>2
  <1> QED
    BY <1>1, <1>2, SharedInvHolds, PTL DEF Spec, Shared!Spec

\* Processes on one machine, however their startups, shutdowns, timeouts and
\* kills overlap: a second start touches no hardware, and all of them share the
\* fans as SharedFans says.
THEOREM ProcessesDoCoexist == Spec => ProcessesCoexist
  BY SecondStartHarmless, FansAreShared DEF ProcessesCoexist

\* What SharedFans alone implies, whatever implements it: manual mode has a
\* debtor, and a process that ended cleanly owes nothing.
THEOREM SharedFansAreAccountedFor == Shared!Spec => []Shared!FansAreAccountedFor
  <1> DEFINE manual == firmware = "manual"
             owed == [p \in Processes |-> proc[p].owed]
             phase == [p \in Processes |-> PhaseOf(proc[p])]
             handoff == [p \in Processes |-> HandoffOf(proc[p])]
             A == /\ owed \in [Processes -> BOOLEAN]
                  /\ manual => \E p \in Processes : owed[p]
                  /\ \A p \in Processes : phase[p] = "clean" => ~owed[p]
  <1>1. DOMAIN owed = Processes /\ DOMAIN phase = Processes
    OBVIOUS
  <1>2. (DOMAIN owed = Processes /\ DOMAIN phase = Processes)'
    OBVIOUS
  <1>3. Shared!Init => A
    BY DEF Shared!Init
  <1>4. A /\ [Shared!Next]_(Shared!vars) => A'
    <2> SUFFICES ASSUME A, [Shared!Next]_(Shared!vars)
                 PROVE  A'
      OBVIOUS
    <2>1. CASE UNCHANGED Shared!vars
      <3>1. UNCHANGED <<manual, owed, phase>>
        BY <2>1 DEF Shared!vars
      <3> HIDE DEF manual, owed, phase
      <3> QED
        BY <3>1
    <2>2. CASE Shared!Next
      <3>1. PICK p \in Processes :
                \/ Shared!Owe(p) \/ Shared!Take(p) \/ Shared!Yield(p) \/ Shared!Stop(p)
                \/ Shared!Attempt(p) \/ Shared!Settle(p) \/ Shared!GiveUp(p)
                \/ Shared!EndCleanly(p) \/ Shared!Die(p)
        BY <2>2 DEF Shared!Next
      <3>2. CASE Shared!Owe(p)
        <4>1. phase[p] = "up" /\ owed' = [owed EXCEPT ![p] = TRUE] /\ UNCHANGED <<manual, phase>>
          BY <3>2 DEF Shared!Owe
        <4> HIDE DEF manual, owed, phase
        <4> QED
          BY <1>1, <4>1
      <3>3. CASE Shared!Take(p)
        <4>1. owed[p] /\ UNCHANGED <<owed, phase>>
          BY <3>3 DEF Shared!Take, Shared!MayTake
        <4> HIDE DEF manual, owed, phase
        <4> QED
          BY <4>1
      <3>4. CASE Shared!Yield(p) \/ Shared!Attempt(p) \/ Shared!GiveUp(p)
        <4>1. (manual' => manual) /\ UNCHANGED <<owed, phase>>
          BY <3>4 DEF Shared!Yield, Shared!Attempt, Shared!GiveUp
        <4> HIDE DEF manual, owed, phase
        <4> QED
          BY <4>1
      <3>5. CASE Shared!Stop(p)
        <4>1. /\ phase' = [phase EXCEPT ![p] = "stopping"]
              /\ (manual' => manual) /\ UNCHANGED owed
          BY <3>5 DEF Shared!Stop
        <4> HIDE DEF manual, owed, phase
        <4> QED
          BY <1>1, <4>1
      <3>6. CASE Shared!Settle(p)
        <4>1. manual' = FALSE /\ owed' = [owed EXCEPT ![p] = FALSE] /\ UNCHANGED phase
          BY <3>6 DEF Shared!Settle
        <4> HIDE DEF manual, owed, phase
        <4> QED
          BY <1>1, <4>1
      <3>7. CASE Shared!EndCleanly(p)
        <4>1. ~owed[p] /\ phase' = [phase EXCEPT ![p] = "clean"] /\ UNCHANGED <<manual, owed>>
          BY <3>7 DEF Shared!EndCleanly
        <4> HIDE DEF manual, owed, phase
        <4> QED
          BY <1>1, <4>1
      <3>8. CASE Shared!Die(p)
        <4>1. /\ phase' = [phase EXCEPT ![p] = "dirty"] /\ UNCHANGED owed
              /\ manual' => manual \/ owed[p]
          BY <3>8 DEF Shared!Die, Shared!MayTake
        <4> HIDE DEF manual, owed, phase
        <4> QED
          BY <1>1, <4>1
      <3> QED
        BY <3>1, <3>2, <3>3, <3>4, <3>5, <3>6, <3>7, <3>8
    <2> QED
      BY <2>1, <2>2
  <1>5. A => Shared!FansAreAccountedFor
    BY DEF Shared!FansAreAccountedFor
  <1> QED
    BY <1>3, <1>4, <1>5, PTL DEF Shared!Spec
=============================================================================
