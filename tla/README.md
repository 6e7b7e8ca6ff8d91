# TLA+ development for alfc

alfc is a privileged local server that drives the fans, the CPU power limits and
the GPU boost of Gigabyte laptops through WMI (Windows) or `acpi_call` and RAPL
(Linux). A browser page and two desktop widgets are its clients. This directory
models the server down to its native calls and two of its clients: TLA+ modules
checked by TLC on small instances, and theorems about them proved with TLAPS.
Paths below are relative to the repository root.

## 1. The system

| Component | Source | State | Operations | What makes it correct |
|---|---|---|---|---|
| Fan controller | `server/fan-control/index.ts` | remembered speed, ramp counters, averages, manual-write version, write queue, the debt to the BIOS | take-over, 1 s collection cycle, 5 min reassertion, commands, handoff | the remembered speed is on the fans; the BIOS gets them back and keeps them |
| Curves and ramp | same, `common/validation.ts` | none | table lookup, shared target, ramp step, duty | threshold steps; the fail-hot speed covers every target |
| Server lifecycle | `server/index.ts`, `server/listeners.ts`, `server/native/index.ts` | readiness, shutdown promise, exit code, listeners | start, bind both loopback ports, initialize, staged shutdown | two servers never fight; exit code 0 means the BIOS has the fans |
| Persisted settings | `server/state/index.ts` | `state`, save queue, two files | load, save | a file is one whole snapshot; saves commit in order |
| WebSocket commands | `server/websocket/index.ts` | message queue and its counter | admit, handle, commit, save, broadcast, answer | acknowledged means durable; sockets show the current state |
| WebSocket output | same | open sockets, one timer | reply, broadcast, check backpressure | slow sockets are retired, others miss nothing |
| Windows hardware channels | `server/native/windows/hardware*.ts`, `server/native/index.ts` | two call queues, pending requests, latched failures, worker threads | request, reply, timeout, failure, cleanup | calls settle once; a failed channel starts nothing |
| Native adapters | `server/native/linux/acpi.ts`, `server/native/windows/acpi.ts`, `cpuoc.ts`, `WmiOutput.h` | the library, its latches, shared result buffers | encode, call, decode, initialize with retries, clean up | arguments and answers are carried faithfully; a library in doubt is left alone |
| Linux CPU tuning | `server/native/linux/cpuoc.ts` | found zone, poisoned error | initialize, tune, roll back | a tune applies whole, undoes whole, or poisons the adapter |
| Web page, connection | `frontend/src/utils/WebSocketProvider.tsx`, `backendRequests.ts`, `webSocketTransport.ts` | the socket in use, two timers, pending requests, React state | socket events, timers, requests | what the page says of a command is true; it recovers |
| Web page, forms | `frontend/src/utils/useWebSocket.ts`, `containers/` | drafts, pending ids | edit, submit | edits survive broadcasts; forms are enabled again |
| Web page, fan table editor | `containers/FanTableEditor.tsx`, `FanTable.tsx`, `utils/fanTable.ts`, `utils/misc.ts` | rows as typed | insert, remove, add, type, submit | it sends exactly the curves the server accepts |
| Plasma widget | `plasmoid/package/contents/ui/` | one reopened socket, five timers, pending requests, waiting forms | socket events, timers, requests | each request is reported once; nothing waits without a deadline |
| HTTP, permissions | `server/http.ts`, `server/permissions.ts` | none | route one request; one test at start | pure; not modelled |
| Omarchy module | `omarchy/` | as the widget, without requests | show | not modelled |
| Installers, CI, harness | `bootstrap/`, `aur/`, `integration/`, `.github/` | files, services | install, upgrade, remove | not modelled |

How they interact: a client message enters one queue shared by all sockets; its
handler awaits a native call, changes `state`, awaits a save, then broadcasts.
Fan commands share the fan-write queue with the timers of the controller, and
all of them share the native call queue with sensor reads. A failure of the
native channel switches capability flags under all of them. A shutdown sets flags
that each queue reads when its next job starts, waits for the queues, gives the
fans back and cleans up, each stage under a timeout. The clients see snapshots,
telemetry and replies, on sockets that come and go.

The hard behaviour on the server is in the awaits: almost every handler reads
state, awaits a call that can fail, hang or be overtaken, and writes state. In
the clients it is in events of a connection that is no longer the one the user
sees: late replies, timers of replaced sockets, renders behind the refs.
`PROJECT.json` lists these places as hazards, each with its line.

## 2. Modules

```
FanCurve                      pure arithmetic of curves, ramps and duties
  FanCurveProofs              lemmas and theorems for every curve
  FanTableEditor              the page's editor of one curve
    MCFanCurve                bounded inputs and the reference definition of both
      FanTableEditorProofs    (with FanCurveProofs)
FanControl                    the controller, the command handler, the call queue
  FanControlInvariant         its two inductive invariants, Inv and OutputInv
    FanControlHandoff         refines FanHandoff, the abstract promise about the BIOS,
                              and with it SharedFans for a single process
      MCFanControl            small curves and measurements
  FanControlHistory           two history variables and what they imply, HistoryInv
    MCFanControlHistory
    FanControlProofs          (with FanControlHandoff)
SharedFans                    abstract: several processes, one firmware
  ServerLifecycle             implements it: processes, ports, stages; one call per
                              fan operation
    MCServerLifecycle
    ServerLifecycleProofs
DurableSettings               abstract: settings, pending snapshots, durable file
  ConfigStore                 implements it, one action per file system call
    MCConfigStore
    ConfigStoreProofs
  CommandServer               uses it: queue, commit, save, broadcast, answer
SocketOutput                  what CommandServer sends, message by message
    MCCommandServer           CommandServer, or SocketOutput
      CommandServerProofs     of both
HardwareChannels              the queues and workers above the adapters
    MCHardwareChannels        bounds, and names that leave room for RaplTune's
NativeAdapters                encoding, decoding and the life of a library
RaplTune                      power limits of Linux
    MCNativeAdapters          NativeAdapters, or RaplTune
      NativeProofs            of both, and of HardwareChannels
WebClient                     the page's connection and forms
PlasmaConnection              the widget's connection and forms
    MCWebClient               WebClient, or PlasmaConnection
      WebClientProofs         of both
```

Four MC modules check two specifications that share nothing: a behaviour is one
of the first or one of the second, which a variable or the initial state
decides. Nothing is composed there; it is one run for two small questions about
the same layer.

Three abstract specifications tie layers together. `FanHandoff` says what the rest
of the server may rely on: the fans leave the BIOS only under a remembered debt,
the debt is dropped only with the BIOS in control, and nothing follows a handoff
that is done. `FanControl` implements it under the mapping in
`FanControlHandoff`. `SharedFans` says the same of several processes on one
machine, each of which may be killed with a call in progress, and adds that only a
process without debts ends cleanly. `ServerLifecycle`, with one call where the
controller makes four, implements it for any number of processes, and so does
`FanControl` for one: the two levels keep the same promise. `DurableSettings` is implemented by `ConfigStore` and is
the store `CommandServer` runs on.

### FanControl and FanCurve

An action is one promise job, one native call that settles, one timer or one
command. Promise jobs have priority over events (`Quiescent`), as in the event
loop. `nativeCalls` is the FIFO of `enqueueAcpiCall`; a call takes effect when
it settles, and a failing one may have had its effect or not (`Outcomes`). A
call may take any time, which covers the get and set requests of clients that
share the queue. `runId` changes only when `fanControl()` is called a second
time, which the server never does, so the shutdown flag stands for both tests of
the code. Percentages are integers. `setFixedFan` has no caller in the server
and is left out. The write a cycle awaits is found again under `cycleThen`, the
code after the await. A firmware revert flips the mode and keeps the duty.
`ShutdownRestores` may come at any time after shutdown began, because the drain before
it may time out. The delay of a save after a command is not modelled here (the
command server has it).

`FanControlHistory` observes, without constraining a step, how many consecutive
cycles have measured cooling and whether a saved curve is still to be used.

### FanTableEditor

The rows are what the inputs hold, numbers or `Blank`, which `Number()` turns
into zero. Neighbouring integers stand for neighbouring IEEE doubles as well:
the midpoint of two of them is one of them, which is the case `fanTable.ts`
guards against. `Buttons` and `Types` are separate because the promise is about
the buttons.

### ServerLifecycle

A process is a record: its run phase, initialization phase, fan-write queue,
native calls, shutdown stage, handoff and exit code. Timeouts, failing calls, a
dying channel and kills are bounded faults that may strike at any time. The
ports are released when the shutdown starts, as in the code, so a new process
may initialize before its predecessor's handoff lands; that overlap is in the
model. In `FanControl` it is `FirmwareReverts`, and `ControlIsReasserted` says
that the new process takes the fans back within its five minutes.
`SharedFans` (a process's stage, debt and handoff, and the firmware's mode) is
what the overlapping processes promise each other. A take-over may land
after its caller gave up, even as its process dies, but never behind that
process's own handoff.

### ConfigStore, CommandServer, SocketOutput

`ConfigStore` has one action per file system call of `writeSnapshot`, failing
calls, a dying process, and other programs that put links, directories or
read-only files at the two paths between saves. Both POSIX and Windows rules for
read-only files are possible outcomes. Loss of power is excluded, as
`common/PROTOCOL.md:187-188` does: there is no fsync.

`CommandServer` handles one request at a time: waiting, in its native call, in
its save. One stored setting stands for the curves and one driven setting for
tune and boost; a message that does not validate is a request that changes
nothing. `shown` is the last snapshot sent to a socket; replies are modelled by
what they acknowledge.

`SocketOutput` keeps the event loop's queue of flushes and checks. A message is
one unit and `Limit` units are `MAX_BACKPRESSURE_BYTES`.

### HardwareChannels, NativeAdapters, RaplTune

`HardwareChannels` has the two queues of `native/index.ts`, the pending map,
messages on the way to and from the worker, and native calls that may never
return. A request that timed out in the CPU channel may still run later in its
worker, which is kept because its library cannot be unloaded: that is the code's
behaviour, and `FailureStopsCalls` states exactly this exception.

`NativeAdapters` has what happens inside one call: arguments ordered by the
signature, packed as digits into the machine word of `acpi_call` on Linux or
passed as names and values on Windows; results as an integer, a buffer, or
fields in any order that `PackWmiOutputFields` sorts, in buffers that outlive a
call. It also has the life of a library: opened, initialized with two retries
two seconds apart, poisoned by a timeout, closed by the cleanup. The cleanup may
come at any time, although the server waits for an initialization it knows of:
the adapters' own checks are meant to hold without that.

`RaplTune` has one action per write to the driver and per group of reads. The
driver may refuse, clamp, fail or be changed by others.

### WebClient

One action per event the browser dispatches. Refs and maps change at once;
React state is shown by the next `Render`, so a click meets a view that may be
behind the refs. `Sockets` are numbered in the order they are created; events of
a replaced socket still come. Two forms stand for all: one with a draft, and a
button. The server appears as the messages it sends: a snapshot on opening and
after each change, replies, and as faults no snapshot, an invalid one, or
a lost connection of which any prefix of the commands was read. `validated`,
`rejected` and `edit` are history variables.

### PlasmaConnection

One action per handler of `BackendConnection.qml`, whose socket is opened again
rather than replaced, and whose results are signals with an id. `reconnect()`
and the handler of a closed socket do the same to what is modelled
(`StartOver`). A cancelled attempt may stay in Connecting without a
notification, and the peer may begin to close without ending it; both are
Qt's behaviour that the code's comments name. `freshnessTimer` and
`pongWatchdog` run whenever `keepaliveTimer` does and share its variable. `silent`
is a peer that answers nothing any more.

## 3. Runs

| Run | Question | Bounds, and why they are enough |
|---|---|---|
| `fan_curve` | Is a target the threshold step of the curves, is fail-hot the highest target, is every ramp over in five steps? Does the editor send exactly what the server accepts? | all pairs of valid tables of up to three entries over three temperatures and speeds; all 101 x 101 ramps, complete; three edits of tables with neighbouring temperatures, both ends of the range, and blank or wrong cells |
| `fan_safety` | Does what the process remembers agree with the fans and the firmware under failing calls, commands and shutdown? | one curve, one command, two sample sets per cycle, two faults: one to break a multi-call operation, one to break its repair; sensor faults unbounded; no waiting between ramp steps, which only delays writes |
| `fan_cooling` | Is a step down earned, a saved curve used, the fixed mode left alone? | two curves, two measurements, two commands: into a mode and out of it within one two-sample cycle |
| `fan_new_curve` | The finding, see section 5 | one command |
| `fan_auto_liveness` | Is the curve reached, the manual mode reasserted, the handoff attempted? | two measurements, one fault, one command |
| `fan_fixed_liveness` | Is every command answered, the fixed speed repaired with all sensors failing? | starts in fixed mode; two percentages, so that a failed change of the pinned speed leaves the fans elsewhere; one command, one fault |
| `lifecycle` | What does exit code 0 mean, who holds the fans, is a second start harmless, do the processes implement `SharedFans`? | two processes, both address families, two faults; a failed take-over and its failed undo need both. The slowest run, about two and a half minutes |
| `config_store` | Does the store implement `DurableSettings`, keep modes and foreign files, recover from leftovers? | two snapshots, two queued saves, two faults, two edits |
| `commands` | Do clients see what the hardware has, are acknowledgements durable, does shutdown start nothing? Or: is a quiet server free of sockets over the limit? | two clients, two queue places, three requests (one more than the queue), two faults; output limit two, six messages |
| `hardware` | Do calls settle exactly once and failed channels stay quiet? | three calls over two channels, so that one waits behind another |
| `native_adapters` | Are arguments and answers carried faithfully, is a library in doubt left alone? Or: are the limits those of the last success unless the adapter is poisoned? | bytes of two values and words of two bytes, so that three arguments do not fit; signatures with one and two byte results; every order of the arguments and objects no method takes; four calls, one more than the attempts to initialize; two power values, two tunes, three faults |
| `web_client` | Is what the page says of a command true, do edits survive, does it recover? Or: does the widget report each request once, have a deadline for whatever it waits for, and recover? | page: four sockets, one pending request at a time, and six budgets of up to three disturbances (faults, changes by others, commands, a StrictMode remount); widget: two requests of which one may be pending, two faults, one change |

Every property of a passing run has a mutant in `PROJECT.json`, a plausible bug
in the mapped definition that makes TLC find the property violated. Deadlock
checking is off where the system may stop (a finished shutdown, a run that used
up its bounds); `config_store` never stops and checks it.

A property may be a conjunction of named parts that answer one question:
`ClientsSeeHardware` (the sockets show the state, and the state is what the
hardware accepted), `FansAreNotAbandoned`, `ProcessesCoexist`, `HandoffIsKept`,
`CurveIsFollowed`, `CallsAreFaithful`, `WidgetKeepsTrack`.

### Fairness

Safety runs assume none. `fan_auto_liveness` and `fan_fixed_liveness` assume
that promise jobs run and native calls settle (the Windows channel times out,
the Linux call is a synchronous file access), that a shutdown reaches its
restore stage (the drain before it has a timeout), and strong fairness of the
intervals: an interval that goes off while a cycle is in flight goes off again.
No fairness is assumed of sensors answering, of commands, faults or shutdown.
`config_store` assumes that file system calls end. `hardware` assumes that
posted messages are handled and that timers fire, and nothing of native calls.
`web_client` assumes that the browser and Qt dispatch the events of a socket
and run timers, that `react-use-websocket` reconnects when it was told to, and that
a server that is up accepts and sends its snapshot; it assumes nothing of
replies, so every request has to settle by its timeout or its connection.

## 4. Proofs

Every safety invariant and action property of the passing runs is a theorem for
every value of the constants. The only premises are the named assumptions on the
constants, which TLC evaluates in the runs: valid curves and percentages, at least
one sample per cycle, method signatures of the catalog's types, bounds that are
numbers, and model values that stand for "nothing" and are not among the values. No theorem depends on a bound: every number of
processes, sockets, requests, cycles and faults is covered.

In almost no case is the property itself inductive. What each needed:

**Curves** (`FanCurveProofs`, `FanTableEditorProofs`). For every valid curve and
temperature the target is a percentage not above the fail-hot speed
(`TargetBelowHighest`) and the threshold step (`ThresholdStep`); a ramp step
lies between the present output and the target (`GradientBetween`); the
duty grows with the percentage (`DutyIncreasing`). `CurveFollowed` puts them
together for `CurveIsFollowed`. Its invariant bounds the gap by the
steps taken: 100, 50, 25, 12, 6, 0, because a step halves the gap and closes
one of less than ten.
`PageAgreesAlways` and `ButtonsKeepValid` hold for tables of every length. The
page checks neighbouring rows and the server compares each with the one before,
so the argument goes through `Ordered`, all pairs of rows ascending, which holds
of the rows exactly when the page accepts them and which an insertion, a removal
or an addition preserves.

**Fan controller** (`FanControlProofs`). "The remembered speed is on both fans"
survives a step only if one knows which call of the head write is outstanding,
that at most one write has started, and that no other call in the native queue
changes a duty. `Inv` says so in named parts: the shape of the native queue, the
link between `fanStep` and the call outstanding, who may own a queued write, how
far each restore has come and what the firmware mode can be meanwhile. From it
follow `ConfirmedSpeed`, `SensorReadsDoNotPileUp`, `ManualModeRemembered`,
`HandoffFinal`, `HandoffKept` and `ShutdownOnlyRestores`.
`HandoffIsKeptAbstractly` is the refinement: the initial state is one of
`FanHandoff`, and each action maps to a step of it or a stutter. A step of
`FanHandoff` is one of `SharedFans` with a single process (`ControllerSharesFans`).
`FixedModeHolds` and `TelemetryTrue` need a second invariant, `OutputInv`,
because a write is decided long before it is carried out: it says of every
queued write what it will leave on the fans relative to the settings and the
command in progress, that a write which a command overtook is recognized as such,
and that between the end of a write and its caller's continuation the fans still
have its speed. `RampDownEarned` and `NewCurveApplied` speak of the history
variables; `HistoryInv` ties them to the loop's own counters (the ramp counter is
covered by the cooling cycles, or is about to be discarded; a saved curve that no
cycle has used is not the previous one).

**Lifecycle** (`ServerLifecycleProofs`). What a process that serves or has ended
may claim depends on how far its startup and its shutdown had got when they
crossed. `Fits` says it of one process: each phase of initialization and each
shutdown stage with what may then be queued, called and owed. Two facts relate
the processes: manual firmware has a debtor (`ManualHasDebtor`), and whoever has
begun to initialize holds the first port until it stops (`FirstPortIsHeld`).
`FansNotAbandoned`, `WaitersAreServed` and `SecondStartHarmless` follow, for any
number of processes that overlap. The refinement of `SharedFans`
(`ProcessesDoCoexist`) needs one more, `HandoffOrder`: a handoff is made behind
every fan operation of its process, once, and the exit code knows how it ended.
Then each action of a process is one of eight moves (`Move`), and each move a step
of `SharedFans` or none (`MoveIsShared`). `SharedFansAreAccountedFor` shows what the
abstract specification alone gives whatever implements it: manual mode has a
debtor, and who ended cleanly is none.

**Settings** (`ConfigStoreProofs`). `StoreIsDurable`: the file calls of a save,
with every failure, crash and edit, implement `DurableSettings`; the rename is
the commit and every other step a stutter. The calls go to a path, so the
invariant says what a save knows about what it reaches: from the inspection on the
staged file is its own and no link, from the chmod on it has the mode of the
settings, before the rename it holds the oldest snapshot that waits. The same
invariant gives `SettingsOnly`.

**Commands and output** (`CommandServerProofs`). What is shown, acknowledged or
driven is settled in the last step of a request. `Inv` says what the steps
before leave behind: the phase agrees with the head of the queue, whose sender may have
gone, and the only pending snapshot is the state itself. From it `TypeCorrect`
(the admission counter is exact), `ClientsSee`, `AcknowledgedIsDurable`,
`ShutdownIsFinal`, and `StoreIsDurableSettings`: the command server uses the
store as `DurableSettings` allows, which closes the chain to the file calls.
`QuietServed` is about the output: there is at most one check, it is behind
every flush, it exists while a socket is remembered, and whatever a live socket was
sent is still to be flushed or checked.

**Native layer** (`NativeProofs`). `LimitsAreProgrammed` speaks of the adapter at
rest; its invariant says what each step of a tune relies on: the driver is
untouched up to the first write, `previous` holds the programmed limits from
then on, and a rollback has at least the error that caused it, so that a clean
check really found the old limits. `PoisonedForGood` follows.
`LibraryLeftAlone` needs the combinations of flags a library can have while an
initialization waits for its next attempt (`LibraryInv`).
`CallsFaithful` holds for every list of signatures of the catalog's types, every
object of arguments, every size of byte, word and buffer. Its argument is about data:
`Number` and `Power` are defined by recursion, and each fact about them
(`TotalSteps`, `PowerSteps`, `LowIsBounded`, `HighIsMultiple`) is an induction
written with the set of the lengths it holds for (`UpTo`), because the library's
induction theorems cannot be instantiated here. From them: the bytes of a word
that fits are those packed into it (`UnpackedIsPacked`), a named parameter gets
the value of its name (`NamedIsInOrder`), the fields WMI lists in any order are
packed in their own (`PackedIsBytes`, because an increasing map of 1..n into itself
is the identity), the packed bytes are the number that was meant
(`BytesAreMeant`), and buffers of an earlier call are never decoded
(`WrittenDecodes`, on `EmptyResults`).
`ChannelsHold` is the invariant of the Windows channels under arbitrary timeouts,
late replies and worker deaths: a queued call is in one place and has not
settled, a pending request is the running call or the cleanup, a WMI worker
has at most one request, which waits for its reply all the while, and what a CPU
worker still takes after a failure was given up. `CallsSettleOnce`,
`FailuresStopCalls` and `WorkersStopQuietly` follow.

**Clients** (`WebClientProofs`). `OutcomesHonest`, `TelemetryWatched`,
`CommandsAfterSnapshot` and `EditsKept` of the page each need their own strengthening.
`Honest` follows a command from the request to the reply: what is on its way or
carried out was not reported as unsent, and a success on its way is of a command
that was carried out; it holds for replaced sockets too, which is why the late
reply of one is harmless. `ConnectedBySnapshot` says that a page that calls itself
connected does so for the socket in use, after a valid snapshot of that socket.
`EditKept` ties the edit to the draft shown and to the field as both the last
snapshot and the last render had it. `WidgetTracks` is the widget's promise;
`WidgetInv` adds that a success on its way is of a request that was carried out,
and that an expected first reading is timed also while the connection is down.

**What keeps liveness alive.** Liveness itself stays with TLC, but its safety
half does not: nobody is left waiting for something that is not under way.
`WaitsAreServed` says that the write of every waiting caller is queued or has
settled, that a begun write, a restore and a sensor read each have a native call
out, and therefore that while anyone waits some promise job can run or some native
call can settle. `CallsDoNotHang` says that a call which has not settled is in its
queue, and that the running one has a timer, as has the request of the cleanup.
`PageTries` says that the page always has an open connection, one in the making or
one whose loss it will hear of, and a timer on a connection without settings; and
`FormsWaitForPending` that the forms wait for exactly the requests that have not
settled, and for none while disconnected. What TLC adds in the liveness runs is that
the fair steps these name do end the wait. (`PageTries` and `FormsWaitForPending`
speak of any number of requests, so the model value for `null` must not be a number,
`RequestIdsAssumption`.)

Only model-checked:

- Liveness: `CurveIsReached`, `ControlIsReasserted`, `HandoffIsAttempted`,
  `CommandIsAnswered`, `FixedModeRecovers`, `SavesRecover`, `EveryCallSettles`
  and `ClientsRecover`. The proof system handles neither fairness nor ENABLED.

## 5. Finding

`fan_new_curve`. `ARCHITECTURE.md:304-305` says that a saved curve is applied by
the next automatic cycle without ramping, and `common/PROTOCOL.md:123` that the
next cycle uses its target. The cycle awaits its direct write and then copies the tables from `state`
into `prevCPUFanTable` and `prevGPUFanTable` (`server/fan-control/index.ts:526`).
A table saved during that await is taken for one that was applied, so the next
cycle compares it with itself and ramps or waits. `NewCurveIsApplied` holds for
every other curve and is checked in `fan_cooling`.

## 6. Not modelled

- The HTTP handler is a function of one request, and the privilege check one
  test whose outcome `ServerLifecycle` has as an action; their unit tests reach
  every case.
- The COM calls of `WmiDll.cpp` and the .NET code of CPUOC: foreign code
  below the adapters, which appear as their outcomes (success, wrong or missing output,
  failure, timeout).
- The raw call form, the status display and the update notice of the page show
  state and keep none that another part relies on. The range check of a typed number
  and the layout of the other forms are left out.
- The widget's curve editor repeats the page's, and its other files are views.
  Its menu sends a mode request for which no form waits.
- The Omarchy module is a read-only client with the connection logic of the
  widget and no requests.
- Installers, services, build scripts, CI and the test harnesses: files copied
  once by an administrator, or no behaviour at run time.

Limits of what is modelled:

- Other programs touch the configuration files only between saves.
- In `ServerLifecycle` a fan operation is one call; what happens between its
  calls is checked in `FanControl`.
- Fan percentages and temperatures that are not integers are left out, except as
  far as neighbouring integers stand for neighbouring doubles in the editor.
- `HardwareChannels` does not model two adapters' initial probing, which the
  lifecycle has as one step.
- Messages that a client ignores (not JSON, of another kind) are left out.

## 7. Plan

1. The safety half of the remaining liveness property, `SavesRecover`: which
   leftover of an interrupted save may still be in the way of the next one.
2. `HandoffIsAttempted` for the lifecycle: what each stage of the orderly shutdown
   waits for, beside `WaitersAreServed`.
