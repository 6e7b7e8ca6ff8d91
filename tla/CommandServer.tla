--------------------------- MODULE CommandServer ---------------------------
(***************************************************************************)
(* The WebSocket command server: message() and handleMessage() of          *)
(* server/websocket/index.ts.  Requests of every client wait in one queue; *)
(* a mutation drives the hardware, commits to the state object, is saved,  *)
(* broadcast and answered, in that order.                                  *)
(*                                                                         *)
(* Saving is DurableSettings, which ConfigStore implements.  The fan       *)
(* commands are in FanControl; here a driven setting stands for any        *)
(* setting the hardware must accept first, each with its own channel.      *)
(***************************************************************************)
EXTENDS Naturals, Sequences

CONSTANTS
    Clients,
    Stored,      \* settings that are only stored: the curves
    Driven,      \* settings the hardware must accept: power limits, boost
    Values,
    InitialValue,
    Unusable,    \* an absent or invalid configuration file
    Nobody,      \* the sender of a request whose socket is closed
    Nothing,     \* no snapshot, no acknowledgement, or unknown hardware
    MaxQueued,   \* MAX_QUEUED_MESSAGES
    MaxRequests, \* bound on the requests sent
    MaxFaults    \* bound on failures and crashes

Settings == Stored \cup Driven
Snapshots == [Settings -> Values]
DefaultSettings == [s \in Settings |-> InitialValue]

ASSUME ValuesAssumption == InitialValue \in Values /\ Nothing \notin Values
ASSUME SettingsAssumption == Stored \cap Driven = {} /\ "get" \notin Stored \cup Driven
ASSUME ClientsAssumption == Nobody \notin Clients /\ Nothing # Nobody
ASSUME BoundsAssumption == MaxQueued \in Nat \ {0} /\ MaxRequests \in Nat /\ MaxFaults \in Nat
ASSUME UnusableAssumption == Unusable \notin Snapshots

VARIABLES
    server,          \* "up", "stopping" or "off"
    state,           \* the settings of the exported state object
    available,       \* its capability flags, by driven setting
    restartRequired,
    saves, file,     \* DurableSettings: pending snapshots, the file
    device,          \* what the hardware runs
    queue,           \* messageQueue, with the request being handled first
    queuedMessages,
    phase,           \* of the first request: "waiting", "native", "saving"
    openSockets,     \* connected clients
    shown,           \* the last state snapshot on each client's socket
    acked,           \* by setting, the value acknowledged since its last change
    requests, faults

vars == <<server, state, available, restartRequired, saves, file, device, queue,
          queuedMessages, phase, openSockets, shown, acked, requests, faults>>
hardware == <<device, available, restartRequired>>
clients == <<openSockets, shown>>

Store == INSTANCE DurableSettings WITH
    Default <- DefaultSettings, active <- state, pending <- saves, durable <- file

Init ==
    /\ Store!Init
    /\ server = "off"
    /\ available = [s \in Driven |-> FALSE] /\ restartRequired = FALSE
    /\ device = [s \in Driven |-> Nothing]
    /\ queue = <<>> /\ queuedMessages = 0 /\ phase = "waiting"
    /\ openSockets = {} /\ shown = [c \in Clients |-> Nothing]
    /\ acked = [s \in Settings |-> Nothing]
    /\ requests = 0 /\ faults = 0

Fault == faults < MaxFaults /\ faults' = faults + 1

\* buildStateSnapshot() once this step is done.
NextSnapshot == [settings |-> state', available |-> available', restart |-> restartRequired']
Snapshot == [settings |-> state, available |-> available, restart |-> restartRequired]

\* publishState(): setServers([]) has disconnected it during a shutdown.
PublishState ==
    shown' = IF server = "up" THEN [c \in Clients |-> IF c \in openSockets THEN NextSnapshot ELSE shown[c]]
             ELSE shown

\* The first request has ended, and the next may start.
CountDown == queuedMessages' = queuedMessages - 1
RequestEnds == queue' = Tail(queue) /\ phase' = "waiting" /\ CountDown

-----------------------------------------------------------------------------
(* Start, shutdown, death *)

\* Every driven setting is applied from the loaded state, or its capability
\* stays off.
Start ==
    /\ server = "off" /\ server' = "up"
    /\ \E working \in SUBSET Driven :
        /\ available' = [s \in Driven |-> s \in working]
        /\ device' = [s \in Driven |-> IF s \in working THEN state[s] ELSE Nothing]
    /\ restartRequired' = FALSE
    /\ UNCHANGED <<state, saves, file, queue, queuedMessages, phase, clients, acked, requests, faults>>

StartShutdown ==
    /\ server = "up" /\ server' = "stopping"
    /\ UNCHANGED <<state, saves, file, hardware, queue, queuedMessages, phase, clients,
                   acked, requests, faults>>

\* What is left when the process is gone; the next one loads the file.
Gone ==
    /\ server' = "off"
    /\ Store!Restart
    /\ queue' = <<>> /\ queuedMessages' = 0 /\ phase' = "waiting"
    /\ openSockets' = {} /\ shown' = [c \in Clients |-> Nothing]
    /\ UNCHANGED <<hardware, acked, requests>>

Exit == server = "stopping" /\ queue = <<>> /\ Gone /\ UNCHANGED faults

\* A crash, or a shutdown whose drain timed out.
Crash == server # "off" /\ Fault /\ Gone

-----------------------------------------------------------------------------
(* Sockets *)

Open(c) ==
    /\ server = "up" /\ c \notin openSockets
    /\ openSockets' = openSockets \cup {c}
    /\ shown' = [shown EXCEPT ![c] = Snapshot]
    /\ UNCHANGED <<server, state, saves, file, hardware, queue, queuedMessages, phase,
                   acked, requests, faults>>

\* A client leaves, is retired for backpressure, or is closed by shutdown;
\* what it asked for still runs.
Close(c) ==
    /\ c \in openSockets
    /\ openSockets' = openSockets \ {c}
    /\ shown' = [shown EXCEPT ![c] = Nothing]
    /\ queue' = [i \in DOMAIN queue |-> IF queue[i].from = c
                                        THEN [queue[i] EXCEPT !.from = Nobody] ELSE queue[i]]
    /\ UNCHANGED <<server, state, saves, file, hardware, queuedMessages, phase, acked,
                   requests, faults>>

RefusesWhenStopping == server = "stopping"
Refuses == server = "stopping" \/ queuedMessages >= MaxQueued

\* message(): SHUTTING_DOWN, BUSY, or one more request in the queue.
Message(c) ==
    /\ c \in openSockets /\ requests < MaxRequests
    /\ \/ Refuses /\ UNCHANGED <<queue, queuedMessages>>
       \/ /\ ~Refuses
          /\ \E kind \in Settings \cup {"get"}, v \in Values :
                queue' = Append(queue, [from |-> c, kind |-> kind, value |-> v])
          /\ queuedMessages' = queuedMessages + 1
    /\ requests' = requests + 1
    /\ UNCHANGED <<server, state, saves, file, hardware, phase, clients, acked, faults>>

-----------------------------------------------------------------------------
(* handleMessage() of the first request *)

Kind == Head(queue).kind
Driving == Kind \in Driven \cup {"get"}
Starts == server # "off" /\ queue # <<>> /\ phase = "waiting"

\* The state object takes the new value and persistState() its snapshot; what
\* was acknowledged for the setting is history.
CommitSetting ==
    /\ Store!Save([state EXCEPT ![Kind] = Head(queue).value])
    /\ acked' = [acked EXCEPT ![Kind] = Nothing]

\* Refused again when it starts: shutdown, or a lost capability.
RejectedForCapability == Kind \in Driven /\ ~available[Kind]
Rejected == server = "stopping" \/ (Kind \in Driven /\ ~available[Kind])

Reject ==
    /\ Starts /\ Rejected /\ RequestEnds
    /\ UNCHANGED <<server, state, saves, file, hardware, clients, acked, requests, faults>>

StoreSetting ==
    /\ Starts /\ ~Rejected /\ ~Driving
    /\ CommitSetting /\ phase' = "saving"
    /\ UNCHANGED <<server, hardware, queue, queuedMessages, clients, requests, faults>>

CallHardware ==
    /\ Starts /\ ~Rejected /\ Driving /\ phase' = "native"
    /\ UNCHANGED <<server, state, saves, file, hardware, queue, queuedMessages, clients,
                   acked, requests, faults>>

Awaits(p) == server # "off" /\ queue # <<>> /\ phase = p

GetEnds ==
    /\ Awaits("native") /\ Kind = "get" /\ RequestEnds
    /\ UNCHANGED <<server, state, saves, file, hardware, clients, acked, requests, faults>>

HardwareAccepts ==
    /\ Awaits("native") /\ Kind \in Driven /\ available[Kind]
    /\ device' = [device EXCEPT ![Kind] = Head(queue).value]
    /\ CommitSetting /\ phase' = "saving"
    /\ UNCHANGED <<server, available, restartRequired, queue, queuedMessages, clients,
                   requests, faults>>

HardwareRefusalCommitted ==
    /\ Awaits("native") /\ Kind \in Driven
    /\ Fault
    /\ CommitSetting /\ phase' = "saving"
    /\ UNCHANGED <<server, hardware, queue, queuedMessages, clients, requests>>

\* An error, after which the hardware has its old setting or nobody knows.
\* INTERNAL_ERROR, or RESTART_REQUIRED on a channel that has failed.
HardwareRefuses ==
    /\ Awaits("native") /\ Kind \in Driven
    /\ IF available[Kind] THEN Fault ELSE UNCHANGED faults
    /\ \E left \in {device[Kind], Nothing} : device' = [device EXCEPT ![Kind] = left]
    /\ RequestEnds
    /\ UNCHANGED <<server, state, saves, file, available, restartRequired, clients,
                   acked, requests>>

\* reportNativeFailure() for one channel, whatever the queue is doing.
ChannelFails(s) ==
    /\ server # "off" /\ available[s] /\ Fault
    /\ available' = [available EXCEPT ![s] = FALSE] /\ restartRequired' = TRUE
    /\ \E left \in {device[s], Nothing} : device' = [device EXCEPT ![s] = left]
    /\ UNCHANGED state /\ PublishState
    /\ UNCHANGED <<server, saves, file, queue, queuedMessages, phase, openSockets, acked, requests>>

Acknowledge == acked' = [acked EXCEPT ![Kind] = state[Kind]]

SaveSucceeds ==
    /\ Awaits("saving")
    /\ Store!Commit
    /\ UNCHANGED <<server, hardware, openSockets, requests, faults>>
    /\ PublishState /\ Acknowledge /\ RequestEnds

SaveFailsAcknowledged ==
    /\ Awaits("saving") /\ Fault
    /\ Store!Refuse
    /\ UNCHANGED <<server, hardware, openSockets, requests>>
    /\ PublishState /\ Acknowledge /\ RequestEnds

\* PERSISTENCE_ERROR: the new setting stays active and is broadcast.
SaveFails ==
    /\ Awaits("saving") /\ Fault
    /\ Store!Refuse
    /\ UNCHANGED <<server, hardware, openSockets, acked, requests>>
    /\ PublishState /\ RequestEnds

-----------------------------------------------------------------------------
Handling ==
    \/ Reject \/ StoreSetting \/ CallHardware \/ GetEnds
    \/ HardwareAccepts \/ HardwareRefuses \/ SaveSucceeds \/ SaveFails

Next ==
    \/ Start \/ StartShutdown \/ Exit \/ Crash
    \/ \E c \in Clients : Open(c) \/ Close(c) \/ Message(c)
    \/ Handling
    \/ \E s \in Driven : ChannelFails(s)

Spec == Init /\ [][Next]_vars

-----------------------------------------------------------------------------
Requests == [from : Clients \cup {Nobody}, kind : Settings \cup {"get"}, value : Values]

\* Types, and the counter of admitted requests counts them: a request that
\* ends without counting down would in the end leave every client BUSY.
TypeOK ==
    /\ server \in {"up", "stopping", "off"}
    /\ state \in Snapshots /\ file \in Snapshots \cup {Unusable}
    /\ saves \in Seq(Snapshots) /\ Len(saves) <= 1
    /\ available \in [Driven -> BOOLEAN] /\ restartRequired \in BOOLEAN
    /\ device \in [Driven -> Values \cup {Nothing}]
    /\ queue \in Seq(Requests) /\ queuedMessages = Len(queue) /\ Len(queue) <= MaxQueued
    /\ phase \in {"waiting", "native", "saving"}
    /\ openSockets \subseteq Clients
    /\ acked \in [Settings -> Values \cup {Nothing}]

\* No client is left with an old picture: between two mutations the last
\* snapshot on every socket is the state, whichever request changed it,
\* whether it could be saved or not, and whichever channel failed meanwhile.
SnapshotsAreCurrent ==
    server = "up" /\ phase # "saving" => \A c \in openSockets : shown[c] = Snapshot

\* An acknowledged setting survives every crash until a newer one replaces it.
AcknowledgedSurvives ==
    \A s \in Settings :
        acked[s] # Nothing => file \in Snapshots /\ file[s] = acked[s] /\ state[s] = acked[s]

\* The state object never claims a setting the hardware did not accept.
StateFollowsHardware ==
    server # "off" => \A s \in Driven : device[s] \in {state[s], Nothing}

\* What the clients are shown is the state, and the state is what the hardware
\* accepted.
ClientsSeeHardware == SnapshotsAreCurrent /\ StateFollowsHardware

\* Shutdown starts nothing: nothing is admitted, and of what was admitted only
\* the call in progress may still commit.  So the promise that the shutdown
\* waits for covers all work there is.
ShutdownStartsNothing ==
    [][server = "stopping" /\ server' = "stopping"
        => /\ Len(queue') <= Len(queue)
           /\ phase = "waiting" => phase' = "waiting" /\ UNCHANGED <<state, saves, file>>]_vars
=============================================================================
