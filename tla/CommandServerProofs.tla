------------------------ MODULE CommandServerProofs ------------------------
(***************************************************************************)
(* Theorems about CommandServer, for any number of clients, settings,      *)
(* requests and faults.                                                    *)
(*                                                                         *)
(* What is shown, acknowledged or driven is settled in the last step of a  *)
(* request, so the invariant has to say what the steps before have left:   *)
(* the snapshot being saved is the state itself, nothing else is pending,  *)
(* and the phase agrees with the request at the head of the queue, which   *)
(* may have lost its sender meanwhile.                                     *)
(***************************************************************************)
EXTENDS MCCommandServer, SequenceTheorems, TLAPS

StateSnapshots ==
    [settings : Snapshots, available : [Driven -> BOOLEAN], restart : BOOLEAN]

Types == TypeOK /\ shown \in [Clients -> StateSnapshots \cup {Nothing}]

\* The phase is that of the head request; one snapshot is pending while it is
\* saved, and it is the whole state.
RequestInProgress ==
    /\ phase # "waiting" => queue # <<>>
    /\ phase = "native" => Driving
    /\ phase = "saving" => Kind \in Settings
    /\ saves = IF phase = "saving" THEN <<state>> ELSE <<>>

NothingWhenOff ==
    server = "off" => openSockets = {} /\ queue = <<>> /\ phase = "waiting"

Inv ==
    /\ Types /\ RequestInProgress /\ NothingWhenOff
    /\ AcknowledgedSurvives /\ StateFollowsHardware /\ SnapshotsAreCurrent

-----------------------------------------------------------------------------
(* The message queue *)

LEMMA KindOfHead ==
    ASSUME Types, queue # <<>>
    PROVE  Head(queue) \in Requests /\ Kind \in Settings \cup {"get"} /\ Head(queue).value \in Values
  <1>1. Head(queue) \in Requests
    BY HeadTailProperties DEF Types, TypeOK
  <1> QED
    BY <1>1 DEF Requests, Kind

\* A request that ends makes room for the next.
LEMMA QueueAdvances ==
    ASSUME Types, queue # <<>>, RequestEnds
    PROVE  /\ queue' \in Seq(Requests) /\ queuedMessages' = Len(queue') /\ Len(queue') <= MaxQueued
           /\ Len(queue') <= Len(queue) /\ phase' = "waiting"
  <1>1. /\ queue \in Seq(Requests) /\ queuedMessages = Len(queue) /\ Len(queue) <= MaxQueued
        /\ queue' = Tail(queue) /\ queuedMessages' = queuedMessages - 1 /\ phase' = "waiting"
    BY DEF Types, TypeOK, RequestEnds, CountDown
  <1>2. /\ Tail(queue) \in Seq(Requests) /\ Len(Tail(queue)) = Len(queue) - 1
        /\ Len(queue) \in Nat
    BY <1>1, HeadTailProperties, LenProperties
  <1> QED
    BY <1>1, <1>2, BoundsAssumption

\* A socket that closes takes its name off its requests and nothing else.
LEMMA QueueLosesSender ==
    ASSUME Types, NEW c \in Clients, Close(c)
    PROVE  /\ queue' \in Seq(Requests) /\ Len(queue') = Len(queue)
           /\ queue # <<>> => queue' # <<>> /\ Kind' = Kind
           /\ queue = <<>> => queue' = <<>>
  <1> DEFINE Renamed(i) == IF queue[i].from = c THEN [queue[i] EXCEPT !.from = Nobody] ELSE queue[i]
  <1>1. queue \in Seq(Requests) /\ Len(queue) \in Nat /\ DOMAIN queue = 1 .. Len(queue)
    BY LenProperties DEF Types, TypeOK
  <1>2. queue' = [i \in 1 .. Len(queue) |-> Renamed(i)]
    BY <1>1 DEF Close
  <1>3. ASSUME NEW i \in 1 .. Len(queue)
        PROVE  Renamed(i) \in Requests /\ Renamed(i).kind = queue[i].kind
    <2>1. queue[i] \in Requests
      BY <1>1, ElementOfSeq
    <2> QED
      BY <2>1 DEF Requests
  <1>4. queue' \in Seq(Requests) /\ Len(queue') = Len(queue)
    <2> HIDE DEF Renamed
    <2>1. queue' \in Seq(Requests)
      BY <1>1, <1>2, <1>3, IsASeq
    <2> QED
      BY <1>1, <1>2, <2>1
  <1>5. ASSUME queue # <<>> PROVE queue' # <<>> /\ Kind' = Kind
    <2>1. Len(queue) >= 1 /\ Head(queue) = queue[1]
      BY <1>1, <1>5
    <2>2. Head(queue') = queue'[1] /\ queue'[1] = Renamed(1) /\ queue' # <<>>
      BY <1>1, <1>2, <1>4, <2>1
    <2>3. Renamed(1).kind = queue[1].kind
      BY <1>1, <1>3, <2>1
    <2> QED
      BY <2>1, <2>2, <2>3 DEF Kind
  <1>6. queue = <<>> => queue' = <<>>
    BY <1>4
  <1> QED
    BY <1>4, <1>5, <1>6

\* An admitted request goes behind the one being handled.
LEMMA QueueGrows ==
    ASSUME Types, NEW c \in Clients, Message(c)
    PROVE  /\ queue' \in Seq(Requests) /\ queuedMessages' = Len(queue') /\ Len(queue') <= MaxQueued
           /\ queue # <<>> => queue' # <<>> /\ Kind' = Kind
           /\ server = "stopping" => queue' = queue
  <1>1. /\ queue \in Seq(Requests) /\ queuedMessages = Len(queue) /\ Len(queue) <= MaxQueued
        /\ Len(queue) \in Nat
    BY LenProperties DEF Types, TypeOK
  <1>2. CASE UNCHANGED <<queue, queuedMessages>>
    BY <1>1, <1>2 DEF Kind
  <1>3. CASE ~UNCHANGED <<queue, queuedMessages>>
    <2>1. /\ ~Refuses /\ queuedMessages' = queuedMessages + 1
          /\ \E kind \in Settings \cup {"get"}, v \in Values :
                queue' = Append(queue, [from |-> c, kind |-> kind, value |-> v])
      BY <1>3 DEF Message
    <2>2. PICK r \in Requests : queue' = Append(queue, r)
      BY <2>1 DEF Requests
    <2>3. queue' \in Seq(Requests) /\ Len(queue') = Len(queue) + 1 /\ queue' # <<>>
      BY <1>1, <2>2, AppendProperties
    <2>4. queue # <<>> => Head(queue') = Head(queue)
      BY <1>1, <2>2, HeadTailAppend
    <2>5. queuedMessages < MaxQueued /\ server # "stopping"
      BY <1>1, <2>1, BoundsAssumption DEF Refuses
    <2> QED
      BY <1>1, <2>1, <2>3, <2>4, <2>5, BoundsAssumption DEF Kind
  <1> QED
    BY <1>2, <1>3

-----------------------------------------------------------------------------
(* Committing a setting, and showing the state *)

\* The new state is the only pending snapshot, and nothing is claimed about
\* the durability of the setting that changed.
LEMMA CommitStep ==
    ASSUME Inv, queue # <<>>, Kind \in Settings, phase # "saving", CommitSetting
    PROVE  /\ state' \in Snapshots /\ saves' = <<state'>> /\ UNCHANGED file
           /\ saves' \in Seq(Snapshots) /\ Len(saves') = 1
           /\ state'[Kind] = Head(queue).value
           /\ \A s \in Settings \ {Kind} : state'[s] = state[s]
           /\ acked' \in [Settings -> Values \cup {Nothing}]
           /\ AcknowledgedSurvives'
  <1>1. /\ state \in Snapshots /\ acked \in [Settings -> Values \cup {Nothing}] /\ saves = <<>>
        /\ Head(queue).value \in Values
    BY KindOfHead DEF Inv, Types, TypeOK, RequestInProgress
  <1>2. /\ state' = [state EXCEPT ![Kind] = Head(queue).value]
        /\ saves' = Append(saves, state') /\ file' = file
        /\ acked' = [acked EXCEPT ![Kind] = Nothing]
    BY DEF CommitSetting, Store!Save
  <1>3. state' \in Snapshots /\ acked' \in [Settings -> Values \cup {Nothing}]
    BY <1>1, <1>2 DEF Snapshots
  <1>4. saves' = <<state'>> /\ saves' \in Seq(Snapshots) /\ Len(saves') = 1
    BY <1>1, <1>2, <1>3
  <1>5. state'[Kind] = Head(queue).value /\ \A s \in Settings \ {Kind} : state'[s] = state[s]
    BY <1>1, <1>2 DEF Snapshots
  <1>6. acked'[Kind] = Nothing /\ \A s \in Settings \ {Kind} : acked'[s] = acked[s]
    BY <1>1, <1>2
  <1>7. AcknowledgedSurvives'
    BY <1>2, <1>5, <1>6 DEF Inv, AcknowledgedSurvives
  <1> QED
    BY <1>2, <1>3, <1>4, <1>5, <1>6, <1>7

LEMMA SnapshotType ==
    ASSUME Types
    PROVE  Snapshot \in StateSnapshots
  BY DEF Types, TypeOK, Snapshot, StateSnapshots

\* A broadcast brings every open socket up to date.
LEMMA PublishedSnapshots ==
    ASSUME Types, PublishState, server' = server, openSockets' = openSockets,
           state' \in Snapshots, available' \in [Driven -> BOOLEAN], restartRequired' \in BOOLEAN
    PROVE  shown' \in [Clients -> StateSnapshots \cup {Nothing}] /\ SnapshotsAreCurrent'
  <1>1. NextSnapshot \in StateSnapshots /\ Snapshot' = NextSnapshot
    BY DEF NextSnapshot, StateSnapshots, Snapshot
  <1>2. shown \in [Clients -> StateSnapshots \cup {Nothing}] /\ openSockets \subseteq Clients
    BY DEF Types, TypeOK
  <1>3. CASE server = "up"
    <2>1. shown' = [c \in Clients |-> IF c \in openSockets THEN NextSnapshot ELSE shown[c]]
      BY <1>3 DEF PublishState
    <2>2. shown' \in [Clients -> StateSnapshots \cup {Nothing}]
      BY <1>1, <1>2, <2>1
    <2>3. \A c \in openSockets' : shown'[c] = Snapshot'
      BY <1>1, <1>2, <2>1
    <2> QED
      BY <2>2, <2>3 DEF SnapshotsAreCurrent
  <1>4. CASE server # "up"
    BY <1>2, <1>4 DEF PublishState, SnapshotsAreCurrent
  <1> QED
    BY <1>3, <1>4

\* What a step leaves alone when it touches neither the state nor what is
\* told of it.
LEMMA StoreUntouched ==
    ASSUME Inv, UNCHANGED <<state, file, acked>>
    PROVE  AcknowledgedSurvives'
  BY DEF Inv, AcknowledgedSurvives

-----------------------------------------------------------------------------
(* The process *)

LEMMA InitInv == Init => Inv
  <1> SUFFICES ASSUME Init PROVE Inv
    OBVIOUS
  <1>1. state \in Snapshots /\ file \in Snapshots \cup {Unusable} /\ saves = <<>>
    BY ValuesAssumption
       DEF Init, Store!Init, Store!Loaded, DefaultSettings, Snapshots
  <1>2. Types
    <2>1. /\ saves \in Seq(Snapshots) /\ Len(saves) <= 1
          /\ queue \in Seq(Requests) /\ queuedMessages = Len(queue) /\ Len(queue) <= MaxQueued
      BY <1>1, BoundsAssumption DEF Init
    <2>2. /\ available \in [Driven -> BOOLEAN] /\ device \in [Driven -> Values \cup {Nothing}]
          /\ acked \in [Settings -> Values \cup {Nothing}]
          /\ shown \in [Clients -> StateSnapshots \cup {Nothing}]
      BY DEF Init
    <2> QED
      BY <1>1, <2>1, <2>2 DEF Init, Types, TypeOK
  <1>3. RequestInProgress /\ NothingWhenOff
    BY <1>1 DEF Init, RequestInProgress, NothingWhenOff
  <1>4. AcknowledgedSurvives /\ StateFollowsHardware /\ SnapshotsAreCurrent
    BY DEF Init, AcknowledgedSurvives, StateFollowsHardware, SnapshotsAreCurrent
  <1> QED
    BY <1>2, <1>3, <1>4 DEF Inv

LEMMA StartInv ==
    ASSUME Inv, Start
    PROVE  Inv'
  <1> USE DEF Start, clients
  <1>1. /\ openSockets' = {} /\ queue' = <<>> /\ phase' = "waiting" /\ server' = "up"
        /\ UNCHANGED <<openSockets, shown, queue, phase>>
    BY DEF Inv, NothingWhenOff
  <1>2. PICK working \in SUBSET Driven :
            /\ available' = [s \in Driven |-> s \in working]
            /\ device' = [s \in Driven |-> IF s \in working THEN state[s] ELSE Nothing]
    OBVIOUS
  <1>3. available' \in [Driven -> BOOLEAN]
    BY <1>2
  <1>4. device' \in [Driven -> Values \cup {Nothing}]
    BY <1>2 DEF Inv, Types, TypeOK, Snapshots, Settings
  <1>5. Types'
    BY <1>1, <1>3, <1>4 DEF Inv, Types, TypeOK
  <1>6. RequestInProgress'
    BY <1>1 DEF Inv, RequestInProgress
  <1>7. StateFollowsHardware'
    BY <1>2 DEF StateFollowsHardware
  <1>8. SnapshotsAreCurrent' /\ NothingWhenOff'
    BY <1>1 DEF SnapshotsAreCurrent, NothingWhenOff
  <1> QED
    BY <1>5, <1>6, <1>7, <1>8, StoreUntouched DEF Inv

\* The next process knows what the file says; what was acknowledged is there.
LEMMA GoneInv ==
    ASSUME Inv, Gone
    PROVE  Inv'
  <1> USE DEF Gone, hardware
  <1>1. state' \in Snapshots /\ saves' = <<>> /\ file' = file
    <2>1. state' = IF file \in Snapshots THEN file ELSE DefaultSettings
      BY DEF Store!Restart, Store!Loaded
    <2>2. DefaultSettings \in Snapshots
      BY ValuesAssumption DEF DefaultSettings, Snapshots
    <2> QED
      BY <2>1, <2>2 DEF Store!Restart
  <1>2. AcknowledgedSurvives'
    <2>1. file \in Snapshots => state' = file
      BY DEF Store!Restart, Store!Loaded
    <2> QED
      BY <1>1, <2>1 DEF Inv, AcknowledgedSurvives
  <1>3. Types'
    BY <1>1, BoundsAssumption DEF Inv, Types, TypeOK
  <1>4. RequestInProgress' /\ NothingWhenOff' /\ StateFollowsHardware' /\ SnapshotsAreCurrent'
    BY <1>1 DEF RequestInProgress, NothingWhenOff, StateFollowsHardware, SnapshotsAreCurrent
  <1> QED
    BY <1>2, <1>3, <1>4 DEF Inv

LEMMA StartShutdownInv ==
    ASSUME Inv, StartShutdown
    PROVE  Inv'
  <1> USE DEF StartShutdown, hardware, clients
  <1>1. Types'
    BY DEF Inv, Types, TypeOK
  <1>2. RequestInProgress'
    BY DEF Inv, RequestInProgress, Driving, Kind
  <1>3. NothingWhenOff' /\ StateFollowsHardware' /\ SnapshotsAreCurrent'
    BY DEF Inv, NothingWhenOff, StateFollowsHardware, SnapshotsAreCurrent
  <1> QED
    BY <1>1, <1>2, <1>3, StoreUntouched DEF Inv

-----------------------------------------------------------------------------
(* Sockets *)

LEMMA OpenInv ==
    ASSUME Inv, NEW c \in Clients, Open(c)
    PROVE  Inv'
  <1> USE DEF Open, hardware
  <1>1. Types'
    BY SnapshotType DEF Inv, Types, TypeOK
  <1>2. RequestInProgress'
    BY DEF Inv, RequestInProgress, Driving, Kind
  <1>3. NothingWhenOff' /\ StateFollowsHardware'
    BY DEF Inv, NothingWhenOff, StateFollowsHardware
  <1>4. SnapshotsAreCurrent'
    <2>1. Snapshot' = Snapshot
      BY DEF Snapshot
    <2>2. shown \in [Clients -> StateSnapshots \cup {Nothing}] /\ openSockets \subseteq Clients
      BY DEF Inv, Types, TypeOK
    <2> QED
      BY <2>1, <2>2 DEF Inv, SnapshotsAreCurrent
  <1> QED
    BY <1>1, <1>2, <1>3, <1>4, StoreUntouched DEF Inv

LEMMA CloseInv ==
    ASSUME Inv, NEW c \in Clients, Close(c)
    PROVE  Inv'
  <1>1. /\ queue' \in Seq(Requests) /\ Len(queue') = Len(queue)
        /\ queue # <<>> => queue' # <<>> /\ Kind' = Kind
        /\ queue = <<>> => queue' = <<>>
    BY QueueLosesSender DEF Inv
  <1>2. /\ UNCHANGED <<server, state, saves, file, device, available, restartRequired,
                       queuedMessages, phase, acked>>
        /\ openSockets' = openSockets \ {c} /\ shown' = [shown EXCEPT ![c] = Nothing]
    BY DEF Close, hardware
  <1>3. Types'
    BY <1>1, <1>2 DEF Inv, Types, TypeOK
  <1>4. RequestInProgress'
    BY <1>1, <1>2 DEF Inv, RequestInProgress, Driving
  <1>5. NothingWhenOff' /\ StateFollowsHardware'
    BY <1>1, <1>2 DEF Inv, NothingWhenOff, StateFollowsHardware
  <1>6. SnapshotsAreCurrent'
    <2>1. Snapshot' = Snapshot
      BY <1>2 DEF Snapshot
    <2>2. shown \in [Clients -> StateSnapshots \cup {Nothing}] /\ openSockets \subseteq Clients
      BY DEF Inv, Types, TypeOK
    <2> QED
      BY <1>2, <2>1, <2>2 DEF Inv, SnapshotsAreCurrent
  <1> QED
    BY <1>2, <1>3, <1>4, <1>5, <1>6, StoreUntouched DEF Inv

LEMMA MessageInv ==
    ASSUME Inv, NEW c \in Clients, Message(c)
    PROVE  Inv'
  <1>1. /\ queue' \in Seq(Requests) /\ queuedMessages' = Len(queue') /\ Len(queue') <= MaxQueued
        /\ queue # <<>> => queue' # <<>> /\ Kind' = Kind
    BY QueueGrows DEF Inv
  <1>2. /\ UNCHANGED <<server, state, saves, file, device, available, restartRequired,
                       phase, openSockets, shown, acked>>
        /\ c \in openSockets
    BY DEF Message, hardware, clients
  <1>3. Types'
    BY <1>1, <1>2 DEF Inv, Types, TypeOK
  <1>4. RequestInProgress'
    BY <1>1, <1>2 DEF Inv, RequestInProgress, Driving
  <1>5. NothingWhenOff' /\ StateFollowsHardware'
    BY <1>1, <1>2 DEF Inv, NothingWhenOff, StateFollowsHardware
  <1>6. SnapshotsAreCurrent'
    BY <1>2 DEF Inv, SnapshotsAreCurrent, Snapshot
  <1> QED
    BY <1>2, <1>3, <1>4, <1>5, <1>6, StoreUntouched DEF Inv

-----------------------------------------------------------------------------
(* The request being handled *)

\* A request that ends without changing the state leaves everything shown.
LEMMA RequestEndsInv ==
    ASSUME Inv, queue # <<>>, phase # "saving", server # "off", RequestEnds,
           UNCHANGED <<server, state, saves, file, available, restartRequired, openSockets,
                       shown, acked>>,
           device' \in [Driven -> Values \cup {Nothing}],
           \A s \in Driven : device'[s] \in {device[s], Nothing}
    PROVE  Inv'
  <1>1. /\ queue' \in Seq(Requests) /\ queuedMessages' = Len(queue') /\ Len(queue') <= MaxQueued
        /\ phase' = "waiting"
    BY QueueAdvances DEF Inv
  <1>2. Types'
    BY <1>1 DEF Inv, Types, TypeOK
  <1>3. RequestInProgress' /\ NothingWhenOff'
    BY <1>1 DEF Inv, RequestInProgress, NothingWhenOff
  <1>4. StateFollowsHardware'
    BY DEF Inv, StateFollowsHardware
  <1>5. SnapshotsAreCurrent'
    BY DEF Inv, SnapshotsAreCurrent, Snapshot
  <1> QED
    BY <1>2, <1>3, <1>4, <1>5, StoreUntouched DEF Inv

LEMMA UnchangedRequestEndsInv ==
    ASSUME Inv, Reject \/ GetEnds
    PROVE  Inv'
  <1>1. /\ queue # <<>> /\ phase # "saving" /\ server # "off" /\ RequestEnds
        /\ UNCHANGED <<server, state, saves, file, device, available, restartRequired,
                       openSockets, shown, acked>>
    BY DEF Reject, GetEnds, Starts, Awaits, hardware, clients
  <1>2. device' \in [Driven -> Values \cup {Nothing}]
    BY <1>1 DEF Inv, Types, TypeOK
  <1> QED
    BY <1>1, <1>2, RequestEndsInv

LEMMA HardwareRefusesInv ==
    ASSUME Inv, HardwareRefuses
    PROVE  Inv'
  <1>1. /\ queue # <<>> /\ phase # "saving" /\ server # "off" /\ RequestEnds
        /\ UNCHANGED <<server, state, saves, file, available, restartRequired,
                       openSockets, shown, acked>>
    BY DEF HardwareRefuses, Awaits, clients
  <1>2. PICK left \in {device[Kind], Nothing} : device' = [device EXCEPT ![Kind] = left]
    BY DEF HardwareRefuses
  <1>3. device \in [Driven -> Values \cup {Nothing}] /\ Kind \in Driven
    BY DEF Inv, Types, TypeOK, HardwareRefuses
  <1>4. /\ device' \in [Driven -> Values \cup {Nothing}]
        /\ \A s \in Driven : device'[s] \in {device[s], Nothing}
    BY <1>2, <1>3
  <1> QED
    BY <1>1, <1>4, RequestEndsInv

LEMMA CallHardwareInv ==
    ASSUME Inv, CallHardware
    PROVE  Inv'
  <1> USE DEF CallHardware, Starts, hardware, clients
  <1>1. Types'
    BY DEF Inv, Types, TypeOK
  <1>2. RequestInProgress' /\ NothingWhenOff'
    BY DEF Inv, RequestInProgress, NothingWhenOff, Driving, Kind
  <1>3. StateFollowsHardware' /\ SnapshotsAreCurrent'
    BY DEF Inv, StateFollowsHardware, SnapshotsAreCurrent, Snapshot
  <1> QED
    BY <1>1, <1>2, <1>3, StoreUntouched DEF Inv

\* The state takes a value only with the hardware, if it needs any.
LEMMA CommitInv ==
    ASSUME Inv, queue # <<>>, Kind \in Settings, phase # "saving", server # "off",
           CommitSetting, phase' = "saving",
           UNCHANGED <<server, queue, queuedMessages, available, restartRequired,
                       openSockets, shown>>,
           device' = IF Kind \in Driven THEN [device EXCEPT ![Kind] = Head(queue).value]
                     ELSE device
    PROVE  Inv'
  <1>1. /\ state' \in Snapshots /\ saves' = <<state'>> /\ UNCHANGED file
        /\ saves' \in Seq(Snapshots) /\ Len(saves') = 1
        /\ state'[Kind] = Head(queue).value
        /\ \A s \in Settings \ {Kind} : state'[s] = state[s]
        /\ acked' \in [Settings -> Values \cup {Nothing}]
        /\ AcknowledgedSurvives'
    BY CommitStep
  <1>2. device \in [Driven -> Values \cup {Nothing}] /\ Head(queue).value \in Values
    BY KindOfHead DEF Inv, Types, TypeOK
  <1>3. device' \in [Driven -> Values \cup {Nothing}]
    BY <1>2
  <1>4. Types'
    BY <1>1, <1>3 DEF Inv, Types, TypeOK
  <1>5. RequestInProgress' /\ NothingWhenOff'
    BY <1>1 DEF RequestInProgress, NothingWhenOff, Kind
  <1>6. StateFollowsHardware'
    <2>1. ASSUME NEW s \in Driven PROVE device'[s] \in {state'[s], Nothing}
      <3>1. CASE s = Kind
        BY <1>1, <1>2, <3>1
      <3>2. CASE s # Kind
        <4>1. device'[s] = device[s] /\ state'[s] = state[s]
          BY <1>1, <1>2, <3>2 DEF Settings
        <4> QED
          BY <4>1 DEF Inv, StateFollowsHardware
      <3> QED
        BY <3>1, <3>2
    <2> QED
      BY <2>1 DEF StateFollowsHardware
  <1>7. SnapshotsAreCurrent'
    BY DEF SnapshotsAreCurrent
  <1> QED
    BY <1>1, <1>4, <1>5, <1>6, <1>7 DEF Inv

LEMMA StoreSettingInv ==
    ASSUME Inv, StoreSetting
    PROVE  Inv'
  <1>1. /\ queue # <<>> /\ phase # "saving" /\ server # "off" /\ CommitSetting /\ phase' = "saving"
        /\ UNCHANGED <<server, queue, queuedMessages, device, available, restartRequired,
                       openSockets, shown>>
        /\ ~Driving
    BY DEF StoreSetting, Starts, hardware, clients
  <1>2. Kind \in Settings /\ Kind \notin Driven
    BY <1>1, KindOfHead DEF Inv, Driving
  <1> QED
    BY <1>1, <1>2, CommitInv

LEMMA HardwareAcceptsInv ==
    ASSUME Inv, HardwareAccepts
    PROVE  Inv'
  <1>1. /\ queue # <<>> /\ phase # "saving" /\ server # "off" /\ CommitSetting /\ phase' = "saving"
        /\ UNCHANGED <<server, queue, queuedMessages, available, restartRequired,
                       openSockets, shown>>
        /\ Kind \in Driven /\ device' = [device EXCEPT ![Kind] = Head(queue).value]
    BY DEF HardwareAccepts, Awaits, clients
  <1>2. Kind \in Settings
    BY <1>1 DEF Settings
  <1> QED
    BY <1>1, <1>2, CommitInv

\* The end of a save, good or bad: the last thing is the broadcast.
LEMMA SaveEndsInv ==
    ASSUME Inv, Awaits("saving"), PublishState, RequestEnds,
           UNCHANGED <<server, state, device, available, restartRequired, openSockets>>,
           saves' = <<>>,
           \/ file' = state /\ Acknowledge
           \/ UNCHANGED <<file, acked>>
    PROVE  Inv'
  <1>1. /\ queue' \in Seq(Requests) /\ queuedMessages' = Len(queue') /\ Len(queue') <= MaxQueued
        /\ phase' = "waiting"
    BY QueueAdvances DEF Inv, Awaits
  <1>2. shown' \in [Clients -> StateSnapshots \cup {Nothing}] /\ SnapshotsAreCurrent'
    BY PublishedSnapshots DEF Inv, Types, TypeOK
  <1>3. file' \in Snapshots \cup {Unusable} /\ acked' \in [Settings -> Values \cup {Nothing}]
        /\ AcknowledgedSurvives'
    <2>1. CASE UNCHANGED <<file, acked>>
      BY <2>1, StoreUntouched DEF Inv, Types, TypeOK
    <2>2. CASE file' = state /\ Acknowledge
      <3>1. /\ state \in Snapshots /\ acked \in [Settings -> Values \cup {Nothing}]
            /\ Kind \in Settings /\ acked' = [acked EXCEPT ![Kind] = state[Kind]]
        BY <2>2 DEF Inv, Types, TypeOK, RequestInProgress, Awaits, Acknowledge
      <3>2. state[Kind] \in Values
        BY <3>1 DEF Snapshots
      <3>3. \A s \in Settings : acked'[s] # Nothing => acked'[s] = state[s]
        BY <3>1 DEF Inv, AcknowledgedSurvives
      <3> QED
        BY <2>2, <3>1, <3>2, <3>3 DEF AcknowledgedSurvives
    <2> QED
      BY <2>1, <2>2
  <1>4. Types'
    <2>1. saves' \in Seq(Snapshots) /\ Len(saves') <= 1
      OBVIOUS
    <2> QED
      BY <1>1, <1>2, <1>3, <2>1 DEF Inv, Types, TypeOK
  <1>5. RequestInProgress' /\ NothingWhenOff'
    BY <1>1 DEF RequestInProgress, NothingWhenOff, Awaits
  <1>6. StateFollowsHardware'
    BY DEF Inv, StateFollowsHardware
  <1> QED
    BY <1>2, <1>3, <1>4, <1>5, <1>6 DEF Inv

LEMMA SaveInv ==
    ASSUME Inv, SaveSucceeds \/ SaveFails
    PROVE  Inv'
  <1>1. /\ Awaits("saving") /\ PublishState /\ RequestEnds
        /\ UNCHANGED <<server, device, available, restartRequired, openSockets>>
    BY DEF SaveSucceeds, SaveFails, hardware
  <1>2. saves = <<state>>
    BY <1>1 DEF Inv, RequestInProgress, Awaits
  <1>3. CASE SaveSucceeds
    <2>1. file' = state /\ saves' = <<>> /\ UNCHANGED state /\ Acknowledge
      BY <1>2, <1>3 DEF SaveSucceeds, Store!Commit
    <2> QED
      BY <1>1, <2>1, SaveEndsInv
  <1>4. CASE SaveFails
    <2>1. saves' = <<>> /\ UNCHANGED <<state, file, acked>>
      BY <1>2, <1>4 DEF SaveFails, Store!Refuse
    <2> QED
      BY <1>1, <2>1, SaveEndsInv
  <1> QED
    BY <1>3, <1>4

\* A channel that fails takes its capability with it, and everybody hears.
LEMMA ChannelFailsInv ==
    ASSUME Inv, NEW s \in Driven, ChannelFails(s)
    PROVE  Inv'
  <1>1. /\ available' = [available EXCEPT ![s] = FALSE] /\ restartRequired' = TRUE
        /\ UNCHANGED <<server, state, saves, file, queue, queuedMessages, phase, openSockets, acked>>
        /\ PublishState /\ server # "off"
    BY DEF ChannelFails
  <1>2. PICK left \in {device[s], Nothing} : device' = [device EXCEPT ![s] = left]
    BY DEF ChannelFails
  <1>3. /\ device \in [Driven -> Values \cup {Nothing}] /\ available \in [Driven -> BOOLEAN]
        /\ state \in Snapshots
    BY DEF Inv, Types, TypeOK
  <1>4. device' \in [Driven -> Values \cup {Nothing}] /\ available' \in [Driven -> BOOLEAN]
    BY <1>1, <1>2, <1>3
  <1>5. shown' \in [Clients -> StateSnapshots \cup {Nothing}] /\ SnapshotsAreCurrent'
    BY <1>1, <1>3, <1>4, PublishedSnapshots DEF Inv
  <1>6. Types'
    BY <1>1, <1>4, <1>5 DEF Inv, Types, TypeOK
  <1>7. RequestInProgress' /\ NothingWhenOff'
    BY <1>1 DEF Inv, RequestInProgress, NothingWhenOff, Driving, Kind
  <1>8. StateFollowsHardware'
    BY <1>1, <1>2, <1>3 DEF Inv, StateFollowsHardware
  <1> QED
    BY <1>1, <1>5, <1>6, <1>7, <1>8, StoreUntouched DEF Inv

-----------------------------------------------------------------------------
LEMMA NextInv == Inv /\ [Next]_vars => Inv'
  <1> SUFFICES ASSUME Inv, [Next]_vars PROVE Inv'
    OBVIOUS
  <1>1. CASE Start
    BY <1>1, StartInv
  <1>2. CASE StartShutdown
    BY <1>2, StartShutdownInv
  <1>3. CASE Exit \/ Crash
    BY <1>3, GoneInv DEF Exit, Crash
  <1>4. ASSUME NEW c \in Clients, Open(c) \/ Close(c) \/ Message(c) PROVE Inv'
    BY <1>4, OpenInv, CloseInv, MessageInv
  <1>5. CASE Reject \/ GetEnds
    BY <1>5, UnchangedRequestEndsInv
  <1>6. CASE StoreSetting
    BY <1>6, StoreSettingInv
  <1>7. CASE CallHardware
    BY <1>7, CallHardwareInv
  <1>8. CASE HardwareAccepts
    BY <1>8, HardwareAcceptsInv
  <1>9. CASE HardwareRefuses
    BY <1>9, HardwareRefusesInv
  <1>10. CASE SaveSucceeds \/ SaveFails
    BY <1>10, SaveInv
  <1>11. ASSUME NEW s \in Driven, ChannelFails(s) PROVE Inv'
    BY <1>11, ChannelFailsInv
  <1>12. CASE UNCHANGED vars
    <2> USE <1>12 DEF vars
    <2>1. Types' /\ NothingWhenOff'
      BY DEF Inv, Types, TypeOK, NothingWhenOff
    <2>2. RequestInProgress'
      BY DEF Inv, RequestInProgress, Driving, Kind
    <2>3. StateFollowsHardware' /\ SnapshotsAreCurrent'
      BY DEF Inv, StateFollowsHardware, SnapshotsAreCurrent, Snapshot
    <2> QED
      BY <2>1, <2>2, <2>3, StoreUntouched DEF Inv
  <1> QED
    BY <1>1, <1>2, <1>3, <1>4, <1>5, <1>6, <1>7, <1>8, <1>9, <1>10, <1>11, <1>12
       DEF Next, Handling

LEMMA InvHolds == Spec => []Inv
  BY InitInv, NextInv, PTL DEF Spec

-----------------------------------------------------------------------------
\* The variables keep their types and the counter of admitted requests counts
\* them, so no client is told BUSY for a queue that has room.
THEOREM TypeCorrect == Spec => []TypeOK
  <1>1. Inv => TypeOK
    BY DEF Inv, Types
  <1> QED
    BY <1>1, InvHolds, PTL

\* Between two mutations every open socket shows the state, and the state of
\* every driven setting is what the hardware accepted or nobody knows.
THEOREM ClientsSee == Spec => []ClientsSeeHardware
  <1>1. Inv => ClientsSeeHardware
    BY DEF Inv, ClientsSeeHardware
  <1> QED
    BY <1>1, InvHolds, PTL

\* A setting a client was told is saved is in the file until it is changed
\* again, through any number of crashes and failing saves.
THEOREM AcknowledgedIsDurable == Spec => []AcknowledgedSurvives
  <1>1. Inv => AcknowledgedSurvives
    BY DEF Inv
  <1> QED
    BY <1>1, InvHolds, PTL

-----------------------------------------------------------------------------
(* Shutdown *)

NothingStarts ==
    /\ Len(queue') <= Len(queue)
    /\ phase = "waiting" => phase' = "waiting" /\ UNCHANGED <<state, saves, file>>

LEMMA ShutdownStep ==
    ASSUME Inv, [Next]_vars, server = "stopping", server' = "stopping"
    PROVE  NothingStarts
  <1> USE DEF NothingStarts
  <1>1. Len(queue) \in Nat
    BY LenProperties DEF Inv, Types, TypeOK
  <1>2. ~Start /\ ~StartShutdown /\ ~Exit /\ ~Crash
    BY DEF Start, StartShutdown, Exit, Crash, Gone
  <1>3. ASSUME NEW c \in Clients, Open(c) \/ Close(c) \/ Message(c)
        PROVE  NothingStarts
    <2>1. Open(c) => FALSE
      BY DEF Open
    <2>2. CASE Close(c)
      BY <1>1, <2>2, QueueLosesSender DEF Inv, Close
    <2>3. CASE Message(c)
      <3>1. queue' = queue
        BY <2>3, QueueGrows DEF Inv
      <3>2. UNCHANGED <<phase, state, saves, file>>
        BY <2>3 DEF Message
      <3> QED
        BY <1>1, <3>1, <3>2
    <2> QED
      BY <1>3, <2>1, <2>2, <2>3
  <1>4. CASE Reject \/ GetEnds \/ HardwareRefuses
    <2>1. queue # <<>> /\ RequestEnds /\ UNCHANGED <<state, saves, file>>
      BY <1>4 DEF Reject, GetEnds, HardwareRefuses, Starts, Awaits
    <2> QED
      BY <2>1, QueueAdvances DEF Inv
  <1>5. ~StoreSetting /\ ~CallHardware
    BY DEF StoreSetting, CallHardware, Rejected
  <1>6. CASE HardwareAccepts
    BY <1>1, <1>6 DEF HardwareAccepts, Awaits
  <1>7. CASE SaveSucceeds \/ SaveFails
    <2>1. queue # <<>> /\ RequestEnds /\ phase = "saving"
      BY <1>7 DEF SaveSucceeds, SaveFails, Awaits
    <2> QED
      BY <2>1, QueueAdvances DEF Inv
  <1>8. ASSUME NEW s \in Driven, ChannelFails(s) PROVE NothingStarts
    BY <1>1, <1>8 DEF ChannelFails
  <1>9. CASE UNCHANGED vars
    BY <1>1, <1>9 DEF vars
  <1> QED
    BY <1>2, <1>3, <1>4, <1>5, <1>6, <1>7, <1>8, <1>9 DEF Next, Handling

\* Once shutdown has begun no request is admitted and none begins, so what the
\* drain waits for is all there is.
THEOREM ShutdownIsFinal == Spec => ShutdownStartsNothing
  <1>1. ASSUME Inv, [Next]_vars
        PROVE  [server = "stopping" /\ server' = "stopping" => NothingStarts]_vars
    BY <1>1, ShutdownStep
  <1>2. Inv /\ [Next]_vars =>
            [server = "stopping" /\ server' = "stopping"
                => /\ Len(queue') <= Len(queue)
                   /\ phase = "waiting" => phase' = "waiting" /\ UNCHANGED <<state, saves, file>>]_vars
    BY <1>1 DEF NothingStarts
  <1> QED
    BY <1>2, InvHolds, PTL DEF Spec, ShutdownStartsNothing

-----------------------------------------------------------------------------
(* The store *)

LEMMA StoreInit == Init => Store!Init
  BY DEF Init

LEMMA StoreStep ==
    ASSUME Inv, [Next]_vars
    PROVE  [Store!Next]_(Store!vars)
  <1> USE DEF Store!vars
  <1>1. CASE Start
    BY <1>1 DEF Start
  <1>2. CASE StartShutdown
    BY <1>2 DEF StartShutdown
  <1>3. CASE Exit \/ Crash
    BY <1>3 DEF Exit, Crash, Gone, Store!Next
  <1>4. ASSUME NEW c \in Clients, Open(c) \/ Close(c) \/ Message(c)
        PROVE  UNCHANGED Store!vars
    BY <1>4 DEF Open, Close, Message
  <1>5. CASE Reject \/ CallHardware \/ GetEnds \/ HardwareRefuses
    BY <1>5 DEF Reject, CallHardware, GetEnds, HardwareRefuses
  <1>6. CASE StoreSetting \/ HardwareAccepts
    <2>1. queue # <<>> /\ phase # "saving" /\ CommitSetting /\ Kind # "get"
      BY <1>6, SettingsAssumption
         DEF StoreSetting, HardwareAccepts, Starts, Awaits, Driving, Settings
    <2>2. Kind \in Settings
      BY <2>1, KindOfHead DEF Inv
    <2>3. state' \in Snapshots /\ UNCHANGED file
      BY <2>1, <2>2, CommitStep
    <2>4. saves' = Append(saves, state')
      BY <2>1 DEF CommitSetting, Store!Save
    <2> QED
      BY <2>3, <2>4 DEF Store!Next, Store!Save
  <1>7. CASE SaveSucceeds \/ SaveFails
    BY <1>7 DEF SaveSucceeds, SaveFails, Store!Next
  <1>8. ASSUME NEW s \in Driven, ChannelFails(s) PROVE UNCHANGED Store!vars
    BY <1>8 DEF ChannelFails
  <1>9. CASE UNCHANGED vars
    BY <1>9 DEF vars
  <1> QED
    BY <1>1, <1>2, <1>3, <1>4, <1>5, <1>6, <1>7, <1>8, <1>9 DEF Next, Handling

\* The command server uses the store as DurableSettings describes it, and
\* ConfigStore implements that description.
THEOREM StoreIsDurableSettings == Spec => Store!Spec
  <1>1. Inv /\ [Next]_vars => [Store!Next]_(Store!vars)
    BY StoreStep
  <1> QED
    BY <1>1, StoreInit, InvHolds, PTL DEF Spec, Store!Spec


-----------------------------------------------------------------------------
(* SocketOutput *)

Tasks == {"flush", "check"}

\* One check, behind every flush.
CheckIsLast == \A i \in 1 .. Len(tasks) - 1 : tasks[i] = "flush"

\* The timer runs while a socket is remembered, and only then.
CheckFollowsOutput ==
    /\ remembered # {} /\ tasks # <<>> => tasks[Len(tasks)] = "check"
    /\ remembered = {} => Output!Checks(tasks) = {}

\* What a live socket was sent is still to be flushed, or to be checked.
OutputIsChecked ==
    \A c \in live :
        /\ corked[c] > 0 => tasks # <<>> /\ tasks[1] = "flush"
        /\ Output!OverLimit(c) => tasks # <<>>

OutputInv ==
    /\ live \subseteq remembered /\ remembered \subseteq Clients /\ live \cap lost = {}
    /\ buffered \in [Clients -> Nat] /\ corked \in [Clients -> Nat] /\ tasks \in Seq(Tasks)
    /\ isShuttingDown \in BOOLEAN /\ (isShuttingDown => remembered = {})
    /\ CheckIsLast /\ CheckFollowsOutput /\ OutputIsChecked

\* Clearing the timer leaves the flushes, wherever it is.
LEMMA WithoutCheckFlushes ==
    ASSUME NEW ts \in Seq(Tasks), \A i, j \in Output!Checks(ts) : i = j
    PROVE  /\ Output!WithoutCheck(ts) \in Seq({"flush"})
           /\ (\E i \in DOMAIN ts : ts[i] = "flush") => Output!WithoutCheck(ts) # <<>>
  <1>1. CASE Output!Checks(ts) = {}
    <2>1. Output!WithoutCheck(ts) = ts
      BY <1>1 DEF Output!WithoutCheck
    <2>2. \A i \in DOMAIN ts : ts[i] = "flush"
      BY <1>1 DEF Output!Checks, Tasks
    <2>3. ts \in Seq({"flush"})
      BY <2>2
    <2> QED
      BY <2>1, <2>3
  <1>2. CASE Output!Checks(ts) # {}
    <2> DEFINE n == CHOOSE i \in Output!Checks(ts) : TRUE
               front == SubSeq(ts, 1, n - 1)
               back == SubSeq(ts, n + 1, Len(ts))
    <2>1. n \in Output!Checks(ts)
      BY <1>2
    <2>2. Output!WithoutCheck(ts) = front \o back
      BY <1>2 DEF Output!WithoutCheck
    <2> HIDE DEF n
    <2>3. n \in 1 .. Len(ts) /\ ts[n] = "check"
      BY <2>1 DEF Output!Checks
    <2>4. \A i \in 1 .. Len(ts) : i # n => ts[i] = "flush"
      BY <2>1 DEF Output!Checks, Tasks
    <2>5. front \in Seq({"flush"}) /\ Len(front) = n - 1
      BY <2>3, <2>4, SubSeqProperties
    <2>6. back \in Seq({"flush"}) /\ Len(back) = Len(ts) - n
      BY <2>3, <2>4, SubSeqProperties
    <2> HIDE DEF front, back
    <2>7. front \o back \in Seq({"flush"}) /\ Len(front \o back) = Len(ts) - 1
      BY <2>3, <2>5, <2>6, ConcatProperties
    <2>8. (\E i \in DOMAIN ts : ts[i] = "flush") => Len(ts) > 1
      BY <2>3
    <2> QED
      BY <2>2, <2>7, <2>8
  <1> QED
    BY <1>1, <1>2

\* forgetSocket() after a change of the remembered sockets.
LEMMA ForgottenTasks ==
    ASSUME NEW ts \in Seq(Tasks), NEW sockets,
           \A i \in 1 .. Len(ts) - 1 : ts[i] = "flush"
    PROVE  LET kept == Output!Forgotten(ts, sockets) IN
           /\ kept \in Seq(Tasks) /\ \A i \in 1 .. Len(kept) - 1 : kept[i] = "flush"
           /\ sockets = {} => Output!Checks(kept) = {}
           /\ sockets # {} => kept = ts
  <1>1. CASE sockets = {}
    <2>1. Output!Forgotten(ts, sockets) = Output!WithoutCheck(ts)
      BY <1>1 DEF Output!Forgotten
    <2>2. \A i \in Output!Checks(ts) : i = Len(ts)
      BY DEF Output!Checks
    <2>3. Output!WithoutCheck(ts) \in Seq({"flush"})
      BY <2>2, WithoutCheckFlushes
    <2> QED
      BY <1>1, <2>1, <2>3 DEF Output!Checks, Tasks
  <1>2. CASE sockets # {}
    BY <1>2 DEF Output!Forgotten
  <1> QED
    BY <1>1, <1>2

\* scheduleBackpressureCheck() after output.
LEMMA ScheduledTasks ==
    ASSUME OutputInv, NEW sockets \in SUBSET Clients, Output!Schedule(sockets),
           isShuttingDown => sockets = {}
    PROVE  /\ tasks' \in Seq(Tasks) /\ tasks' # <<>> /\ tasks'[1] = "flush"
           /\ \A i \in 1 .. Len(tasks') - 1 : tasks'[i] = "flush"
           /\ sockets # {} => tasks'[Len(tasks')] = "check"
           /\ sockets = {} => Output!Checks(tasks') = {}
  <1> DEFINE kept == Output!Forgotten(tasks, sockets)
             ts == Append(kept, "flush")
             flushes == Output!WithoutCheck(ts)
  <1>1. /\ kept \in Seq(Tasks) /\ \A i \in 1 .. Len(kept) - 1 : kept[i] = "flush"
        /\ sockets = {} => Output!Checks(kept) = {}
    BY ForgottenTasks DEF OutputInv, CheckIsLast
  <1>2. /\ sockets = {} => tasks' = ts
        /\ sockets # {} => tasks' = Append(flushes, "check")
    BY DEF Output!Schedule, Output!CheckLast
  <1> HIDE DEF kept
  <1>3. /\ ts \in Seq(Tasks) /\ Len(ts) = Len(kept) + 1 /\ ts[Len(ts)] = "flush"
        /\ \A i \in 1 .. Len(kept) : ts[i] = kept[i]
    BY <1>1 DEF Tasks
  <1> HIDE DEF ts
  <1>4. CASE sockets = {}
    <2>1. \A i \in 1 .. Len(ts) : ts[i] = "flush"
      BY <1>1, <1>3, <1>4 DEF Output!Checks, Tasks
    <2> QED
      BY <1>2, <1>3, <1>4, <2>1 DEF Output!Checks
  <1>5. CASE sockets # {}
    <2>1. \A i \in Output!Checks(ts) : i = Len(kept)
      BY <1>1, <1>3 DEF Output!Checks
    <2>2. flushes \in Seq({"flush"}) /\ flushes # <<>>
      BY <1>3, <2>1, WithoutCheckFlushes
    <2> HIDE DEF flushes
    <2>3. /\ Len(Append(flushes, "check")) = Len(flushes) + 1
          /\ \A i \in 1 .. Len(flushes) : Append(flushes, "check")[i] = "flush"
          /\ Append(flushes, "check")[Len(flushes) + 1] = "check"
          /\ Append(flushes, "check") \in Seq(Tasks)
      BY <2>2 DEF Tasks
    <2> QED
      BY <1>2, <1>5, <2>2, <2>3
  <1> QED
    BY <1>4, <1>5

\* A step that forgets sockets and sends nothing: the timer goes with the last.
LEMMA ForgettingKeeps ==
    ASSUME OutputInv, live' \subseteq live, remembered' \subseteq remembered,
           live' \subseteq remembered', live' \cap lost' = {},
           UNCHANGED <<buffered, corked, isShuttingDown>>,
           tasks' = Output!Forgotten(tasks, remembered')
    PROVE  OutputInv'
  <1>1. /\ tasks' \in Seq(Tasks) /\ CheckIsLast'
        /\ remembered' = {} => Output!Checks(tasks') = {}
        /\ remembered' # {} => tasks' = tasks /\ remembered # {}
    BY ForgottenTasks DEF OutputInv, CheckIsLast
  <1>2. CheckFollowsOutput'
    BY <1>1 DEF OutputInv, CheckFollowsOutput
  <1>3. OutputIsChecked'
    <2> SUFFICES ASSUME NEW c \in live'
                 PROVE  /\ corked[c] > 0 => tasks' # <<>> /\ tasks'[1] = "flush"
                        /\ Output!OverLimit(c) => tasks' # <<>>
      BY DEF OutputIsChecked, Output!OverLimit
    <2> QED
      BY <1>1 DEF OutputInv, OutputIsChecked
  <1> QED
    BY <1>1, <1>2, <1>3 DEF OutputInv

\* A step that sends: its output is flushed and then checked.
LEMMA SendingKeeps ==
    ASSUME OutputInv, remembered' \subseteq Clients, live' \subseteq remembered',
           live' \cap lost' = {}, buffered' \in [Clients -> Nat], corked' \in [Clients -> Nat],
           UNCHANGED isShuttingDown, isShuttingDown => remembered' = {},
           Output!Schedule(remembered')
    PROVE  OutputInv'
  <1>1. /\ tasks' \in Seq(Tasks) /\ tasks' # <<>> /\ tasks'[1] = "flush"
        /\ \A i \in 1 .. Len(tasks') - 1 : tasks'[i] = "flush"
        /\ remembered' # {} => tasks'[Len(tasks')] = "check"
        /\ remembered' = {} => Output!Checks(tasks') = {}
    BY ScheduledTasks
  <1> QED
    BY <1>1 DEF OutputInv, CheckIsLast, CheckFollowsOutput, OutputIsChecked

LEMMA OutputKept ==
    ASSUME OutputInv, Output!Next
    PROVE  OutputInv'
  <1>1. CASE \E c \in Clients : Output!Open(c)
    <2>1. PICK c \in Clients : Output!Open(c)
      BY <1>1
    <2>2. /\ buffered' \in [Clients -> Nat] /\ corked' \in [Clients -> Nat]
          /\ ~isShuttingDown /\ live' \cap lost' = {}
      BY <2>1 DEF Output!Open, OutputInv
    <2> QED
      BY <2>1, <2>2, SendingKeeps DEF Output!Open, OutputInv
  <1>2. CASE \E c \in Clients : Output!SendText(c)
    <2>1. PICK c \in Clients : Output!SendText(c)
      BY <1>2
    <2>2. CASE Output!Retire(c) /\ lost' \subseteq lost \cup {c} /\ UNCHANGED corked
               /\ tasks' = Output!Forgotten(tasks, remembered')
      <3>1. live' = live \ {c} /\ remembered' = remembered \ {c}
        BY <2>2 DEF Output!Retire
      <3>2. UNCHANGED <<buffered, corked, isShuttingDown>>
        BY <2>1, <2>2 DEF Output!SendText
      <3> QED
        BY <2>2, <3>1, <3>2, ForgettingKeeps DEF OutputInv
    <2>3. CASE corked' = [corked EXCEPT ![c] = @ + 1] /\ Output!Schedule(remembered)
               /\ UNCHANGED <<live, remembered, lost>>
      <3>1. corked' \in [Clients -> Nat] /\ UNCHANGED <<buffered, isShuttingDown>>
        BY <2>1, <2>3 DEF Output!SendText, OutputInv
      <3> QED
        BY <2>3, <3>1, SendingKeeps DEF OutputInv
    <2> QED
      BY <2>1, <2>2, <2>3 DEF Output!SendText, Output!Dropped
  <1>3. CASE \E c \in Clients : Output!Drain(c)
    <2>1. PICK c \in Clients : Output!Drain(c)
      BY <1>3
    <2>2. /\ buffered' \in [Clients -> Nat]
          /\ UNCHANGED <<live, remembered, corked, tasks, lost, isShuttingDown>>
      BY <2>1 DEF Output!Drain, OutputInv
    <2>3. \A d \in live : Output!OverLimit(d)' => Output!OverLimit(d)
      BY <2>1, OutputAssumption DEF Output!Drain, OutputInv, Output!OverLimit
    <2> QED
      BY <2>2, <2>3
      DEF OutputInv, CheckIsLast, CheckFollowsOutput, OutputIsChecked, Output!Checks
  <1>4. CASE \E c \in Clients : Output!Disconnect(c)
    BY <1>4 DEF Output!Disconnect, OutputInv, CheckIsLast, CheckFollowsOutput, OutputIsChecked,
                Output!Checks, Output!OverLimit
  <1>5. CASE \E c \in Clients : Output!Close(c)
    <2>1. PICK c \in Clients : Output!Close(c)
      BY <1>5
    <2> QED
      BY <2>1, ForgettingKeeps DEF Output!Close, OutputInv
  <1>6. CASE Output!Publish
    <2>1. /\ live' = live \ Output!Pressed
          /\ remembered' = remembered \ (Output!Pressed \cup (remembered \ live))
      BY <1>6 DEF Output!Publish, Output!EnforceAll
    <2>2. corked' \in [Clients -> Nat]
      BY <1>6 DEF Output!Publish, OutputInv
    <2>3. live' \subseteq remembered'
      BY <2>1 DEF OutputInv
    <2> QED
      BY <1>6, <2>1, <2>2, <2>3, SendingKeeps DEF Output!Publish, OutputInv
  <1>7. CASE Output!Flush
    <2>1. /\ tasks # <<>> /\ tasks[1] = "flush" /\ tasks' = Tail(tasks)
          /\ buffered' \in [Clients -> Nat] /\ corked' = [c \in Clients |-> 0]
          /\ UNCHANGED <<live, remembered, lost, isShuttingDown>>
      BY <1>7 DEF Output!Flush, OutputInv
    <2>2. /\ tasks' \in Seq(Tasks) /\ Len(tasks') = Len(tasks) - 1
          /\ \A i \in 1 .. Len(tasks') : tasks'[i] = tasks[i + 1]
      BY <2>1, HeadTailProperties DEF OutputInv
    <2>3. CheckIsLast'
      BY <2>2 DEF OutputInv, CheckIsLast
    <2>4. CheckFollowsOutput'
      <3>1. tasks' # <<>> => tasks'[Len(tasks')] = tasks[Len(tasks)]
        BY <2>1, <2>2 DEF OutputInv
      <3>2. remembered = {} => Output!Checks(tasks') = {}
        BY <2>1, <2>2 DEF OutputInv, CheckFollowsOutput, Output!Checks
      <3> QED
        BY <2>1, <3>1, <3>2 DEF OutputInv, CheckFollowsOutput, Output!Checks
    <2>5. OutputIsChecked'
      <3> SUFFICES ASSUME NEW c \in live PROVE corked'[c] = 0 /\ tasks' # <<>>
        BY <2>1 DEF OutputIsChecked
      <3>1. c \in Clients /\ remembered # {} /\ tasks \in Seq(Tasks)
        BY DEF OutputInv
      <3>2. tasks[Len(tasks)] = "check"
        BY <2>1, <3>1 DEF OutputInv, CheckFollowsOutput
      <3>3. Len(tasks) # 1
        BY <2>1, <3>2
      <3> QED
        BY <2>1, <2>2, <3>1, <3>3
    <2> QED
      BY <2>1, <2>2, <2>3, <2>4, <2>5 DEF OutputInv
  <1>8. CASE Output!CheckBackpressure
    <2>1. /\ live' = live \ Output!Pressed
          /\ remembered' = remembered \ (Output!Pressed \cup (remembered \ live))
          /\ tasks # <<>> /\ tasks[1] = "check"
          /\ tasks' = Output!Forgotten(Tail(tasks), remembered')
          /\ UNCHANGED <<buffered, corked, lost, isShuttingDown>>
      BY <1>8 DEF Output!CheckBackpressure, Output!EnforceAll, OutputInv
    <2>2. Tail(tasks) = <<>>
      BY <2>1, HeadTailProperties DEF OutputInv, CheckIsLast
    <2>3. <<>> \in Seq(Tasks) /\ Output!Checks(<<>>) = {}
      BY DEF Output!Checks
    <2>4. tasks' = <<>>
      BY <2>1, <2>2, <2>3 DEF Output!Forgotten, Output!WithoutCheck
    <2>5. CheckIsLast' /\ CheckFollowsOutput'
      BY <2>3, <2>4 DEF CheckIsLast, CheckFollowsOutput
    <2>6. OutputIsChecked'
      <3> SUFFICES ASSUME NEW c \in live' PROVE ~(corked[c] > 0) /\ ~Output!OverLimit(c)
        BY <2>1 DEF OutputIsChecked, Output!OverLimit
      <3>1. c \in live /\ c \in remembered /\ c \notin Output!Pressed
        BY <2>1 DEF OutputInv
      <3> QED
        BY <2>1, <3>1 DEF OutputInv, OutputIsChecked, Output!Pressed
    <2> QED
      BY <2>1, <2>3, <2>4, <2>5, <2>6 DEF OutputInv
  <1>9. CASE Output!Shutdown
    <2>1. /\ live' = {} /\ remembered' = {} /\ tasks' = Output!WithoutCheck(tasks)
          /\ isShuttingDown' = TRUE /\ UNCHANGED <<buffered, corked, lost>>
      BY <1>9 DEF Output!Shutdown
    <2>2. tasks' = Output!Forgotten(tasks, {})
      BY <2>1 DEF Output!Forgotten
    <2>3. tasks' \in Seq(Tasks) /\ CheckIsLast' /\ Output!Checks(tasks') = {}
      BY <2>2, ForgottenTasks DEF OutputInv, CheckIsLast
    <2> QED
      BY <2>1, <2>3 DEF OutputInv, CheckFollowsOutput, OutputIsChecked
  <1> QED
    BY <1>1, <1>2, <1>3, <1>4, <1>5, <1>6, <1>7, <1>8, <1>9 DEF Output!Next

\* Slow sockets are retired and the others miss nothing: when the event loop is
\* quiet no live socket is over the limit or has missed a reply, for any number
\* of sockets, any limit and any order of output, flushes and closed connections.
THEOREM QuietServed == Output!Spec => []QuietMeansServed
  <1>1. Output!Init => OutputInv
    <2> SUFFICES ASSUME Output!Init PROVE OutputInv
      OBVIOUS
    <2>1. tasks = <<>> /\ tasks \in Seq(Tasks) /\ Output!Checks(tasks) = {}
      BY DEF Output!Init, Output!Checks
    <2>2. /\ buffered \in [Clients -> Nat] /\ corked \in [Clients -> Nat]
          /\ live = {} /\ remembered = {} /\ lost = {} /\ isShuttingDown = FALSE
      BY DEF Output!Init
    <2>3. CheckIsLast /\ CheckFollowsOutput /\ OutputIsChecked
      BY <2>1, <2>2 DEF CheckIsLast, CheckFollowsOutput, OutputIsChecked
    <2> QED
      BY <2>1, <2>2, <2>3 DEF OutputInv
  <1>2. OutputInv /\ [Output!Next]_Output!vars => OutputInv'
    <2>1. ASSUME OutputInv, UNCHANGED Output!vars
          PROVE  OutputInv'
      BY <2>1 DEF Output!vars, OutputInv, CheckIsLast, CheckFollowsOutput, OutputIsChecked,
                  Output!Checks, Output!OverLimit
    <2> QED
      BY <2>1, OutputKept
  <1>3. OutputInv => QuietMeansServed
    BY DEF OutputInv, OutputIsChecked, QuietMeansServed, Output!QuietMeansServed
  <1> QED
    BY <1>1, <1>2, <1>3, PTL DEF Output!Spec
=============================================================================
