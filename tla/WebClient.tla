------------------------------ MODULE WebClient ------------------------------
(***************************************************************************)
(* The web page's connection: WebSocketProvider.tsx, backendRequests.ts,   *)
(* webSocketTransport.ts, and the forms of useWebSocket.ts.  One action    *)
(* per event the browser dispatches: socket events, timers, a render, a    *)
(* click.  The state that refs and maps hold changes at once; what React   *)
(* holds is shown by the next Render.                                      *)
(*                                                                         *)
(* External: the sockets and react-use-websocket, from the callbacks and   *)
(* options the page gives them, and the server, from the messages it sends.*)
(***************************************************************************)
EXTENDS Naturals, Sequences, FiniteSets

CONSTANTS
    Tables,       \* values of the setting the drafted form edits
    FirstTable,
    None,         \* no socket, no value
    MaxPending,   \* requests awaiting confirmation, 64
    MaxSockets, MaxInbox,   \* bounds
    Budgets       \* bounds on [faults, changes, requests], and whether StrictMode remounts

Sockets == 1 .. MaxSockets
Settings == [table : Tables, available : BOOLEAN]

ASSUME TablesAssumption == FirstTable \in Tables /\ None \notin Tables
ASSUME NoneAssumption == None \notin Sockets /\ None \notin Settings
ASSUME RequestIdsAssumption == None \notin Nat
ASSUME BoundsAssumption ==
    /\ MaxPending \in Nat \ {0} /\ MaxSockets \in Nat \ {0, 1} /\ MaxInbox \in Nat
    /\ Budgets \subseteq [faults : Nat, changes : Nat, requests : Nat, remounts : {0, 1}]

RequestIds == 1 .. 2
Forms == {"table", "mode"}   \* a form with a draft, and a button

VARIABLES
    phase,          \* of a socket: "new", "connecting", "open", "closed", "gone"
    toServer,       \* commands on their way: an id and a value
    toClient,       \* messages on their way
    retries,        \* the library's reconnection timers
    server,         \* the settings, as its next snapshot shows them
    executed,       \* ids whose command the server has carried out
    active, connected, activityExpected,       \* activeSocketRef and the other refs
    initialStateTimeout, activityTimeout,      \* the socket of a timer; whether one runs
    outcome,        \* of a request, by id: "pending" until it settles
    pendingRef,     \* the request each form waits for
    state, isConnected, isActivityStale, activity,   \* React state
    shown,          \* the rendered isConnected, settings, and the draft
    validated,      \* sockets whose last snapshot was valid
    rejected,       \* sockets whose last snapshot was not
    edit,           \* the user's last edit, until a snapshot contradicts its form
    budget          \* faults, changes and requests left

network == <<phase, toServer, toClient, retries>>
backend == <<server, executed>>
refs == <<active, connected, activityExpected, initialStateTimeout, activityTimeout>>
react == <<state, isConnected, isActivityStale, activity>>
requests == <<outcome, pendingRef>>
history == <<validated, rejected, edit>>
vars == <<network, backend, refs, requests, react, shown, history, budget>>

\* When StrictMode mounts the provider twice, socket 1 was closed by the first
\* cleanup and its events still come.
Init ==
    /\ budget \in Budgets
    /\ phase = [s \in Sockets |-> IF s <= budget.remounts THEN "closed"
                                 ELSE IF s = budget.remounts + 1 THEN "connecting" ELSE "new"]
    /\ toServer = [s \in Sockets |-> <<>>] /\ toClient = [s \in Sockets |-> <<>>] /\ retries = 0
    /\ server = [table |-> FirstTable, available |-> TRUE] /\ executed = {}
    /\ active = None /\ connected = FALSE /\ activityExpected = FALSE
    /\ initialStateTimeout = None /\ activityTimeout = FALSE
    /\ outcome = <<>> /\ pendingRef = [f \in Forms |-> None]
    /\ state = None /\ isConnected = FALSE /\ isActivityStale = FALSE /\ activity = FALSE
    /\ shown = [isConnected |-> FALSE, state |-> None, draft |-> None]
    /\ validated = {} /\ rejected = {} /\ edit = None

Spend(what) == budget[what] > 0 /\ budget' = [budget EXCEPT ![what] = @ - 1]
Fault == Spend("faults")

Ids == DOMAIN outcome
Pending == {pendingRef[f] : f \in Forms} \ {None}
\* A promise that settles wakes its form, whatever the result.
Settle(ids, result) ==
    /\ outcome' = [id \in Ids |-> IF id \in ids THEN result ELSE outcome[id]]
    /\ pendingRef' = [f \in Forms |-> IF pendingRef[f] \in ids THEN None ELSE pendingRef[f]]

State(settings) == [kind |-> "state", data |-> settings]
Invalid == [kind |-> "invalid"]
Reply(id, kind) == [kind |-> kind, id |-> id]

-----------------------------------------------------------------------------
(* The provider *)

DisconnectRequests == Settle(Pending, "unknown")

ResetConnection ==
    /\ active' = None /\ connected' = FALSE /\ activityExpected' = FALSE
    /\ initialStateTimeout' = None /\ activityTimeout' = FALSE
    /\ isConnected' = FALSE /\ isActivityStale' = FALSE /\ activity' = FALSE
    /\ DisconnectRequests
    /\ UNCHANGED state

\* The server accepts and sends its first snapshot, or (a fault) none or an
\* invalid one.  The page starts over with this socket and subscribes to the
\* telemetry.
OnOpen(s) ==
    /\ phase[s] = "connecting" /\ phase' = [phase EXCEPT ![s] = "open"]
    /\ \/ toClient' = [toClient EXCEPT ![s] = <<State(server)>>] /\ UNCHANGED budget
       \/ toClient' \in {[toClient EXCEPT ![s] = q] : q \in {<<>>, <<Invalid>>}} /\ Fault
    /\ active' = s /\ connected' = FALSE /\ activityExpected' = FALSE
    /\ initialStateTimeout' = s /\ activityTimeout' = FALSE
    /\ isConnected' = FALSE /\ isActivityStale' = FALSE /\ activity' = FALSE
    /\ DisconnectRequests
    /\ UNCHANGED <<toServer, retries, backend, state, shown, history>>

\* The snapshot never came, or it races the timer.
InitialStateTimeout ==
    LET s == initialStateTimeout IN
    /\ s # None
    /\ IF \E i \in DOMAIN toClient[s] : toClient[s][i].kind = "state" THEN Fault ELSE UNCHANGED budget
    /\ IF active # s
       THEN /\ initialStateTimeout' = None
            /\ UNCHANGED <<active, connected, activityExpected, activityTimeout, react, requests, phase, toClient>>
       ELSE /\ ResetConnection
            /\ phase' = [phase EXCEPT ![s] = "closed"] /\ toClient' = [toClient EXCEPT ![s] = <<>>]
    /\ UNCHANGED <<toServer, retries, backend, shown, history>>

ShouldReconnectActive(s) == active' = s
ShouldReconnect(s) == active' = None \/ active' = s \/ phase[active'] # "open"

\* Error and close events come together; the library asks for a reconnection
\* after onClose.
OnDisconnect(s) ==
    /\ phase[s] = "closed" /\ phase' = [phase EXCEPT ![s] = "gone"]
    /\ IF s = active THEN ResetConnection ELSE UNCHANGED <<refs, react, requests>>
    /\ retries' = IF ShouldReconnect(s) THEN retries + 1 ELSE retries
    /\ validated' = validated \ {s} /\ rejected' = rejected \ {s}
    /\ UNCHANGED <<toServer, toClient, backend, shown, edit, budget>>

Receives(s) == toClient[s] # <<>> /\ toClient' = [toClient EXCEPT ![s] = Tail(@)]

\* A replaced socket is not listened to.
IgnoreMessage(s) ==
    /\ Receives(s) /\ s # active
    /\ UNCHANGED <<phase, toServer, retries, backend, refs, requests, react, shown, history, budget>>

ExpectActivityForGood(available) ==
    /\ activityExpected' = (activityExpected \/ available)
    /\ activity' = (activity /\ available)
    /\ isActivityStale' = (isActivityStale /\ available /\ activityExpected)
    /\ activityTimeout' = (available /\ (activityTimeout \/ ~activityExpected))

\* Monitoring starts with the first snapshot that offers fan control.
ExpectActivity(available) ==
    /\ activityExpected' = available
    /\ activity' = (activity /\ available)
    /\ isActivityStale' = (isActivityStale /\ available /\ activityExpected)
    /\ activityTimeout' = (available /\ (activityTimeout \/ ~activityExpected))

OnState(s) ==
    /\ Receives(s) /\ s = active /\ Head(toClient[s]).kind = "state"
    /\ LET data == Head(toClient[s]).data IN
       /\ ExpectActivity(data.available)
       /\ state' = data
       /\ edit' = IF shown.state # None /\ data.table = shown.state.table THEN edit ELSE None
    /\ initialStateTimeout' = None /\ connected' = TRUE /\ isConnected' = TRUE
    /\ validated' = validated \cup {s} /\ rejected' = rejected \ {s}
    /\ UNCHANGED <<phase, toServer, retries, backend, active, requests, shown, budget>>

OnInvalidState(s) ==
    /\ Receives(s) /\ s = active /\ Head(toClient[s]) = Invalid
    /\ connected' = FALSE /\ isConnected' = FALSE /\ activity' = FALSE
    /\ DisconnectRequests
    /\ validated' = validated \ {s} /\ rejected' = rejected \cup {s}
    /\ UNCHANGED <<phase, toServer, retries, backend, active, activityExpected, initialStateTimeout,
                   activityTimeout, state, isActivityStale, shown, edit, budget>>

\* Telemetry, which the server sends all the time.
OnActivity(s) ==
    /\ phase[s] = "open" /\ s = active
    /\ IF connected /\ activityExpected
       THEN activity' = TRUE /\ isActivityStale' = FALSE /\ activityTimeout' = TRUE
       ELSE UNCHANGED <<activity, isActivityStale, activityTimeout>>
    /\ UNCHANGED <<network, backend, active, connected, activityExpected, initialStateTimeout, requests,
                   state, isConnected, shown, history, budget>>

AnsweredInOrder(id) == Pending
\* receive(): a reply to a request that is no longer pending is dropped.
Answered(id) == Pending \cap {id}

OnReply(s) ==
    /\ Receives(s) /\ s = active /\ Head(toClient[s]).kind \in {"success", "error"}
    /\ LET reply == Head(toClient[s]) IN
       IF connected THEN Settle(Answered(reply.id), reply.kind) ELSE UNCHANGED requests
    /\ UNCHANGED <<phase, toServer, retries, backend, refs, react, shown, history, budget>>

ActivityTimeout ==
    /\ activityTimeout /\ activityTimeout' = FALSE /\ isActivityStale' = TRUE
    /\ UNCHANGED <<network, backend, active, connected, activityExpected, initialStateTimeout, requests,
                   state, isConnected, activity, shown, history, budget>>

RequestTimeout(id) ==
    /\ id \in Pending /\ Settle({id}, "unknown")
    /\ UNCHANGED <<network, backend, refs, react, shown, history, budget>>

-----------------------------------------------------------------------------
(* The forms *)

DraftOfState ==
    IF state = None THEN None ELSE IF shown.state # state THEN state.table ELSE shown.draft

\* useBackendDraft(): the draft follows the field's value when that changes.
Draft ==
    IF state = None THEN None
    ELSE IF shown.state = None \/ shown.state.table # state.table THEN state.table
    ELSE shown.draft

Render ==
    /\ shown' = [isConnected |-> isConnected, state |-> state, draft |-> Draft] /\ shown' # shown
    /\ UNCHANGED <<network, backend, refs, requests, react, history, budget>>

\* A form is disabled while its request is pending, the curves also while the
\* mode changes.
Enabled(form) ==
    /\ shown.isConnected /\ shown.state.available /\ pendingRef[form] = None
    /\ form = "table" => pendingRef["mode"] = None

Edit(table) ==
    /\ Enabled("table") /\ table # shown.draft
    /\ shown' = [shown EXCEPT !.draft = table]
    /\ edit' = IF state.table = shown.state.table THEN table ELSE None
    /\ UNCHANGED <<network, backend, refs, requests, react, validated, rejected, budget>>

CanSendToShown == shown.isConnected /\ active # None /\ Cardinality(Pending) < MaxPending /\ phase[active] = "open"
CanSend == connected /\ active # None /\ Cardinality(Pending) < MaxPending /\ phase[active] = "open"

\* runCommand() and sendRequest(): what cannot be sent now is never sent.
Submit(form) ==
    /\ Enabled(form) /\ budget.requests > 0
    /\ LET id == Len(outcome) + 1
           value == IF form = "table" THEN shown.draft ELSE None
           paid(faults) == [budget EXCEPT !.requests = @ - 1, !.faults = @ - faults]
       IN \/ /\ CanSend /\ budget' = paid(0)
             /\ outcome' = Append(outcome, "pending") /\ pendingRef' = [pendingRef EXCEPT ![form] = id]
             /\ toServer' = [toServer EXCEPT ![active] = Append(@, [id |-> id, value |-> value])]
          \/ /\ IF CanSend THEN budget.faults > 0 /\ budget' = paid(1)   \* bufferedAmount over its limit
                ELSE budget' = paid(0)
             /\ outcome' = Append(outcome, "unsent") /\ UNCHANGED <<toServer, pendingRef>>
    /\ UNCHANGED <<phase, toClient, retries, backend, refs, react, shown, history>>

-----------------------------------------------------------------------------
(* The library, the network and the server *)

Reconnect ==
    /\ retries > 0 /\ retries' = retries - 1
    /\ \E s \in Sockets :
        /\ phase[s] = "new" /\ \A t \in 1 .. s - 1 : phase[t] # "new"
        /\ phase' = [phase EXCEPT ![s] = "connecting"]
    /\ UNCHANGED <<toServer, toClient, backend, refs, requests, react, shown, history, budget>>

\* What the server has not read by now is lost, the rest it still handles.
Drop(s) ==
    /\ phase[s] \in {"connecting", "open"} /\ phase' = [phase EXCEPT ![s] = "closed"]
    /\ toClient' = [toClient EXCEPT ![s] = <<>>]
    /\ \E n \in 0 .. Len(toServer[s]) : toServer' = [toServer EXCEPT ![s] = SubSeq(@, 1, n)]
    /\ Fault
    /\ UNCHANGED <<retries, backend, refs, requests, react, shown, history>>

Open == {s \in Sockets : phase[s] = "open"}
Room(n) == \A s \in Open : Len(toClient[s]) + n <= MaxInbox
Broadcast(message) == [s \in Sockets |-> IF s \in Open THEN Append(toClient[s], message) ELSE toClient[s]]

\* A command is carried out, broadcast and answered; an error answers one
\* that was refused, or that was carried out and could not be saved.
Handle(s) ==
    /\ toServer[s] # <<>> /\ toServer' = [toServer EXCEPT ![s] = Tail(@)] /\ Room(2)
    /\ LET id == Head(toServer[s]).id
           value == Head(toServer[s]).value
           answered(boxes, kind) == [boxes EXCEPT ![s] = IF s \in Open THEN Append(@, Reply(id, kind)) ELSE @]
       IN \/ /\ executed' = executed \cup {id}
             /\ server' = IF value # None THEN [server EXCEPT !.table = value] ELSE server
             /\ \E kind \in {"success", "error"} :
                  toClient' = answered(IF server' # server THEN Broadcast(State(server')) ELSE toClient, kind)
          \/ toClient' = answered(toClient, "error") /\ UNCHANGED backend
    /\ UNCHANGED <<phase, retries, refs, requests, react, shown, history, budget>>

\* Another client's command, or a hardware channel that fails or comes back.
ServerChanges ==
    /\ server' \in Settings \ {server} /\ Spend("changes") /\ Room(1)
    /\ toClient' = Broadcast(State(server'))
    /\ UNCHANGED <<phase, toServer, retries, executed, refs, requests, react, shown, history>>

ServerMisbehaves ==
    /\ Open # {} /\ Fault /\ Room(1)
    /\ toClient' = Broadcast(Invalid)
    /\ UNCHANGED <<phase, toServer, retries, backend, refs, requests, react, shown, history>>

OnMessage(s) == IgnoreMessage(s) \/ OnState(s) \/ OnInvalidState(s) \/ OnReply(s)

Next ==
    \/ \E s \in Sockets :
        \/ OnOpen(s) \/ OnDisconnect(s) \/ Drop(s) \/ Handle(s)
        \/ IgnoreMessage(s) \/ OnState(s) \/ OnInvalidState(s) \/ OnActivity(s) \/ OnReply(s)
    \/ InitialStateTimeout \/ ActivityTimeout \/ \E id \in Ids : RequestTimeout(id)
    \/ Render \/ \E table \in Tables : Edit(table)
    \/ \E form \in Forms : Submit(form)
    \/ Reconnect \/ ServerChanges \/ ServerMisbehaves

Spec == Init /\ [][Next]_vars

\* Browsers dispatch the events of a socket in order and run timers, the
\* library reconnects, and a server that is up accepts and sends its snapshot.
\* Nothing is assumed of its answers, of the user or of the faults.
Fairness ==
    /\ \A s \in Sockets : WF_vars(OnOpen(s) \/ OnMessage(s) \/ OnDisconnect(s))
    /\ WF_vars(InitialStateTimeout) /\ WF_vars(Reconnect) /\ WF_vars(Render)
    /\ \A id \in RequestIds : WF_vars(RequestTimeout(id))

FairSpec == Spec /\ Fairness

-----------------------------------------------------------------------------
\* A command reported as accepted was carried out, whatever replies came late,
\* from a replaced connection or after a timeout; one reported as not sent was
\* not, and never will be, carried out.
OutcomesAreHonest ==
    \A id \in Ids : /\ outcome[id] = "success" => id \in executed
                    /\ outcome[id] = "unsent" =>
                        id \notin executed /\ \A s \in Sockets : \A i \in DOMAIN toServer[s] : toServer[s][i].id # id

\* A command only leaves on a connection that has itself delivered a valid
\* snapshot, and not after an invalid one: never on the one that happens to
\* replace the connection the user saw.
CommandsFollowSnapshot ==
    [][\A s \in Sockets : Len(toServer'[s]) > Len(toServer[s]) => s \in validated]_vars

\* While telemetry is expected, either its silence is being timed or the
\* user is told that it is stale, across snapshots that withdraw and restore
\* fan control and reconnections; readings and warnings are shown only then.
TelemetryIsWatched ==
    /\ activityExpected => activityTimeout \/ isActivityStale
    /\ activityTimeout \/ isActivityStale \/ activity => activityExpected
    /\ activity => connected

\* An edit survives lost connections, reconnections and every broadcast that
\* does not change the edited field.
EditsSurvive == edit # None => shown.draft = edit

\* Every request settles, so its form is enabled again.
EveryRequestSettles == \A id \in RequestIds : id \in Pending ~> id \notin Pending

\* When faults and changes have stopped the page shows the server's settings,
\* or says that the server's state is invalid.
Reconnects ==
    <>[](\/ shown.isConnected /\ shown.state = server
         \/ active \in rejected)

\* The page does not hang: no form waits for ever, and no connection is lost
\* for good.
PageRecovers == EveryRequestSettles /\ Reconnects
=============================================================================
