--------------------------- MODULE PlasmaConnection ---------------------------
(***************************************************************************)
(* The Plasma widget's connection: BackendConnection.qml, and the forms of *)
(* FanTableEditor.qml and FullRepresentation.qml that wait for its reports.*)
(* One action per handler.  Unlike the page, the widget has one socket that*)
(* it opens again, and reports a result by a signal that carries an id.    *)
(*                                                                         *)
(* External: QtWebSockets, Qt.callLater and the server, from the handlers  *)
(* the widget gives them and the messages it reads.                        *)
(***************************************************************************)
EXTENDS Naturals, Sequences, FiniteSets

CONSTANTS
    None,                    \* no snapshot, no request
    MaximumPendingRequests,  \* 64
    MaxRequests, MaxUnread,  \* bounds
    Allowances               \* bounds on [faults, changes]

RequestIds == 1 .. MaxRequests
WidgetForms == {"curves", "mode"}

VARIABLES
    status,             \* of the socket: "connecting", "open", "closing", "closed"
    reconnectTimer, connectionWatchdog,
    keepaliveTimer,     \* with it run freshnessTimer and pongWatchdog
    latestState,        \* whether the snapshot offers fan control
    receivedActivityInCurrentPeriod, activityExpectedSince,
    pendingRequests,
    later,              \* what Qt.callLater will report: rejected and unsent ids
    pendingId,          \* the id each form waits for
    reports,            \* the results requestFinished gave each id
    unread,             \* messages on their way to the widget
    travelling,         \* ids on their way to the server
    current,            \* ids sent on the present connection
    carriedOut,         \* ids the server has carried out
    offered,            \* whether the server has fan control
    silent,             \* the peer neither answers nor closes
    allowance           \* faults and changes left

timers == <<reconnectTimer, connectionWatchdog, keepaliveTimer>>
readings == <<latestState, receivedActivityInCurrentPeriod, activityExpectedSince>>
asked == <<pendingRequests, later, pendingId, reports>>
outside == <<travelling, current, carriedOut, offered>>
widget == <<status, timers, readings, asked, unread, outside, silent, allowance>>

Init ==
    /\ status = "connecting" /\ reconnectTimer = FALSE /\ connectionWatchdog = TRUE /\ keepaliveTimer = FALSE
    /\ latestState = None /\ receivedActivityInCurrentPeriod = FALSE /\ activityExpectedSince = FALSE
    /\ pendingRequests = {} /\ later = [rejected |-> {}, unsent |-> {}]
    /\ pendingId = [f \in WidgetForms |-> None] /\ reports = <<>>
    /\ unread = <<>> /\ travelling = {} /\ current = {} /\ carriedOut = {}
    /\ offered \in BOOLEAN /\ silent = FALSE /\ allowance \in Allowances

May(what) == allowance[what] > 0 /\ allowance' = [allowance EXCEPT ![what] = @ - 1]
Trouble == May("faults")

Ready == status = "open" /\ latestState # None
Issued == DOMAIN reports

-----------------------------------------------------------------------------
(* Reports *)

\* requestFinished
Report(ids, result) ==
    reports' = [id \in Issued |-> IF id \in ids THEN Append(reports[id], result) ELSE reports[id]]

\* A form whose request is reported is free again, and every form is when the
\* connection is lost.
Release(ids) == pendingId' = [f \in WidgetForms |-> IF pendingId[f] \in ids THEN None ELSE pendingId[f]]
ReleaseAll == pendingId' = [f \in WidgetForms |-> None]

FinishUnchecked(ids, result) == pendingRequests' = pendingRequests \ ids /\ Report(ids, result) /\ Release(ids)
\* Only a request that is still pending is reported.
FinishRequest(ids, result) ==
    LET known == ids \cap pendingRequests IN
    pendingRequests' = pendingRequests \ known /\ Report(known, result) /\ Release(known)

CallLater(id) ==
    /\ \/ /\ id \in later.rejected /\ later' = [later EXCEPT !.rejected = @ \ {id}]
          /\ Report({id}, "failed") /\ Release({id}) /\ UNCHANGED pendingRequests
       \/ /\ id \in later.unsent /\ later' = [later EXCEPT !.unsent = @ \ {id}]
          /\ FinishRequest({id}, "failed")
    /\ UNCHANGED <<status, timers, readings, unread, outside, silent, allowance>>

-----------------------------------------------------------------------------
(* The connection *)

\* clearCachedData(), failPendingRequests() and the timers, as reconnect() and
\* the handler of Closed and Error have them.
StartOver ==
    /\ connectionWatchdog' = FALSE /\ keepaliveTimer' = FALSE /\ reconnectTimer' = TRUE
    /\ latestState' = None /\ receivedActivityInCurrentPeriod' = FALSE /\ activityExpectedSince' = FALSE
    /\ pendingRequests' = {} /\ Report(pendingRequests, "failed") /\ ReleaseAll
    /\ unread' = <<>> /\ current' = {}

\* reconnect(): an open socket starts to close, one that is connecting may
\* stay so.
Reconnect ==
    /\ StartOver
    /\ status' = IF status = "open" THEN "closing" ELSE status
    /\ UNCHANGED <<later, travelling, carriedOut, offered, silent>>

ConnectionWatchdog ==
    /\ connectionWatchdog /\ Reconnect
    /\ IF silent \/ (status = "open" /\ unread = <<>>) THEN UNCHANGED allowance ELSE Trouble

PongWatchdog == keepaliveTimer /\ Reconnect /\ IF silent THEN UNCHANGED allowance ELSE Trouble

\* The wall clock was set back, or the user entered another address.
Corrected == Reconnect /\ Trouble

\* The server accepts and sends its first snapshot, or (a fault) none or an
\* invalid one.
Opened ==
    /\ status = "connecting" /\ ~silent /\ status' = "open"
    /\ reconnectTimer' = FALSE /\ connectionWatchdog' = TRUE /\ keepaliveTimer' = TRUE
    /\ \/ unread' = <<[kind |-> "state", offered |-> offered]>> /\ UNCHANGED allowance
       \/ unread' \in {<<>>, <<[kind |-> "invalid"]>>} /\ Trouble
    /\ UNCHANGED <<readings, asked, outside, silent>>

\* Closed or Error; what is unread is lost, what travels may still arrive.
Closed ==
    /\ status # "closed" /\ ~silent /\ status' = "closed" /\ StartOver
    /\ IF status = "closing" \/ reconnectTimer THEN UNCHANGED allowance ELSE Trouble
    /\ UNCHANGED <<later, travelling, carriedOut, offered, silent>>

\* The peer starts to close: no longer connected, but without a handler.
PeerCloses ==
    /\ status = "open" /\ ~silent /\ Trouble /\ status' = "closing"
    /\ ReleaseAll /\ unread' = <<>> /\ current' = {}
    /\ UNCHANGED <<timers, readings, pendingRequests, later, reports, travelling, carriedOut, offered, silent>>

\* Qt may stay in Connecting without a notification, so that the timer itself
\* starts the watchdog.
Retry ==
    /\ reconnectTimer /\ reconnectTimer' = FALSE /\ connectionWatchdog' = TRUE
    /\ status' = "connecting" /\ silent' = FALSE
    /\ UNCHANGED <<keepaliveTimer, readings, asked, unread, outside, allowance>>

-----------------------------------------------------------------------------
(* handleMessage() *)

Message(kind) == status = "open" /\ ~silent /\ unread # <<>> /\ Head(unread).kind = kind /\ unread' = Tail(unread)

ValidState ==
    /\ Message("state") /\ latestState' = Head(unread).offered /\ connectionWatchdog' = FALSE
    /\ activityExpectedSince' = latestState'
    /\ receivedActivityInCurrentPeriod' = (receivedActivityInCurrentPeriod /\ latestState')
    /\ UNCHANGED <<status, reconnectTimer, keepaliveTimer, asked, outside, silent, allowance>>

InvalidState ==
    /\ Message("invalid") /\ latestState' = None /\ receivedActivityInCurrentPeriod' = FALSE
    /\ connectionWatchdog' = TRUE
    /\ FinishRequest(pendingRequests, "failed")
    /\ UNCHANGED <<status, reconnectTimer, keepaliveTimer, activityExpectedSince, later, outside, silent, allowance>>

Answer ==
    /\ Message("reply") /\ FinishRequest({Head(unread).id}, Head(unread).result)
    /\ UNCHANGED <<status, timers, readings, later, outside, silent, allowance>>

Activity ==
    /\ Ready /\ ~silent /\ latestState /\ receivedActivityInCurrentPeriod' = TRUE
    /\ UNCHANGED <<status, timers, latestState, activityExpectedSince, asked, unread, outside, silent, allowance>>

\* freshnessTimer, which only a connection runs.
RequestTimeout(id) ==
    /\ keepaliveTimer /\ id \in pendingRequests /\ FinishRequest({id}, "failed")
    /\ UNCHANGED <<status, timers, readings, later, unread, outside, silent, allowance>>

-----------------------------------------------------------------------------
(* The forms *)

Acceptable == latestState /\ Cardinality(pendingRequests) < MaximumPendingRequests

\* sendRequest() or rejectRequest(); the form learns the id from the call, so
\* a report may only come after it.
Submit(form) ==
    /\ Ready /\ (form = "mode" => latestState) /\ pendingId[form] = None
    /\ Len(reports) < MaxRequests
    /\ LET id == Len(reports) + 1 IN
       /\ pendingId' = [pendingId EXCEPT ![form] = id] /\ reports' = Append(reports, <<>>)
       /\ IF ~Acceptable
          THEN /\ later' = [later EXCEPT !.rejected = @ \cup {id}]
               /\ UNCHANGED <<pendingRequests, travelling, current, allowance>>
          ELSE /\ pendingRequests' = pendingRequests \cup {id}
               /\ \/ travelling' = travelling \cup {id} /\ current' = current \cup {id}
                     /\ UNCHANGED <<later, allowance>>
                  \/ later' = [later EXCEPT !.unsent = @ \cup {id}] /\ Trouble
                     /\ UNCHANGED <<travelling, current>>
    /\ UNCHANGED <<status, timers, readings, unread, carriedOut, offered, silent>>
-----------------------------------------------------------------------------
(* The server and the network *)

Room == Len(unread) < MaxUnread
Send(message) == unread' = IF status = "open" THEN Append(unread, message) ELSE unread

\* An error answers a request that was refused, or carried out and not saved.
Handle(id) ==
    /\ id \in travelling /\ Room /\ travelling' = travelling \ {id}
    /\ \E result \in {"success", "failed"} :
        /\ carriedOut' \in {carriedOut \cup {id}} \cup (IF result = "failed" THEN {carriedOut} ELSE {})
        /\ IF id \in current THEN Send([kind |-> "reply", id |-> id, result |-> result]) ELSE UNCHANGED unread
    /\ UNCHANGED <<status, timers, readings, asked, current, offered, silent, allowance>>

\* A hardware channel fails or comes back.
ServerChanges ==
    /\ May("changes") /\ Room /\ offered' = ~offered /\ Send([kind |-> "state", offered |-> offered'])
    /\ UNCHANGED <<status, timers, readings, asked, travelling, current, carriedOut, silent>>

ServerMisbehaves ==
    /\ status = "open" /\ Room /\ Trouble /\ Send([kind |-> "invalid"])
    /\ UNCHANGED <<status, timers, readings, asked, outside, silent>>

GoesSilent ==
    /\ status # "closed" /\ ~silent /\ Trouble /\ silent' = TRUE
    /\ UNCHANGED <<status, timers, readings, asked, unread, outside>>

Receive == ValidState \/ InvalidState \/ Answer

Next ==
    \/ \E id \in RequestIds : CallLater(id) \/ RequestTimeout(id) \/ Handle(id)
    \/ ConnectionWatchdog \/ PongWatchdog \/ Corrected \/ Retry
    \/ Opened \/ Closed \/ PeerCloses
    \/ ValidState \/ InvalidState \/ Answer \/ Activity
    \/ \E form \in WidgetForms : Submit(form)
    \/ ServerChanges \/ ServerMisbehaves \/ GoesSilent

\* Qt runs timers and postponed calls and tells what happens to the socket; a
\* server that is up accepts and sends its snapshot.
Fairness ==
    /\ WF_widget(Opened \/ Receive \/ Closed)
    /\ WF_widget(Retry) /\ WF_widget(ConnectionWatchdog) /\ WF_widget(PongWatchdog)
    /\ \A id \in RequestIds : WF_widget(CallLater(id)) /\ WF_widget(RequestTimeout(id))

FairSpec == Init /\ [][Next]_widget /\ Fairness

-----------------------------------------------------------------------------
\* A request is reported once, after the form that made it knows its id, and
\* as a success only if it was carried out, whatever replies come late or from
\* an earlier connection.
ReportedOnce ==
    \A id \in Issued :
        /\ Len(reports[id]) = IF id \in pendingRequests \cup later.rejected THEN 0 ELSE 1
        /\ \A i \in DOMAIN reports[id] : reports[id][i] = "success" => id \in carriedOut

\* A form only waits for a report that will come.
FormsWaitForReports ==
    \A f \in WidgetForms : pendingId[f] # None => pendingId[f] \in pendingRequests \cup later.rejected

\* Whatever the widget waits for has a deadline: a connection or a snapshot,
\* a close the peer began, a reply, the first reading of a period.
DeadlinesRun ==
    /\ Ready \/ reconnectTimer \/ connectionWatchdog \/ (status = "closing" /\ keepaliveTimer)
    /\ (status = "open" \/ pendingRequests # {}) => keepaliveTimer
    /\ (Ready /\ latestState) => activityExpectedSince

WidgetKeepsTrack == ReportedOnce /\ FormsWaitForReports /\ DeadlinesRun

\* Every request is reported, and when faults and changes have stopped the
\* widget shows the server's settings.
WidgetRecovers ==
    /\ \A id \in RequestIds : id \in Issued ~> id \in Issued /\ reports[id] # <<>>
    /\ <>[](Ready /\ latestState = offered)
=============================================================================
