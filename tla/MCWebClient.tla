---------------------------- MODULE MCWebClient ----------------------------
(***************************************************************************)
(* One client of the server: the page of WebClient, or the widget of       *)
(* PlasmaConnection.  The other is not in use and takes no step.           *)
(***************************************************************************)
EXTENDS WebClient

\* Two disturbances or commands, of every kind, and some longer combinations.
Budget(f, c, r, m) == [faults |-> f, changes |-> c, requests |-> r, remounts |-> m]
SomeBudgets ==
    {Budget(2, 0, 0, 0), Budget(0, 2, 0, 0), Budget(1, 0, 2, 0),
     Budget(1, 1, 0, 1), Budget(1, 0, 1, 1), Budget(1, 1, 1, 0)}
SomeAllowances == [faults : {2}, changes : {1}]

CONSTANTS MaximumPendingRequests, MaxRequests, MaxUnread
ASSUME SnapshotAssumption == None \notin BOOLEAN

VARIABLES
    client,   \* "page" or "widget"
    status, reconnectTimer, connectionWatchdog, keepaliveTimer,
    latestState, receivedActivityInCurrentPeriod, activityExpectedSince,
    pendingRequests, later, pendingId, reports,
    unread, travelling, current, carriedOut, offered, silent, allowance

widget ==
    <<status, reconnectTimer, connectionWatchdog, keepaliveTimer,
      latestState, receivedActivityInCurrentPeriod, activityExpectedSince,
      pendingRequests, later, pendingId, reports,
      unread, travelling, current, carriedOut, offered, silent, allowance>>

Plasma == INSTANCE PlasmaConnection WITH Allowances <- SomeAllowances

NoPage ==
    /\ budget = Budget(0, 0, 0, 0) /\ phase = [s \in Sockets |-> "gone"]
    /\ toServer = [s \in Sockets |-> <<>>] /\ toClient = [s \in Sockets |-> <<>>] /\ retries = 0
    /\ server = [table |-> FirstTable, available |-> TRUE] /\ executed = {}
    /\ active = None /\ connected = FALSE /\ activityExpected = FALSE
    /\ initialStateTimeout = None /\ activityTimeout = FALSE
    /\ outcome = <<>> /\ pendingRef = [f \in Forms |-> None]
    /\ state = None /\ isConnected = FALSE /\ isActivityStale = FALSE /\ activity = FALSE
    /\ shown = [isConnected |-> FALSE, state |-> None, draft |-> None]
    /\ validated = {} /\ rejected = {} /\ edit = None

NoWidget ==
    /\ status = "closed" /\ reconnectTimer = FALSE /\ connectionWatchdog = FALSE /\ keepaliveTimer = FALSE
    /\ latestState = None /\ receivedActivityInCurrentPeriod = FALSE /\ activityExpectedSince = FALSE
    /\ pendingRequests = {} /\ later = [rejected |-> {}, unsent |-> {}]
    /\ pendingId = [f \in Plasma!WidgetForms |-> None] /\ reports = <<>>
    /\ unread = <<>> /\ travelling = {} /\ current = {} /\ carriedOut = {}
    /\ offered = FALSE /\ silent = FALSE /\ allowance = [faults |-> 0, changes |-> 0]

MCInit ==
    \/ client = "page" /\ Init /\ NoWidget
    \/ client = "widget" /\ NoPage /\ Plasma!Init

MCNext ==
    \/ client = "page" /\ Next /\ UNCHANGED <<client, widget>>
    \/ client = "widget" /\ Plasma!Next /\ UNCHANGED <<client, vars>>

MCSpec == MCInit /\ [][MCNext]_<<client, vars, widget>> /\ Fairness /\ Plasma!Fairness

-----------------------------------------------------------------------------
\* The widget reports every request once and never waits without a deadline,
\* whatever its socket, its timers and the server do.
WidgetKeepsTrack == client = "widget" => Plasma!WidgetKeepsTrack

\* Neither client hangs: no form waits for ever, no connection is lost for
\* good, and when the faults have stopped the server's settings are shown.
ClientsRecover ==
    /\ client = "page" => PageRecovers
    /\ client = "widget" => Plasma!WidgetRecovers
=============================================================================
