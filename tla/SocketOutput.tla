---------------------------- MODULE SocketOutput ----------------------------
(***************************************************************************)
(* Backpressure on the sockets of server/websocket/index.ts: direct        *)
(* replies, broadcasts that Bun flushes after the callback, and the one    *)
(* deferred check that must follow the latest flush.                       *)
(*                                                                         *)
(* The sizes are abstract: a message is one unit, and Limit units are      *)
(* MAX_BACKPRESSURE_BYTES.                                                 *)
(***************************************************************************)
EXTENDS Naturals, Sequences, FiniteSets

CONSTANTS
    Clients,
    Limit,       \* MAX_BACKPRESSURE_BYTES, not 0
    MaxOutput    \* bound on the replies and broadcasts

VARIABLES
    live,         \* sockets whose readyState is OPEN
    openSockets,  \* the sockets the server remembers
    buffered,     \* what a slow client has not taken yet
    corked,       \* output of this or an earlier callback, not yet flushed
    tasks,        \* the event loop's queue: "flush" and "check"
    lost,         \* sockets that missed a message
    isShuttingDown,
    output

vars == <<live, openSockets, buffered, corked, tasks, lost, isShuttingDown, output>>

Init ==
    /\ live = {} /\ openSockets = {} /\ lost = {}
    /\ buffered = [c \in Clients |-> 0] /\ corked = [c \in Clients |-> 0]
    /\ tasks = <<>> /\ isShuttingDown = FALSE /\ output = 0

\* clearBackpressureCheck(): there is at most one timer.
Checks(ts) == {i \in DOMAIN ts : ts[i] = "check"}
WithoutCheck(ts) ==
    IF Checks(ts) = {} THEN ts
    ELSE LET i == CHOOSE i \in Checks(ts) : TRUE IN
         SubSeq(ts, 1, i - 1) \o SubSeq(ts, i + 1, Len(ts))

\* forgetSocket(): the last socket takes the timer with it.
Forgotten(ts, sockets) == IF sockets = {} THEN WithoutCheck(ts) ELSE ts

BeforeLaterFlush(ts) == IF Checks(ts) # {} THEN ts ELSE Append(ts, "check")
\* One timer, moved behind the latest output.
CheckLast(ts) == Append(WithoutCheck(ts), "check")

\* scheduleBackpressureCheck(), after output that will be flushed.
Schedule(sockets) ==
    LET ts == Append(Forgotten(tasks, sockets), "flush") IN
    tasks' = IF isShuttingDown \/ sockets = {} THEN ts ELSE CheckLast(ts)

OverLimit(c) == buffered[c] >= Limit
Pressed == {c \in openSockets : OverLimit(c)}

\* enforceBackpressure() of every socket: those over the limit are terminated
\* and forgotten, those already closed are forgotten.
EnforceAll ==
    /\ live' = live \ Pressed
    /\ openSockets' = openSockets \ (Pressed \cup (openSockets \ live))

Retire(c) == live' = live \ {c} /\ openSockets' = openSockets \ {c}

-----------------------------------------------------------------------------
\* open(): the socket is remembered and sent its first snapshot.
Open(c) ==
    /\ c \notin live \cup openSockets /\ ~isShuttingDown
    /\ output < MaxOutput /\ output' = output + 1
    /\ live' = live \cup {c} /\ openSockets' = openSockets \cup {c}
    /\ buffered' = [buffered EXCEPT ![c] = 0] /\ corked' = [corked EXCEPT ![c] = 1]
    /\ lost' = lost \ {c}
    /\ Schedule(openSockets')
    /\ UNCHANGED isShuttingDown

\* A reply Bun dropped: the connection is given up, or the client would wait
\* for ever on an open socket.
Dropped(c) == Retire(c)

\* sendText() on an open socket.
SendText(c) ==
    /\ c \in live /\ output < MaxOutput /\ output' = output + 1
    /\ \/ /\ OverLimit(c) /\ Retire(c)
          /\ tasks' = Forgotten(tasks, openSockets')
          /\ UNCHANGED <<corked, lost>>
       \/ /\ ~OverLimit(c) /\ Dropped(c) /\ lost' = lost \cup {c}
          /\ tasks' = Forgotten(tasks, openSockets')
          /\ UNCHANGED corked
       \/ /\ ~OverLimit(c)
          /\ corked' = [corked EXCEPT ![c] = @ + 1]
          /\ Schedule(openSockets)
          /\ UNCHANGED <<live, openSockets, lost>>
    /\ UNCHANGED <<buffered, isShuttingDown>>

\* publish(): pressed sockets are retired first, the others get the message.
Publish ==
    /\ output < MaxOutput /\ output' = output + 1
    /\ EnforceAll
    /\ corked' = [c \in Clients |-> IF c \in live' THEN corked[c] + 1 ELSE corked[c]]
    /\ Schedule(openSockets')
    /\ UNCHANGED <<buffered, lost, isShuttingDown>>

\* The client reads.
Drain(c) ==
    /\ c \in live /\ buffered[c] > 0
    /\ buffered' = [buffered EXCEPT ![c] = @ - 1]
    /\ UNCHANGED <<live, openSockets, corked, tasks, lost, isShuttingDown, output>>

Flush ==
    /\ tasks # <<>> /\ Head(tasks) = "flush"
    /\ buffered' = [c \in Clients |-> buffered[c] + corked[c]]
    /\ corked' = [c \in Clients |-> 0]
    /\ tasks' = Tail(tasks)
    /\ UNCHANGED <<live, openSockets, lost, isShuttingDown, output>>

CheckBackpressure ==
    /\ tasks # <<>> /\ Head(tasks) = "check"
    /\ EnforceAll
    /\ tasks' = Forgotten(Tail(tasks), openSockets')
    /\ UNCHANGED <<buffered, corked, lost, isShuttingDown, output>>

\* A connection ends; the close callback follows at once or later.
Disconnect(c) ==
    /\ c \in live /\ live' = live \ {c}
    /\ UNCHANGED <<openSockets, buffered, corked, tasks, lost, isShuttingDown, output>>

Close(c) ==
    /\ c \in openSockets \ live
    /\ openSockets' = openSockets \ {c}
    /\ tasks' = Forgotten(tasks, openSockets')
    /\ UNCHANGED <<live, buffered, corked, lost, isShuttingDown, output>>

\* startWebSocketShutdown(), and the listeners that stop right after it.
Shutdown ==
    /\ ~isShuttingDown /\ isShuttingDown' = TRUE
    /\ openSockets' = {} /\ live' = {} /\ tasks' = WithoutCheck(tasks)
    /\ UNCHANGED <<buffered, corked, lost, output>>

Next ==
    \/ \E c \in Clients : Open(c) \/ SendText(c) \/ Drain(c) \/ Disconnect(c) \/ Close(c)
    \/ Publish \/ Flush \/ CheckBackpressure \/ Shutdown

Spec == Init /\ [][Next]_vars

-----------------------------------------------------------------------------
\* Output that is flushed after its callback is still checked: when the event
\* loop is quiet no open socket holds more than the limit, and none has missed
\* a message that was dropped for being over it.
QuietMeansServed ==
    tasks = <<>> /\ ~isShuttingDown => \A c \in live : ~OverLimit(c) /\ c \notin lost
=============================================================================
