-------------------------- MODULE WebClientProofs --------------------------
(***************************************************************************)
(* The web page's connection for any number of connections, requests,      *)
(* faults and values: what it tells the user about a command is true, a    *)
(* command needs a snapshot of its own connection, edits survive, and      *)
(* telemetry is watched; there is always a way on to a connection, and a   *)
(* form waits for a pending request.  The widget's: each is reported once, *)
(* and whatever the widget waits for has a deadline.                       *)
(***************************************************************************)
EXTENDS MCWebClient, SequenceTheorems, TLAPS

Phases == {"new", "connecting", "open", "closed", "gone"}
Outcomes == {"pending", "unsent", "success", "error", "unknown"}
Commands == [id : Nat, value : Tables \cup {None}]
Messages == [kind : {"state"}, data : Settings] \cup [kind : {"invalid"}]
            \cup [kind : {"success", "error"}, id : Nat]

Purse == [faults : Nat, changes : Nat, requests : Nat, remounts : {0, 1}]

NetworkType ==
    /\ phase \in [Sockets -> Phases]
    /\ toServer \in [Sockets -> Seq(Commands)] /\ toClient \in [Sockets -> Seq(Messages)]
    /\ retries \in Nat /\ server \in Settings /\ executed \subseteq Nat
RefsType ==
    /\ active \in Sockets \cup {None} /\ initialStateTimeout \in Sockets \cup {None}
    /\ connected \in BOOLEAN /\ activityExpected \in BOOLEAN /\ activityTimeout \in BOOLEAN
RequestsType == outcome \in Seq(Outcomes) /\ pendingRef \in [Forms -> Nat \cup {None}]
ReactType ==
    /\ state \in Settings \cup {None}
    /\ isConnected \in BOOLEAN /\ isActivityStale \in BOOLEAN /\ activity \in BOOLEAN
    /\ shown \in [isConnected : BOOLEAN, state : Settings \cup {None}, draft : Tables \cup {None}]
HistoryType ==
    /\ validated \subseteq Sockets /\ rejected \subseteq Sockets /\ edit \in Tables \cup {None}
    /\ budget \in Purse

TypeOK == NetworkType /\ RefsType /\ RequestsType /\ ReactType /\ HistoryType

-----------------------------------------------------------------------------
(* What is in a queue *)

Elements(queue) == {queue[i] : i \in DOMAIN queue}

\* Queues only change at their ends.
LEMMA QueueElements ==
    ASSUME NEW S, NEW queue \in Seq(S)
    PROVE  /\ Elements(<<>>) = {} /\ Elements(queue) \subseteq S
           /\ \A x \in S : Elements(Append(queue, x)) = Elements(queue) \cup {x}
           /\ queue # <<>> => Head(queue) \in Elements(queue) /\ Elements(Tail(queue)) \subseteq Elements(queue)
           /\ \A n \in 0 .. Len(queue) : Elements(SubSeq(queue, 1, n)) \subseteq Elements(queue)
  <1>1. Elements(<<>>) = {} /\ Elements(queue) \subseteq S
    BY DEF Elements
  <1>2. ASSUME NEW x \in S PROVE Elements(Append(queue, x)) = Elements(queue) \cup {x}
    <2>1. /\ Append(queue, x) \in Seq(S) /\ Len(Append(queue, x)) = Len(queue) + 1
          /\ \A i \in 1 .. Len(queue) : Append(queue, x)[i] = queue[i]
          /\ Append(queue, x)[Len(queue) + 1] = x
      BY AppendProperties
    <2>2. DOMAIN queue = 1 .. Len(queue) /\ DOMAIN Append(queue, x) = 1 .. Len(queue) + 1 /\ Len(queue) \in Nat
      BY <2>1
    <2> QED
      BY <2>1, <2>2 DEF Elements
  <1>3. ASSUME queue # <<>>
        PROVE  Head(queue) \in Elements(queue) /\ Elements(Tail(queue)) \subseteq Elements(queue)
    <2>1. /\ Head(queue) = queue[1] /\ Len(queue) \in Nat \ {0} /\ DOMAIN queue = 1 .. Len(queue)
          /\ Tail(queue) \in Seq(S) /\ Len(Tail(queue)) = Len(queue) - 1
          /\ \A i \in 1 .. Len(queue) - 1 : Tail(queue)[i] = queue[i + 1]
      BY <1>3
    <2>2. ASSUME NEW i \in DOMAIN Tail(queue) PROVE Tail(queue)[i] \in Elements(queue)
      <3>1. i + 1 \in DOMAIN queue /\ Tail(queue)[i] = queue[i + 1]
        BY <2>1
      <3> QED
        BY <3>1 DEF Elements
    <2> QED
      BY <2>1, <2>2 DEF Elements
  <1>4. ASSUME NEW n \in 0 .. Len(queue)
        PROVE  Elements(SubSeq(queue, 1, n)) \subseteq Elements(queue)
    <2>1. /\ SubSeq(queue, 1, n) \in Seq(S) /\ Len(SubSeq(queue, 1, n)) = n
          /\ \A i \in 1 .. n : SubSeq(queue, 1, n)[i] = queue[i]
      BY SubSeqProperties
    <2>2. \A i \in DOMAIN SubSeq(queue, 1, n) : i \in DOMAIN queue /\ SubSeq(queue, 1, n)[i] = queue[i]
      BY <2>1
    <2> QED
      BY <2>2 DEF Elements
  <1> QED
    BY <1>1, <1>2, <1>3, <1>4

-----------------------------------------------------------------------------
(* Types *)

\* Settling requests changes outcomes, not which requests there are.
LEMMA SettleType ==
    ASSUME RequestsType, NEW ids, NEW result \in Outcomes, Settle(ids, result)
    PROVE  /\ RequestsType' /\ Ids' = Ids
           /\ \A id \in Ids : outcome'[id] = IF id \in ids THEN result ELSE outcome[id]
  <1>1. Len(outcome) \in Nat /\ Ids = 1 .. Len(outcome)
    BY DEF RequestsType, Ids
  <1>2. outcome' = [id \in 1 .. Len(outcome) |-> IF id \in ids THEN result ELSE outcome[id]]
    BY <1>1 DEF Settle
  <1>3. \A id \in 1 .. Len(outcome) : (IF id \in ids THEN result ELSE outcome[id]) \in Outcomes
    BY DEF RequestsType
  <1>4. outcome' \in Seq(Outcomes) /\ DOMAIN outcome' = 1 .. Len(outcome)
    BY <1>1, <1>2, <1>3
  <1>5. pendingRef' \in [Forms -> Nat \cup {None}]
    BY DEF Settle, RequestsType
  <1> QED
    BY <1>1, <1>2, <1>4, <1>5 DEF RequestsType, Ids

\* The page starts typed.
LEMMA InitTyped == Init => TypeOK
  <1> SUFFICES ASSUME Init PROVE TypeOK
    OBVIOUS
  <1> USE TablesAssumption, NoneAssumption, BoundsAssumption
  <1>1. NetworkType
    BY DEF Init, NetworkType, Phases, Settings, Sockets
  <1>2. RefsType /\ HistoryType
    BY DEF Init, RefsType, HistoryType, Purse
  <1>3. RequestsType
    BY DEF Init, RequestsType
  <1>4. ReactType
    BY DEF Init, ReactType
  <1> QED
    BY <1>1, <1>2, <1>3, <1>4 DEF TypeOK

\* A budget is only spent while it lasts.
LEMMA SpendType ==
    ASSUME budget \in Purse, NEW what \in {"faults", "changes"}, Spend(what)
    PROVE  budget' \in Purse
  BY DEF Purse, Spend

\* A request costs one of its own and the faults it takes.
LEMMA PaidType ==
    ASSUME NEW purse \in Purse, NEW n \in Nat, purse.requests > 0, purse.faults >= n
    PROVE  [purse EXCEPT !.requests = @ - 1, !.faults = @ - n] \in Purse
  <1> DEFINE rest == [purse EXCEPT !.requests = @ - 1]
  <1>1. rest \in Purse /\ rest.faults = purse.faults
    BY DEF Purse
  <1>2. [purse EXCEPT !.requests = @ - 1, !.faults = @ - n] = [rest EXCEPT !.faults = @ - n]
    BY DEF Purse
  <1> HIDE DEF rest
  <1>3. [rest EXCEPT !.faults = @ - n] \in Purse
    BY <1>1 DEF Purse
  <1> QED
    BY <1>2, <1>3

\* Starting over keeps the types.
LEMMA ResetTyped ==
    ASSUME TypeOK, ResetConnection
    PROVE  RefsType' /\ RequestsType' /\ UNCHANGED state /\ isConnected' \in BOOLEAN
           /\ isActivityStale' \in BOOLEAN /\ activity' \in BOOLEAN
  <1>1. RequestsType'
    BY SettleType DEF TypeOK, ResetConnection, DisconnectRequests, Outcomes
  <1> QED
    BY <1>1 DEF ResetConnection, RefsType

\* A snapshot has settings in it.
LEMMA SnapshotData ==
    ASSUME TypeOK, NEW s \in Sockets, OnState(s)
    PROVE  Head(toClient[s]).data \in Settings
  <1>1. toClient[s] \in Seq(Messages) /\ toClient[s] # <<>> /\ Head(toClient[s]).kind = "state"
    BY DEF TypeOK, NetworkType, OnState, Receives
  <1>2. Head(toClient[s]) \in Messages
    BY <1>1
  <1> QED
    BY <1>1, <1>2 DEF Messages

\* Every event keeps the types.
LEMMA TypeStep ==
    ASSUME TypeOK, [Next]_vars
    PROVE  TypeOK'
  <1> USE TablesAssumption, NoneAssumption, BoundsAssumption
          DEF TypeOK, vars, network, backend, refs, react, requests, history
  <1>1. ASSUME NEW s \in Sockets, OnOpen(s) PROVE TypeOK'
    <2>1. RequestsType'
      BY <1>1, SettleType DEF OnOpen, DisconnectRequests, Outcomes
    <2>2. State(server) \in Messages /\ Invalid \in Messages
      BY DEF NetworkType, State, Invalid, Messages
    <2>3. toClient' \in [Sockets -> Seq(Messages)]
      <3>1. /\ <<>> \in Seq(Messages) /\ <<Invalid>> \in Seq(Messages)
            /\ <<State(server)>> \in Seq(Messages)
        BY <2>2
      <3>2. toClient' = [toClient EXCEPT ![s] = <<State(server)>>]
            \/ \E q \in {<<>>, <<Invalid>>} : toClient' = [toClient EXCEPT ![s] = q]
        BY <1>1 DEF OnOpen
      <3> QED
        BY <3>1, <3>2 DEF NetworkType
    <2>4. NetworkType'
      BY <1>1, <2>3 DEF OnOpen, NetworkType, Phases
    <2>5. HistoryType'
      BY <1>1, SpendType DEF OnOpen, HistoryType, Fault
    <2>6. RefsType' /\ ReactType'
      BY <1>1 DEF OnOpen, RefsType, ReactType
    <2> QED
      BY <2>1, <2>4, <2>5, <2>6
  <1>2. ASSUME NEW s \in Sockets, OnDisconnect(s) PROVE TypeOK'
    <2>1. RefsType' /\ RequestsType' /\ ReactType'
      BY <1>2, ResetTyped DEF OnDisconnect, RefsType, RequestsType, ReactType
    <2>2. NetworkType' /\ HistoryType'
      BY <1>2 DEF OnDisconnect, NetworkType, HistoryType, Phases
    <2> QED
      BY <2>1, <2>2
  <1>3. ASSUME NEW s \in Sockets, Drop(s) PROVE TypeOK'
    <2>1. NetworkType'
      <3>1. PICK n \in 0 .. Len(toServer[s]) : toServer' = [toServer EXCEPT ![s] = SubSeq(toServer[s], 1, n)]
        BY <1>3 DEF Drop
      <3>2. SubSeq(toServer[s], 1, n) \in Seq(Commands)
        BY DEF NetworkType
      <3> QED
        BY <1>3, <3>1, <3>2 DEF Drop, NetworkType, Phases
    <2>2. RefsType' /\ RequestsType' /\ ReactType' /\ HistoryType'
      BY <1>3 DEF Drop, RefsType, RequestsType, ReactType, HistoryType, Fault, Spend, Purse
    <2> QED
      BY <2>1, <2>2
  <1>4. ASSUME NEW s \in Sockets, Handle(s) PROVE TypeOK'
    <2>1. RefsType' /\ RequestsType' /\ ReactType' /\ HistoryType'
      BY <1>4 DEF Handle, RefsType, RequestsType, ReactType, HistoryType
    <2> DEFINE c == Head(toServer[s])
    <2>2. c \in Commands /\ Tail(toServer[s]) \in Seq(Commands)
      BY <1>4 DEF Handle, NetworkType
    <2>3. server' \in Settings /\ executed' \subseteq Nat /\ toServer' \in [Sockets -> Seq(Commands)]
      BY <1>4, <2>2 DEF Handle, NetworkType, Commands, Settings
    <2>4. \A kind \in {"success", "error"} : Reply(c.id, kind) \in Messages
      BY <2>2 DEF Reply, Messages, Commands
    <2>5. State(server') \in Messages
      BY <2>3 DEF State, Messages
    <2>6. Broadcast(State(server')) \in [Sockets -> Seq(Messages)]
      BY <2>5 DEF Broadcast, NetworkType
    <2>7. ASSUME NEW boxes \in [Sockets -> Seq(Messages)], NEW kind \in {"success", "error"}
          PROVE  [boxes EXCEPT ![s] = IF s \in Open THEN Append(@, Reply(c.id, kind)) ELSE @]
                    \in [Sockets -> Seq(Messages)]
      BY <2>4
    <2>8. toClient' \in [Sockets -> Seq(Messages)]
      <3> HIDE DEF c
      <3>1. PICK boxes \in [Sockets -> Seq(Messages)], kind \in {"success", "error"} :
               toClient' = [boxes EXCEPT ![s] = IF s \in Open THEN Append(@, Reply(c.id, kind)) ELSE @]
        BY <1>4, <2>6 DEF Handle, NetworkType, c
      <3> QED
        BY <2>7, <3>1
    <2>9. UNCHANGED <<phase, retries>>
      BY <1>4 DEF Handle
    <2> QED
      BY <2>1, <2>3, <2>8, <2>9 DEF NetworkType
  <1>5. ASSUME NEW s \in Sockets, IgnoreMessage(s) PROVE TypeOK'
    BY <1>5 DEF IgnoreMessage, Receives, NetworkType, RefsType, RequestsType, ReactType, HistoryType
  <1>6. ASSUME NEW s \in Sockets, OnState(s) PROVE TypeOK'
    <2> DEFINE data == Head(toClient[s]).data
    <2>1. data \in Settings
      BY <1>6, SnapshotData
    <2>2. NetworkType'
      BY <1>6 DEF OnState, Receives, NetworkType
    <2>3. data.available \in BOOLEAN
      BY <2>1 DEF Settings
    <2>4. /\ ExpectActivity(data.available) /\ state' = data /\ edit' \in {edit, None}
          /\ initialStateTimeout' = None /\ connected' = TRUE /\ isConnected' = TRUE
          /\ validated' = validated \cup {s} /\ rejected' = rejected \ {s}
          /\ UNCHANGED <<active, requests, shown, budget>>
      BY <1>6 DEF OnState
    <2> HIDE DEF data
    <2>5. RefsType' /\ RequestsType' /\ ReactType' /\ HistoryType'
      BY <2>1, <2>3, <2>4 DEF ExpectActivity, RefsType, RequestsType, ReactType, HistoryType
    <2> QED
      BY <2>2, <2>5
  <1>7. ASSUME NEW s \in Sockets, OnInvalidState(s) PROVE TypeOK'
    <2>1. RequestsType'
      BY <1>7, SettleType DEF OnInvalidState, DisconnectRequests, Outcomes
    <2>2. NetworkType'
      BY <1>7 DEF OnInvalidState, Receives, NetworkType
    <2>3. RefsType' /\ HistoryType'
      BY <1>7 DEF OnInvalidState, RefsType, HistoryType
    <2>4. ReactType'
      BY <1>7 DEF OnInvalidState, ReactType
    <2> QED
      BY <2>1, <2>2, <2>3, <2>4
  <1>8. ASSUME NEW s \in Sockets, OnActivity(s) PROVE TypeOK'
    <2>1. NetworkType' /\ RequestsType' /\ HistoryType'
      BY <1>8 DEF OnActivity, NetworkType, RequestsType, HistoryType
    <2>2. RefsType'
      BY <1>8 DEF OnActivity, RefsType
    <2>3. ReactType'
      BY <1>8 DEF OnActivity, ReactType
    <2> QED
      BY <2>1, <2>2, <2>3
  <1>9. ASSUME NEW s \in Sockets, OnReply(s) PROVE TypeOK'
    <2>1. RequestsType'
      BY <1>9, SettleType DEF OnReply, Outcomes, RequestsType
    <2>2. NetworkType' /\ RefsType' /\ ReactType' /\ HistoryType'
      BY <1>9 DEF OnReply, Receives, NetworkType, RefsType, ReactType, HistoryType
    <2> QED
      BY <2>1, <2>2
  <1>10. ASSUME InitialStateTimeout PROVE TypeOK'
    <2>1. RefsType' /\ RequestsType' /\ ReactType'
      BY <1>10, ResetTyped DEF InitialStateTimeout, RefsType, RequestsType, ReactType
    <2>2. initialStateTimeout \in Sockets
      BY <1>10 DEF InitialStateTimeout, RefsType
    <2>3. NetworkType'
      <3>1. <<>> \in Seq(Messages) /\ "closed" \in Phases
        BY DEF Phases
      <3>2. \/ UNCHANGED <<phase, toClient>>
            \/ /\ phase' = [phase EXCEPT ![initialStateTimeout] = "closed"]
               /\ toClient' = [toClient EXCEPT ![initialStateTimeout] = <<>>]
        BY <1>10 DEF InitialStateTimeout
      <3>3. UNCHANGED <<toServer, retries, backend>>
        BY <1>10 DEF InitialStateTimeout
      <3> QED
        BY <2>2, <3>1, <3>2, <3>3 DEF NetworkType
    <2>4. HistoryType'
      <3>1. UNCHANGED history /\ (UNCHANGED budget \/ Fault)
        BY <1>10 DEF InitialStateTimeout
      <3> QED
        BY <3>1, SpendType DEF HistoryType, Fault
    <2> QED
      BY <2>1, <2>3, <2>4
  <1>11. ASSUME ActivityTimeout PROVE TypeOK'
    <2>1. NetworkType' /\ RequestsType' /\ HistoryType'
      BY <1>11 DEF ActivityTimeout, NetworkType, RequestsType, HistoryType
    <2>2. RefsType' /\ ReactType'
      BY <1>11 DEF ActivityTimeout, RefsType, ReactType
    <2> QED
      BY <2>1, <2>2
  <1>12. ASSUME NEW id \in Ids, RequestTimeout(id) PROVE TypeOK'
    <2>1. RequestsType'
      BY <1>12, SettleType DEF RequestTimeout, Outcomes
    <2> QED
      BY <1>12, <2>1 DEF RequestTimeout, NetworkType, RefsType, ReactType, HistoryType
  <1>13. ASSUME Render PROVE TypeOK'
    <2>1. Draft \in Tables \cup {None}
      BY DEF Draft, ReactType, Settings
    <2> QED
      BY <1>13, <2>1 DEF Render, NetworkType, RefsType, RequestsType, ReactType, HistoryType
  <1>14. ASSUME NEW table \in Tables, Edit(table) PROVE TypeOK'
    <2>1. NetworkType' /\ RequestsType' /\ RefsType'
      BY <1>14 DEF Edit, NetworkType, RequestsType, RefsType
    <2>2. ReactType' /\ HistoryType'
      BY <1>14 DEF Edit, ReactType, HistoryType
    <2> QED
      BY <2>1, <2>2
  <1>15. ASSUME NEW form \in Forms, Submit(form) PROVE TypeOK'
    <2> DEFINE value == IF form = "table" THEN shown.draft ELSE None
               command == [id |-> Len(outcome) + 1, value |-> value]
    <2>1. command \in Commands
      BY DEF Commands, RequestsType, ReactType
    <2>2. RequestsType'
      <3>1. PICK result \in {"pending", "unsent"} :
               /\ outcome' = Append(outcome, result)
               /\ pendingRef' \in {pendingRef, [pendingRef EXCEPT ![form] = Len(outcome) + 1]}
        BY <1>15 DEF Submit
      <3>2. outcome \in Seq(Outcomes) /\ result \in Outcomes /\ Len(outcome) + 1 \in Nat
        BY <3>1 DEF RequestsType, Outcomes
      <3> QED
        BY <3>1, <3>2 DEF RequestsType
    <2>3. \/ toServer' = toServer
          \/ active \in Sockets /\ toServer' = [toServer EXCEPT ![active] = Append(@, command)]
      <3>1. \/ active # None /\ toServer' = [toServer EXCEPT ![active] = Append(@, command)]
            \/ toServer' = toServer
        BY <1>15 DEF Submit, CanSend
      <3> HIDE DEF command
      <3>2. active \in Sockets \/ active = None
        BY DEF RefsType
      <3> QED
        BY <3>1, <3>2, Zenon
    <2>4. budget' \in Purse
      <3>1. budget.requests > 0
        BY <1>15 DEF Submit
      <3>2. \/ budget' = [budget EXCEPT !.requests = @ - 1, !.faults = @ - 0]
            \/ budget.faults > 0 /\ budget' = [budget EXCEPT !.requests = @ - 1, !.faults = @ - 1]
        BY <1>15 DEF Submit
      <3>3. budget.requests \in Nat /\ budget.faults \in Nat /\ budget \in Purse
        BY DEF HistoryType, Purse
      <3>4. PICK n \in {0, 1} :
               budget.faults >= n /\ budget' = [budget EXCEPT !.requests = @ - 1, !.faults = @ - n]
        BY <3>2, <3>3
      <3>5. n \in Nat
        BY <3>4
      <3> QED
        BY <3>1, <3>3, <3>4, <3>5, PaidType
    <2>5. UNCHANGED <<phase, toClient, retries, backend, refs, react, shown, history>>
      BY <1>15 DEF Submit
    <2> HIDE DEF command
    <2>6. toServer' \in [Sockets -> Seq(Commands)]
      <3>1. \A s \in Sockets : Append(toServer[s], command) \in Seq(Commands)
        BY <2>1 DEF NetworkType
      <3>2. toServer \in [Sockets -> Seq(Commands)]
        BY DEF NetworkType
      <3> QED
        BY <2>3, <3>1, <3>2
    <2>7. RefsType' /\ ReactType' /\ HistoryType'
      BY <2>4, <2>5 DEF RefsType, ReactType, HistoryType
    <2> QED
      BY <2>2, <2>5, <2>6, <2>7 DEF NetworkType
  <1>16. ASSUME Reconnect PROVE TypeOK'
    BY <1>16 DEF Reconnect, NetworkType, RefsType, RequestsType, ReactType, HistoryType, Phases
  <1>17. ASSUME ServerChanges \/ ServerMisbehaves PROVE TypeOK'
    <2>1. RefsType' /\ RequestsType' /\ ReactType' /\ HistoryType'
      BY <1>17 DEF ServerChanges, ServerMisbehaves, RefsType, RequestsType, ReactType, HistoryType, Fault, Spend, Purse
    <2>2. server' \in Settings
      BY <1>17 DEF ServerChanges, ServerMisbehaves, NetworkType
    <2>3. State(server') \in Messages /\ Invalid \in Messages
      BY <2>2 DEF State, Invalid, Messages
    <2>4. \A m \in Messages : Broadcast(m) \in [Sockets -> Seq(Messages)]
      BY DEF Broadcast, NetworkType
    <2>5. toClient' \in [Sockets -> Seq(Messages)]
      BY <1>17, <2>3, <2>4 DEF ServerChanges, ServerMisbehaves
    <2> QED
      BY <1>17, <2>1, <2>2, <2>5 DEF ServerChanges, ServerMisbehaves, NetworkType
  <1>18. CASE UNCHANGED vars
    BY <1>18 DEF NetworkType, RefsType, RequestsType, ReactType, HistoryType
  <1> QED
    BY <1>1, <1>2, <1>3, <1>4, <1>5, <1>6, <1>7, <1>8, <1>9, <1>10, <1>11, <1>12, <1>13, <1>14, <1>15,
       <1>16, <1>17, <1>18 DEF Next

\* Every variable keeps its type.
THEOREM TypeCorrect == Spec => []TypeOK
  BY InitTyped, TypeStep, PTL DEF Spec

-----------------------------------------------------------------------------
(* What the user is told about a command *)

InFlight(s) == Elements(toServer[s])
Inbox(s) == Elements(toClient[s])

\* A command that is on its way or was carried out is one that was sent, and
\* a success, on its way or told, is of one that was carried out.
Honest ==
    /\ \A s \in Sockets : \A c \in InFlight(s) : c.id \in Ids /\ outcome[c.id] # "unsent"
    /\ \A id \in executed : id \in Ids /\ outcome[id] # "unsent"
    /\ \A s \in Sockets : \A m \in Inbox(s) : m.kind = "success" => m.id \in executed
    /\ \A id \in Ids : outcome[id] = "success" => id \in executed

\* What the user sees of it.
LEMMA HonestTells == TypeOK /\ Honest => OutcomesAreHonest
  <1> SUFFICES ASSUME TypeOK, Honest, NEW id \in Ids
               PROVE  /\ outcome[id] = "success" => id \in executed
                      /\ outcome[id] = "unsent" =>
                           id \notin executed /\ \A s \in Sockets : \A i \in DOMAIN toServer[s] : toServer[s][i].id # id
    BY DEF OutcomesAreHonest
  <1>1. ASSUME outcome[id] = "unsent", NEW s \in Sockets, NEW i \in DOMAIN toServer[s]
        PROVE  toServer[s][i].id # id
    <2>1. toServer[s][i] \in InFlight(s)
      BY DEF InFlight, Elements
    <2> QED
      BY <1>1, <2>1 DEF Honest
  <1> QED
    BY <1>1 DEF Honest

\* An outcome that is settled now: a success needs the command carried out.
Settles == \E result \in {"unknown", "error", "success"} : \E ids :
              Settle(ids, result) /\ (result = "success" => ids \cap Ids \subseteq executed)

NothingNewSent == \A s \in Sockets : Elements(toServer'[s]) \subseteq InFlight(s)
NoNewSuccess == \A s \in Sockets : \A m \in Elements(toClient'[s]) : m.kind = "success" => m \in Inbox(s)

\* Whatever neither sends, nor carries out, nor answers keeps it.
LEMMA HonestKept ==
    ASSUME TypeOK, Honest, NothingNewSent, NoNewSuccess, executed' = executed,
           UNCHANGED outcome \/ Settles
    PROVE  Honest'
  <1>1. Ids' = Ids
    <2>1. CASE UNCHANGED outcome
      BY <2>1 DEF Ids
    <2>2. CASE Settles
      BY <2>2, SettleType DEF Settles, TypeOK, Outcomes
    <2> QED
      BY <2>1, <2>2
  <1>2. ASSUME NEW id \in Ids PROVE outcome[id] # "unsent" => outcome'[id] # "unsent"
    <2>1. CASE UNCHANGED outcome
      BY <2>1
    <2>2. CASE Settles
      BY <2>2, SettleType DEF Settles, TypeOK, Outcomes
    <2> QED
      BY <2>1, <2>2
  <1>3. ASSUME NEW id \in Ids PROVE outcome'[id] = "success" => id \in executed
    <2>1. CASE UNCHANGED outcome
      BY <2>1 DEF Honest
    <2>2. CASE Settles
      <3>0. PICK result \in {"unknown", "error", "success"} : \E ids :
               Settle(ids, result) /\ (result = "success" => ids \cap Ids \subseteq executed)
        BY <2>2 DEF Settles
      <3>1. PICK ids : Settle(ids, result) /\ (result = "success" => ids \cap Ids \subseteq executed)
        BY <3>0
      <3>2. outcome'[id] = IF id \in ids THEN result ELSE outcome[id]
        BY <3>1, SettleType DEF TypeOK, Outcomes
      <3> QED
        BY <3>1, <3>2 DEF Honest
    <2> QED
      BY <2>1, <2>2
  <1>4. \A s \in Sockets : InFlight(s)' \subseteq InFlight(s)
    BY DEF NothingNewSent, InFlight
  <1>5. \A s \in Sockets : \A m \in Inbox(s)' : m.kind = "success" => m.id \in executed
    BY DEF NoNewSuccess, Inbox, Honest
  <1> QED
    BY <1>1, <1>2, <1>3, <1>4, <1>5 DEF Honest

\* What counts as settling, and a lost connection.
LEMMA SettlingSettles ==
    ASSUME NEW ids, NEW result \in {"unknown", "error", "success"}, Settle(ids, result),
           result = "success" => ids \cap Ids \subseteq executed
    PROVE  Settles
  BY Zenon DEF Settles

LEMMA DisconnectSettles == ASSUME DisconnectRequests PROVE Settles
  BY SettlingSettles DEF DisconnectRequests

\* Reading a message adds none.
LEMMA ReceiveKeeps ==
    ASSUME TypeOK, NEW s \in Sockets, Receives(s)
    PROVE  NoNewSuccess /\ Head(toClient[s]) \in Inbox(s)
  <1>1. toClient[s] \in Seq(Messages) /\ toClient[s] # <<>>
    BY DEF TypeOK, NetworkType, Receives
  <1>2. Elements(Tail(toClient[s])) \subseteq Inbox(s) /\ Head(toClient[s]) \in Inbox(s)
    BY <1>1, QueueElements DEF Inbox
  <1>3. \A t \in Sockets : toClient'[t] = IF t = s THEN Tail(toClient[s]) ELSE toClient[t]
    BY DEF TypeOK, NetworkType, Receives
  <1>4. \A t \in Sockets : Elements(toClient'[t]) \subseteq Inbox(t)
    BY <1>2, <1>3 DEF Inbox
  <1> QED
    BY <1>2, <1>4 DEF NoNewSuccess

\* A broadcast of anything but a success adds no success.
LEMMA BroadcastKeeps ==
    ASSUME TypeOK, NEW message \in Messages, message.kind # "success", NEW s \in Sockets,
           NEW m \in Elements(Broadcast(message)[s])
    PROVE  m.kind = "success" => m \in Inbox(s)
  <1>1. toClient[s] \in Seq(Messages)
    BY DEF TypeOK, NetworkType
  <1>2. Elements(Append(toClient[s], message)) = Inbox(s) \cup {message}
    BY <1>1, QueueElements DEF Inbox
  <1>3. Broadcast(message)[s] = IF s \in Open THEN Append(toClient[s], message) ELSE toClient[s]
    BY DEF Broadcast
  <1> QED
    BY <1>2, <1>3 DEF Inbox

\* Nothing is sent at first.
LEMMA HonestInit == Init => Honest
  <1> SUFFICES ASSUME Init PROVE Honest
    OBVIOUS
  <1>1. Ids = {} /\ executed = {}
    BY DEF Init, Ids
  <1>2. \A s \in Sockets : InFlight(s) = {} /\ Inbox(s) = {}
    BY DEF Init, InFlight, Inbox, Elements
  <1> QED
    BY <1>1, <1>2 DEF Honest

\* Carrying a command out and answering it.
LEMMA HonestHandle ==
    ASSUME TypeOK, Honest, NEW s \in Sockets, Handle(s)
    PROVE  Honest'
  <1> DEFINE c == Head(toServer[s])
  <1>1. c \in InFlight(s) /\ \A t \in Sockets : InFlight(t)' \subseteq InFlight(t)
    <2>1. toServer[s] \in Seq(Commands) /\ toServer[s] # <<>>
      BY DEF TypeOK, NetworkType, Handle
    <2>2. Elements(Tail(toServer[s])) \subseteq InFlight(s) /\ c \in InFlight(s)
      BY <2>1, QueueElements DEF InFlight
    <2>3. \A t \in Sockets : toServer'[t] = IF t = s THEN Tail(toServer[s]) ELSE toServer[t]
      BY DEF TypeOK, NetworkType, Handle
    <2> QED
      BY <2>2, <2>3 DEF InFlight
  <1>2. c.id \in Ids /\ outcome[c.id] # "unsent"
    BY <1>1 DEF Honest
  <1>3. c \in Commands
    BY DEF TypeOK, NetworkType, Handle
  <1>4. UNCHANGED outcome /\ Ids' = Ids
    BY DEF Handle, requests, Ids
  <1> DEFINE answered(boxes, kind) == [boxes EXCEPT ![s] = IF s \in Open THEN Append(@, Reply(c.id, kind)) ELSE @]
  <1>5. ASSUME NEW boxes \in [Sockets -> Seq(Messages)], NEW kind \in {"success", "error"}, NEW t \in Sockets,
               NEW m \in Elements(answered(boxes, kind)[t])
        PROVE  m \in Elements(boxes[t]) \/ m = Reply(c.id, kind)
    <2>1. Reply(c.id, kind) \in Messages
      BY <1>3 DEF Reply, Messages, Commands
    <2>2. boxes[t] \in Seq(Messages)
      OBVIOUS
    <2>3. Elements(Append(boxes[t], Reply(c.id, kind))) = Elements(boxes[t]) \cup {Reply(c.id, kind)}
      BY <2>1, <2>2, QueueElements
    <2> HIDE DEF c
    <2>4. answered(boxes, kind)[t] \in {boxes[t], Append(boxes[t], Reply(c.id, kind))}
      OBVIOUS
    <2> QED
      BY <2>3, <2>4
  <1> HIDE DEF c
  <1>6. CASE /\ executed' = executed \cup {c.id}
             /\ \E kind \in {"success", "error"} :
                  toClient' = answered(IF server' # server THEN Broadcast(State(server')) ELSE toClient, kind)
    <2> DEFINE boxes == IF server' # server THEN Broadcast(State(server')) ELSE toClient
    <2>1. State(server') \in Messages /\ State(server').kind # "success"
      BY TypeStep DEF Next, TypeOK, NetworkType, State, Messages
    <2>2. boxes \in [Sockets -> Seq(Messages)]
      BY <2>1 DEF Broadcast, TypeOK, NetworkType
    <2>3. ASSUME NEW t \in Sockets, NEW m \in Elements(boxes[t]) PROVE m.kind = "success" => m \in Inbox(t)
      <3>1. CASE server' # server
        BY <2>1, <2>3, <3>1, BroadcastKeeps
      <3>2. CASE server' = server
        BY <2>3, <3>2 DEF Inbox
      <3> QED
        BY <3>1, <3>2
    <2>4. PICK kind \in {"success", "error"} : toClient' = answered(boxes, kind)
      BY <1>6
    <2> HIDE DEF boxes, answered
    <2>5. ASSUME NEW t \in Sockets, NEW m \in Inbox(t)', m.kind = "success" PROVE m.id \in executed'
      <3>1. m \in Elements(boxes[t]) \/ m = Reply(c.id, kind)
        BY <1>5, <2>2, <2>4 DEF Inbox
      <3>2. CASE m \in Elements(boxes[t])
        BY <1>6, <2>3, <2>5, <3>2 DEF Honest
      <3>3. CASE m = Reply(c.id, kind)
        BY <1>6, <3>3 DEF Reply
      <3> QED
        BY <3>1, <3>2, <3>3
    <2> QED
      BY <1>1, <1>2, <1>4, <1>6, <2>5 DEF Honest
  <1>7. CASE toClient' = answered(toClient, "error") /\ UNCHANGED backend
    <2>1. toClient \in [Sockets -> Seq(Messages)]
      BY DEF TypeOK, NetworkType
    <2> HIDE DEF answered
    <2>2. ASSUME NEW t \in Sockets, NEW m \in Inbox(t)', m.kind = "success" PROVE m.id \in executed
      <3>1. m \in Inbox(t) \/ m = Reply(c.id, "error")
        BY <1>5, <1>7, <2>1 DEF Inbox
      <3>2. m \in Inbox(t)
        BY <2>2, <3>1 DEF Reply
      <3> QED
        BY <2>2, <3>2 DEF Honest
    <2>3. executed' = executed
      BY <1>7 DEF backend
    <2> QED
      BY <1>1, <1>2, <1>4, <2>2, <2>3 DEF Honest
  <1> QED
    BY <1>6, <1>7 DEF Handle, c

\* Sending one, or telling the user that it was not sent.
LEMMA HonestSubmit ==
    ASSUME TypeOK, Honest, NEW form \in Forms, Submit(form)
    PROVE  Honest'
  <1> DEFINE id == Len(outcome) + 1
             value == IF form = "table" THEN shown.draft ELSE None
             command == [id |-> id, value |-> value]
  <1>1. /\ Ids = 1 .. Len(outcome) /\ Len(outcome) \in Nat
        /\ outcome \in Seq(Outcomes) /\ "pending" \in Outcomes /\ "unsent" \in Outcomes
    BY DEF TypeOK, RequestsType, Ids, Outcomes
  <1>2. PICK result \in {"pending", "unsent"} :
           /\ outcome' = Append(outcome, result)
           /\ \/ toServer' = toServer
              \/ /\ result = "pending" /\ active # None
                 /\ toServer' = [toServer EXCEPT ![active] = Append(@, command)]
    BY DEF Submit, CanSend
  <1>3. UNCHANGED <<toClient, executed>>
    BY DEF Submit, backend
  <1>4. /\ Ids' = 1 .. id /\ id \notin Ids /\ Ids \subseteq Ids' /\ outcome'[id] = result
        /\ \A k \in Ids : outcome'[k] = outcome[k]
    BY <1>1, <1>2, AppendProperties DEF Ids
  <1>5. id \notin executed /\ \A s \in Sockets : Inbox(s)' = Inbox(s)
    BY <1>3, <1>4 DEF Honest, Inbox
  <1>6. ASSUME NEW s \in Sockets, NEW c \in InFlight(s)'
        PROVE  c \in InFlight(s) \/ (c.id = id /\ result = "pending")
    <2>1. toServer[s] \in Seq(Commands) /\ toServer \in [Sockets -> Seq(Commands)]
      BY DEF TypeOK, NetworkType
    <2>2. command \in Commands /\ command.id = id
      BY <1>1 DEF Commands, TypeOK, ReactType
    <2> HIDE DEF command
    <2>3. Elements(Append(toServer[s], command)) = InFlight(s) \cup {command}
      BY <2>1, <2>2, QueueElements DEF InFlight
    <2>4. toServer'[s] = toServer[s] \/ (result = "pending" /\ toServer'[s] = Append(toServer[s], command))
      BY <1>2, <2>1
    <2> QED
      BY <2>2, <2>3, <2>4 DEF InFlight
  <1> HIDE DEF id
  <1>7. \A s \in Sockets : \A c \in InFlight(s)' : c.id \in Ids' /\ outcome'[c.id] # "unsent"
    BY <1>1, <1>4, <1>6 DEF Honest, id
  <1>8. \A k \in executed : k \in Ids' /\ outcome'[k] # "unsent"
    BY <1>4 DEF Honest
  <1>9. \A k \in Ids' : outcome'[k] = "success" => k \in executed
    <2>1. \A k \in Ids' : k \in Ids \/ k = id
      BY <1>1, <1>4 DEF id
    <2> QED
      BY <1>2, <1>4, <2>1 DEF Honest
  <1> QED
    BY <1>3, <1>5, <1>7, <1>8, <1>9 DEF Honest

\* Every event keeps what the user is told honest.
LEMMA HonestStep ==
    ASSUME TypeOK, Honest, [Next]_vars
    PROVE  Honest'
  <1> USE DEF vars, network, backend, refs, react, requests, history
  <1>0. ASSUME toServer' = toServer PROVE NothingNewSent
    BY <1>0 DEF NothingNewSent, InFlight
  <1>a. ASSUME toClient' = toClient PROVE NoNewSuccess
    BY <1>a DEF NoNewSuccess, Inbox
  <1>b. Elements(<<>>) = {}
    BY DEF Elements
  <1>1. ASSUME NEW s \in Sockets, OnOpen(s) PROVE Honest'
    <2>1. \A m \in Elements(<<State(server)>>) \cup Elements(<<Invalid>>) : m.kind # "success"
      BY DEF Elements, State, Invalid
    <2>2. NoNewSuccess
      <3>1. \A t \in Sockets : toClient'[t] \in {toClient[t], <<>>, <<Invalid>>, <<State(server)>>}
        BY <1>1 DEF OnOpen, TypeOK, NetworkType
      <3> QED
        BY <1>b, <2>1, <3>1 DEF NoNewSuccess, Inbox
    <2>3. Settles /\ NothingNewSent /\ executed' = executed
      BY <1>0, <1>1, DisconnectSettles DEF OnOpen
    <2> QED
      BY <2>2, <2>3, HonestKept
  <1>2. ASSUME NEW s \in Sockets, OnDisconnect(s) PROVE Honest'
    <2>1. UNCHANGED outcome \/ Settles
      BY <1>2, DisconnectSettles DEF OnDisconnect, ResetConnection
    <2> QED
      BY <1>0, <1>a, <1>2, <2>1, HonestKept DEF OnDisconnect
  <1>3. ASSUME NEW s \in Sockets, Drop(s) PROVE Honest'
    <2>1. NothingNewSent
      <3>1. PICK n \in 0 .. Len(toServer[s]) : toServer' = [toServer EXCEPT ![s] = SubSeq(toServer[s], 1, n)]
        BY <1>3 DEF Drop
      <3>2. toServer \in [Sockets -> Seq(Commands)]
        BY DEF TypeOK, NetworkType
      <3>3. Elements(SubSeq(toServer[s], 1, n)) \subseteq Elements(toServer[s])
        BY <3>2, QueueElements
      <3> QED
        BY <3>1, <3>2, <3>3 DEF NothingNewSent, InFlight
    <2>2. NoNewSuccess
      <3>1. \A t \in Sockets : toClient'[t] \in {toClient[t], <<>>}
        BY <1>3 DEF Drop, TypeOK, NetworkType
      <3> QED
        BY <1>b, <3>1 DEF NoNewSuccess, Inbox
    <2> QED
      BY <1>3, <2>1, <2>2, HonestKept DEF Drop
  <1>4. ASSUME NEW s \in Sockets, Handle(s) PROVE Honest'
    BY <1>4, HonestHandle
  <1>5. ASSUME NEW s \in Sockets, IgnoreMessage(s) \/ OnState(s) PROVE Honest'
    BY <1>0, <1>5, ReceiveKeeps, HonestKept DEF IgnoreMessage, OnState
  <1>6. ASSUME NEW s \in Sockets, OnInvalidState(s) PROVE Honest'
    BY <1>0, <1>6, ReceiveKeeps, DisconnectSettles, HonestKept DEF OnInvalidState
  <1>7. ASSUME NEW s \in Sockets, OnReply(s) PROVE Honest'
    <2> DEFINE reply == Head(toClient[s])
    <2>1. NoNewSuccess /\ reply \in Inbox(s)
      BY <1>7, ReceiveKeeps DEF OnReply
    <2>2. reply.kind = "success" => reply.id \in executed
      BY <2>1 DEF Honest
    <2>3. reply.kind \in {"success", "error"} /\ (UNCHANGED outcome \/ Settle(Answered(reply.id), reply.kind))
      BY <1>7 DEF OnReply
    <2> HIDE DEF reply
    <2>4. UNCHANGED outcome \/ Settles
      <3>1. reply.kind = "success" => Answered(reply.id) \cap Ids \subseteq executed
        BY <2>2 DEF Answered
      <3> QED
        BY <2>3, <3>1, SettlingSettles
    <2> QED
      BY <1>0, <1>7, <2>1, <2>4, HonestKept DEF OnReply
  <1>8. ASSUME InitialStateTimeout PROVE Honest'
    <2>1. UNCHANGED outcome \/ Settles
      BY <1>8, DisconnectSettles DEF InitialStateTimeout, ResetConnection
    <2>2. NoNewSuccess
      <3>1. \A t \in Sockets : toClient'[t] \in {toClient[t], <<>>}
        BY <1>8 DEF InitialStateTimeout, TypeOK, NetworkType
      <3> QED
        BY <1>b, <3>1 DEF NoNewSuccess, Inbox
    <2> QED
      BY <1>0, <1>8, <2>1, <2>2, HonestKept DEF InitialStateTimeout
  <1>9. ASSUME NEW id \in Ids, RequestTimeout(id) PROVE Honest'
    <2>1. Settles
      BY <1>9, SettlingSettles DEF RequestTimeout
    <2> QED
      BY <1>0, <1>a, <1>9, <2>1, HonestKept DEF RequestTimeout
  <1>10. ASSUME NEW form \in Forms, Submit(form) PROVE Honest'
    BY <1>10, HonestSubmit
  <1>11. ASSUME ServerChanges \/ ServerMisbehaves PROVE Honest'
    <2>1. TypeOK'
      BY <1>11, TypeStep DEF Next
    <2>2. PICK message \in Messages : message.kind # "success" /\ toClient' = Broadcast(message)
      <3>1. State(server') \in Messages /\ Invalid \in Messages
        BY <2>1 DEF TypeOK, NetworkType, State, Invalid, Messages
      <3>2. State(server').kind # "success" /\ Invalid.kind # "success"
        BY DEF State, Invalid
      <3> QED
        BY <1>11, <3>1, <3>2 DEF ServerChanges, ServerMisbehaves
    <2>3. NoNewSuccess
      BY <2>2, BroadcastKeeps DEF NoNewSuccess
    <2> QED
      BY <1>0, <1>11, <2>3, HonestKept DEF ServerChanges, ServerMisbehaves
  <1>12. ASSUME UNCHANGED <<toServer, toClient, executed, outcome>> PROVE Honest'
    BY <1>0, <1>a, <1>12, HonestKept
  <1>13. ASSUME \/ \E s \in Sockets : OnActivity(s)
                \/ ActivityTimeout \/ Render \/ \E table \in Tables : Edit(table)
                \/ Reconnect \/ UNCHANGED vars
         PROVE  Honest'
    BY <1>12, <1>13 DEF OnActivity, ActivityTimeout, Render, Edit, Reconnect
  <1> QED
    BY <1>1, <1>2, <1>3, <1>4, <1>5, <1>6, <1>7, <1>8, <1>9, <1>10, <1>11, <1>13 DEF Next

\* OutcomesAreHonest: a reported success was carried out, and what is reported
\* as not sent never is, for any number of requests, connections and faults.
THEOREM OutcomesHonest == Spec => []OutcomesAreHonest
  <1>1. TypeOK /\ Honest /\ [Next]_vars => Honest'
    BY HonestStep
  <1> QED
    BY <1>1, HonestInit, TypeCorrect, HonestTells, PTL DEF Spec

-----------------------------------------------------------------------------
(* Telemetry, commands and edits *)

\* Starting over expects no telemetry.
LEMMA ResetUnwatched == ASSUME ResetConnection PROVE TelemetryIsWatched'
  BY DEF ResetConnection, TelemetryIsWatched

\* Every event keeps the telemetry watched.
LEMMA WatchedStep ==
    ASSUME TypeOK, TelemetryIsWatched, [Next]_vars
    PROVE  TelemetryIsWatched'
  <1> USE DEF vars, network, backend, refs, react, requests, history
  <1>0. ASSUME UNCHANGED <<activityExpected, activityTimeout, isActivityStale, activity, connected>>
        PROVE  TelemetryIsWatched'
    BY <1>0 DEF TelemetryIsWatched
  <1>1. ASSUME NEW s \in Sockets, OnOpen(s) PROVE TelemetryIsWatched'
    BY <1>1 DEF OnOpen, TelemetryIsWatched
  <1>2. ASSUME NEW s \in Sockets, OnDisconnect(s) PROVE TelemetryIsWatched'
    BY <1>0, <1>2, ResetUnwatched DEF OnDisconnect
  <1>3. ASSUME NEW s \in Sockets, OnState(s) PROVE TelemetryIsWatched'
    <2> DEFINE available == Head(toClient[s]).data.available
    <2>1. ExpectActivity(available) /\ connected' = TRUE
      BY <1>3 DEF OnState
    <2>2. available \in BOOLEAN
      BY <1>3, SnapshotData DEF Settings
    <2> HIDE DEF available
    <2> QED
      BY <2>1, <2>2 DEF ExpectActivity, TelemetryIsWatched, TypeOK, RefsType, ReactType
  <1>4. ASSUME NEW s \in Sockets, OnInvalidState(s) PROVE TelemetryIsWatched'
    BY <1>4 DEF OnInvalidState, TelemetryIsWatched
  <1>5. ASSUME NEW s \in Sockets, OnActivity(s) PROVE TelemetryIsWatched'
    BY <1>5 DEF OnActivity, TelemetryIsWatched
  <1>6. ASSUME InitialStateTimeout PROVE TelemetryIsWatched'
    BY <1>0, <1>6, ResetUnwatched DEF InitialStateTimeout
  <1>7. ASSUME ActivityTimeout PROVE TelemetryIsWatched'
    BY <1>7 DEF ActivityTimeout, TelemetryIsWatched
  <1>8. ASSUME \/ \E s \in Sockets : Drop(s) \/ Handle(s) \/ IgnoreMessage(s) \/ OnReply(s)
               \/ \E id \in Ids : RequestTimeout(id)
               \/ Render \/ (\E table \in Tables : Edit(table)) \/ (\E form \in Forms : Submit(form))
               \/ Reconnect \/ ServerChanges \/ ServerMisbehaves \/ UNCHANGED vars
        PROVE  TelemetryIsWatched'
    BY <1>0, <1>8 DEF Drop, Handle, IgnoreMessage, OnReply, RequestTimeout, Render, Edit, Submit, Reconnect,
                      ServerChanges, ServerMisbehaves
  <1> QED
    BY <1>1, <1>2, <1>3, <1>4, <1>5, <1>6, <1>7, <1>8 DEF Next

\* TelemetryIsWatched: silence is always timed or shown, however connections
\* and snapshots come and go.
THEOREM TelemetryWatched == Spec => []TelemetryIsWatched
  <1>1. Init => TelemetryIsWatched
    BY DEF Init, TelemetryIsWatched
  <1>2. TypeOK /\ TelemetryIsWatched /\ [Next]_vars => TelemetryIsWatched'
    BY WatchedStep
  <1> QED
    BY <1>1, <1>2, TypeCorrect, PTL DEF Spec

\* The page calls itself connected after a valid snapshot of the socket in use.
ConnectedBySnapshot == connected => active # None /\ active \in validated

\* Every event keeps that.
LEMMA ConnectedStep ==
    ASSUME TypeOK, ConnectedBySnapshot, [Next]_vars
    PROVE  ConnectedBySnapshot'
  <1> USE DEF vars, network, backend, refs, react, requests, history
  <1>0. ASSUME UNCHANGED <<connected, active, validated>> PROVE ConnectedBySnapshot'
    BY <1>0 DEF ConnectedBySnapshot
  <1>1. ASSUME NEW s \in Sockets, OnOpen(s) \/ OnInvalidState(s) PROVE ConnectedBySnapshot'
    BY <1>1 DEF OnOpen, OnInvalidState, ConnectedBySnapshot
  <1>2. ASSUME NEW s \in Sockets, OnDisconnect(s) PROVE ConnectedBySnapshot'
    BY <1>2 DEF OnDisconnect, ResetConnection, ConnectedBySnapshot
  <1>3. ASSUME NEW s \in Sockets, OnState(s) PROVE ConnectedBySnapshot'
    BY <1>3, NoneAssumption DEF OnState, ConnectedBySnapshot
  <1>4. ASSUME InitialStateTimeout PROVE ConnectedBySnapshot'
    BY <1>0, <1>4 DEF InitialStateTimeout, ResetConnection, ConnectedBySnapshot
  <1>5. ASSUME \/ \E s \in Sockets : Drop(s) \/ Handle(s) \/ IgnoreMessage(s) \/ OnActivity(s) \/ OnReply(s)
               \/ ActivityTimeout \/ \E id \in Ids : RequestTimeout(id)
        PROVE  ConnectedBySnapshot'
    BY <1>0, <1>5 DEF Drop, Handle, IgnoreMessage, OnActivity, OnReply, ActivityTimeout, RequestTimeout
  <1>6. ASSUME \/ Render \/ (\E table \in Tables : Edit(table)) \/ (\E form \in Forms : Submit(form))
               \/ Reconnect \/ ServerChanges \/ ServerMisbehaves \/ UNCHANGED vars
        PROVE  ConnectedBySnapshot'
    BY <1>0, <1>6 DEF Render, Edit, Submit, Reconnect, ServerChanges, ServerMisbehaves
  <1> QED
    BY <1>1, <1>2, <1>3, <1>4, <1>5, <1>6 DEF Next

\* Only a click on a form makes a queue of commands longer.
LEMMA OnlySubmitSends ==
    ASSUME TypeOK, ConnectedBySnapshot, [Next]_vars, NEW s \in Sockets, Len(toServer'[s]) > Len(toServer[s])
    PROVE  s \in validated
  <1> USE DEF vars, network, backend, refs, react, requests, history
  <1>1. /\ toServer \in [Sockets -> Seq(Commands)] /\ Len(toServer[s]) \in Nat
        /\ toServer' # toServer
    BY DEF TypeOK, NetworkType
  <1>2. ASSUME NEW t \in Sockets, Drop(t) PROVE FALSE
    <2>1. PICK n \in 0 .. Len(toServer[t]) : toServer' = [toServer EXCEPT ![t] = SubSeq(toServer[t], 1, n)]
      BY <1>2 DEF Drop
    <2>2. Len(SubSeq(toServer[t], 1, n)) <= Len(toServer[t]) /\ Len(toServer[t]) \in Nat
      <3>1. \A i \in 1 .. n : toServer[t][i] \in Commands
        BY <1>1
      <3> QED
        BY <1>1, <3>1, SubSeqProperties
    <2>3. toServer'[s] = IF s = t THEN SubSeq(toServer[t], 1, n) ELSE toServer[s]
      BY <1>1, <2>1
    <2> QED
      BY <1>1, <2>2, <2>3
  <1>3. ASSUME NEW t \in Sockets, Handle(t) PROVE FALSE
    <2>1. toServer[t] # <<>> /\ toServer' = [toServer EXCEPT ![t] = Tail(toServer[t])]
      BY <1>3 DEF Handle
    <2>2. Len(Tail(toServer[t])) = Len(toServer[t]) - 1 /\ Len(toServer[t]) \in Nat
      BY <1>1, <2>1
    <2>3. toServer'[s] = IF s = t THEN Tail(toServer[t]) ELSE toServer[s]
      BY <1>1, <2>1
    <2> QED
      BY <1>1, <2>2, <2>3
  <1>4. ASSUME NEW form \in Forms, Submit(form) PROVE s \in validated
    <2>1. PICK command : connected /\ toServer' = [toServer EXCEPT ![active] = Append(toServer[active], command)]
      BY <1>1, <1>4 DEF Submit, CanSend
    <2>2. s = active
      BY <1>1, <2>1
    <2> QED
      BY <2>1, <2>2 DEF ConnectedBySnapshot
  <1>5. /\ \A t \in Sockets : ~OnOpen(t) /\ ~OnDisconnect(t) /\ ~IgnoreMessage(t) /\ ~OnState(t)
                              /\ ~OnInvalidState(t) /\ ~OnActivity(t) /\ ~OnReply(t)
        /\ ~InitialStateTimeout /\ ~ActivityTimeout /\ \A id \in Ids : ~RequestTimeout(id)
    BY <1>1 DEF OnOpen, OnDisconnect, IgnoreMessage, OnState, OnInvalidState, OnActivity, OnReply,
                InitialStateTimeout, ActivityTimeout, RequestTimeout
  <1>6. /\ ~Render /\ \A table \in Tables : ~Edit(table)
        /\ ~Reconnect /\ ~ServerChanges /\ ~ServerMisbehaves /\ ~UNCHANGED vars
    BY <1>1 DEF Render, Edit, Reconnect, ServerChanges, ServerMisbehaves
  <1> QED
    BY <1>2, <1>3, <1>4, <1>5, <1>6 DEF Next

\* CommandsFollowSnapshot: no command leaves on a connection whose settings the
\* user has not seen.
THEOREM CommandsAfterSnapshot == Spec => CommandsFollowSnapshot
  <1>1. Init => ConnectedBySnapshot
    BY DEF Init, ConnectedBySnapshot
  <1>2. TypeOK /\ ConnectedBySnapshot /\ [Next]_vars => ConnectedBySnapshot'
    BY ConnectedStep
  <1>3. TypeOK /\ ConnectedBySnapshot /\ [Next]_vars
        => [\A s \in Sockets : Len(toServer'[s]) > Len(toServer[s]) => s \in validated]_vars
    BY OnlySubmitSends
  <1> QED
    BY <1>1, <1>2, <1>3, TypeCorrect, PTL DEF Spec, CommandsFollowSnapshot

\* The edit on the page belongs to the field as it was last shown, and as the
\* last snapshot had it.
EditKept ==
    /\ edit # None => /\ state # None /\ shown.state # None
                      /\ state.table = shown.state.table /\ shown.draft = edit
    /\ isConnected => state # None
    /\ shown.isConnected => shown.state # None
    /\ shown.state # None => state # None

\* Every event keeps the edit.
LEMMA EditStep ==
    ASSUME TypeOK, EditKept, [Next]_vars
    PROVE  EditKept'
  <1> USE DEF vars, network, backend, refs, react, requests, history
  <1>0. ASSUME UNCHANGED <<edit, state, shown>>, isConnected' = isConnected \/ isConnected' = FALSE
        PROVE  EditKept'
    BY <1>0 DEF EditKept
  <1>1. ASSUME NEW s \in Sockets, OnState(s) PROVE EditKept'
    <2> DEFINE data == Head(toClient[s]).data
    <2>1. data \in Settings /\ data # None
      BY <1>1, SnapshotData, NoneAssumption
    <2>2. /\ state' = data /\ UNCHANGED shown
          /\ edit' = IF shown.state # None /\ data.table = shown.state.table THEN edit ELSE None
      BY <1>1 DEF OnState
    <2> HIDE DEF data
    <2> QED
      BY <2>1, <2>2 DEF EditKept
  <1>2. ASSUME Render PROVE EditKept'
    <2>1. /\ shown' = [isConnected |-> isConnected, state |-> state, draft |-> Draft]
          /\ UNCHANGED <<edit, state, isConnected>>
      BY <1>2 DEF Render
    <2>2. edit # None => Draft = shown.draft
      BY DEF Draft, EditKept
    <2> QED
      BY <2>1, <2>2 DEF EditKept
  <1>3. ASSUME NEW table \in Tables, Edit(table) PROVE EditKept'
    <2>1. /\ shown.isConnected /\ shown' = [shown EXCEPT !.draft = table]
          /\ edit' = IF state.table = shown.state.table THEN table ELSE None
          /\ UNCHANGED <<state, isConnected>>
      BY <1>3 DEF Edit, Enabled
    <2>2. shown' = [isConnected |-> shown.isConnected, state |-> shown.state, draft |-> table]
      BY <2>1 DEF TypeOK, ReactType
    <2> QED
      BY <2>1, <2>2 DEF EditKept
  <1>4. ASSUME \/ \E s \in Sockets : OnOpen(s) \/ OnDisconnect(s) \/ OnInvalidState(s)
               \/ InitialStateTimeout
        PROVE  EditKept'
    BY <1>0, <1>4 DEF OnOpen, OnDisconnect, OnInvalidState, InitialStateTimeout, ResetConnection
  <1>5. ASSUME \/ \E s \in Sockets : Drop(s) \/ Handle(s) \/ IgnoreMessage(s) \/ OnActivity(s) \/ OnReply(s)
               \/ ActivityTimeout \/ \E id \in Ids : RequestTimeout(id)
        PROVE  EditKept'
    BY <1>0, <1>5 DEF Drop, Handle, IgnoreMessage, OnActivity, OnReply, ActivityTimeout, RequestTimeout
  <1>6. ASSUME \/ \E form \in Forms : Submit(form)
               \/ Reconnect \/ ServerChanges \/ ServerMisbehaves \/ UNCHANGED vars
        PROVE  EditKept'
    BY <1>0, <1>6 DEF Submit, Reconnect, ServerChanges, ServerMisbehaves
  <1> QED
    BY <1>1, <1>2, <1>3, <1>4, <1>5, <1>6 DEF Next

\* EditsSurvive: no number of lost connections, reconnections and broadcasts of
\* other settings takes an edit from the user.
THEOREM EditsKept == Spec => []EditsSurvive
  <1>1. Init => EditKept
    BY DEF Init, EditKept
  <1>2. TypeOK /\ EditKept /\ [Next]_vars => EditKept'
    BY EditStep
  <1>3. EditKept => EditsSurvive
    BY DEF EditKept, EditsSurvive
  <1> QED
    BY <1>1, <1>2, <1>3, TypeCorrect, PTL DEF Spec

-----------------------------------------------------------------------------
(* What the page waits for *)

\* The page never gives up: it has a connection, or makes one, or hears of one
\* that is lost, after which the library tries again.  And a connection that
\* has not shown its settings has a timer, unless the page says that they are
\* invalid.
PageStillTries ==
    /\ \/ retries > 0
       \/ \E s \in Sockets : phase[s] \in {"connecting", "closed"}
       \/ active # None /\ phase[active] = "open"
    /\ active # None => connected \/ initialStateTimeout = active \/ active \in rejected

\* Connections and timers stay as they are.
SocketsUntouched ==
    UNCHANGED <<phase, retries, active, connected, initialStateTimeout, rejected>>

\* Every event leaves the page a way on.
LEMMA TriesStep ==
    ASSUME TypeOK, PageStillTries, [Next]_vars
    PROVE  PageStillTries'
  <1> USE DEF vars, network, backend, refs, react, requests, history
  <1>0. ASSUME SocketsUntouched PROVE PageStillTries'
    BY <1>0 DEF SocketsUntouched, PageStillTries
  <1>t. /\ phase \in [Sockets -> Phases] /\ retries \in Nat
        /\ active \in Sockets \cup {None} /\ None \notin Sockets
    BY NoneAssumption DEF TypeOK, NetworkType, RefsType
  <1>1. ASSUME NEW s \in Sockets, OnOpen(s) PROVE PageStillTries'
    BY <1>t, <1>1 DEF OnOpen, PageStillTries
  <1>2. ASSUME NEW s \in Sockets, OnDisconnect(s) PROVE PageStillTries'
    <2>1. /\ phase' = [phase EXCEPT ![s] = "gone"] /\ rejected' = rejected \ {s}
          /\ retries' = IF ShouldReconnect(s) THEN retries + 1 ELSE retries
          /\ IF s = active THEN ResetConnection ELSE UNCHANGED <<refs, react, requests>>
      BY <1>2 DEF OnDisconnect
    <2>2. CASE ShouldReconnect(s)
      <3>1. retries' > 0
        BY <1>t, <2>1, <2>2
      <3>2. active' # None => /\ active # s /\ active' = active
                              /\ UNCHANGED <<connected, initialStateTimeout>>
        BY <2>1 DEF ResetConnection
      <3> QED
        BY <2>1, <3>1, <3>2 DEF PageStillTries
    <2>3. CASE ~ShouldReconnect(s)
      <3>1. s # active /\ UNCHANGED <<active, connected, initialStateTimeout>> /\ active # None
            /\ phase[active] = "open"
        BY <2>1, <2>3 DEF ShouldReconnect, ResetConnection
      <3>2. phase'[active] = "open"
        BY <1>t, <2>1, <3>1
      <3> QED
        BY <2>1, <3>1, <3>2 DEF PageStillTries
    <2> QED
      BY <2>2, <2>3
  <1>3. ASSUME InitialStateTimeout PROVE PageStillTries'
    <2> DEFINE s == initialStateTimeout
    <2>1. CASE active # s
      <3>1. UNCHANGED <<phase, retries, active, connected, rejected>>
        BY <1>3, <2>1 DEF InitialStateTimeout
      <3> QED
        BY <2>1, <3>1 DEF PageStillTries
    <2>2. CASE active = s
      <3>1. s # None /\ active' = None /\ phase' = [phase EXCEPT ![s] = "closed"]
        BY <1>3, <2>2 DEF InitialStateTimeout, ResetConnection
      <3>2. s \in Sockets /\ phase'[s] = "closed"
        BY <1>t, <2>2, <3>1
      <3> QED
        BY <3>1, <3>2 DEF PageStillTries
    <2> QED
      BY <2>1, <2>2
  <1>4. ASSUME NEW s \in Sockets, OnState(s) \/ OnInvalidState(s) PROVE PageStillTries'
    BY <1>4 DEF OnState, OnInvalidState, PageStillTries
  <1>5. ASSUME NEW s \in Sockets, Drop(s) PROVE PageStillTries'
    <2>1. phase'[s] = "closed" /\ UNCHANGED <<active, connected, initialStateTimeout, rejected>>
      BY <1>t, <1>5 DEF Drop
    <2> QED
      BY <2>1 DEF PageStillTries
  <1>6. ASSUME Reconnect PROVE PageStillTries'
    <2>1. /\ \E s \in Sockets : phase' = [phase EXCEPT ![s] = "connecting"]
          /\ UNCHANGED <<active, connected, initialStateTimeout, rejected>>
      BY <1>6 DEF Reconnect
    <2>2. \E s \in Sockets : phase'[s] = "connecting"
      BY <1>t, <2>1
    <2> QED
      BY <2>1, <2>2 DEF PageStillTries
  <1>7. ASSUME \/ \E s \in Sockets : Handle(s) \/ IgnoreMessage(s) \/ OnActivity(s) \/ OnReply(s)
               \/ ActivityTimeout \/ \E id \in Ids : RequestTimeout(id)
        PROVE  PageStillTries'
    BY <1>0, <1>7 DEF Handle, IgnoreMessage, OnActivity, OnReply, ActivityTimeout, RequestTimeout,
                      SocketsUntouched
  <1>8. ASSUME \/ Render \/ (\E table \in Tables : Edit(table)) \/ (\E form \in Forms : Submit(form))
               \/ ServerChanges \/ ServerMisbehaves \/ UNCHANGED vars
        PROVE  PageStillTries'
    BY <1>0, <1>8 DEF Render, Edit, Submit, ServerChanges, ServerMisbehaves, SocketsUntouched
  <1> QED
    BY <1>1, <1>2, <1>3, <1>4, <1>5, <1>6, <1>7, <1>8 DEF Next

\* PageStillTries, on which the page's recovery rests: no connection is lost for
\* good, and none that stays silent is waited for without a timer.
THEOREM PageTries == Spec => []PageStillTries
  <1>1. Init => PageStillTries
    <2> SUFFICES ASSUME Init PROVE PageStillTries
      OBVIOUS
    <2>1. PICK s \in Sockets : s = budget.remounts + 1
      BY BoundsAssumption DEF Init, Sockets
    <2>2. phase[s] = "connecting"
      BY <2>1, BoundsAssumption DEF Init
    <2> QED
      BY <2>2 DEF Init, PageStillTries
  <1>2. TypeOK /\ PageStillTries /\ [Next]_vars => PageStillTries'
    BY TriesStep
  <1> QED
    BY <1>1, <1>2, TypeCorrect, PTL DEF Spec

\* No request is forgotten: what has not settled is what a form waits for, each
\* form for a request of its own.
EachPendingHasItsForm ==
    /\ Pending = {id \in Ids : outcome[id] = "pending"}
    /\ \A f, g \in Forms : pendingRef[f] = pendingRef[g] /\ pendingRef[f] # None => f = g

\* And no form waits for a connection that is not there.
WaitsArePending == EachPendingHasItsForm /\ (Pending # {} => connected)

\* Settling requests wakes their forms, and no other.
LEMMA SettlingWakes ==
    ASSUME TypeOK, EachPendingHasItsForm, NEW ids, NEW result \in Outcomes \ {"pending"}, Settle(ids, result)
    PROVE  EachPendingHasItsForm' /\ Pending' = Pending \ ids
  <1>1. Ids' = Ids /\ \A id \in Ids : outcome'[id] = IF id \in ids THEN result ELSE outcome[id]
    BY SettleType DEF TypeOK
  <1>2. \A f \in Forms : pendingRef'[f] = IF pendingRef[f] \in ids THEN None ELSE pendingRef[f]
    BY DEF Settle
  <1>3. Pending' = Pending \ ids
    BY <1>2 DEF Pending
  <1>4. Pending \ ids = {id \in Ids : outcome'[id] = "pending"}
    BY <1>1 DEF EachPendingHasItsForm
  <1> QED
    BY <1>1, <1>2, <1>3, <1>4 DEF EachPendingHasItsForm

\* Starting over leaves no form waiting.
LEMMA StartingOverWakes ==
    ASSUME TypeOK, WaitsArePending, DisconnectRequests
    PROVE  WaitsArePending'
  <1>1. EachPendingHasItsForm' /\ Pending' = Pending \ Pending
    BY SettlingWakes DEF DisconnectRequests, WaitsArePending, Outcomes
  <1> QED
    BY <1>1 DEF WaitsArePending

\* A new request comes after the others.
LEMMA RequestAdded ==
    ASSUME RequestsType, NEW x \in Outcomes, outcome' = Append(outcome, x)
    PROVE  /\ Ids' = Ids \cup {Len(outcome) + 1} /\ outcome'[Len(outcome) + 1] = x
           /\ \A i \in Ids : outcome'[i] = outcome[i]
  <1>1. outcome \in Seq(Outcomes) /\ Len(outcome) \in Nat /\ Ids = 1 .. Len(outcome)
    BY DEF RequestsType, Ids
  <1>2. /\ outcome' \in Seq(Outcomes) /\ Len(outcome') = Len(outcome) + 1
        /\ \A i \in 1 .. Len(outcome) : outcome'[i] = outcome[i]
        /\ outcome'[Len(outcome) + 1] = x
    BY <1>1, AppendProperties
  <1>3. Ids' = 1 .. Len(outcome) + 1
    BY <1>2 DEF Ids
  <1> QED
    BY <1>1, <1>2, <1>3

\* Every event keeps it so.
LEMMA WaitsStep ==
    ASSUME TypeOK, WaitsArePending, [Next]_vars
    PROVE  WaitsArePending'
  <1> USE DEF vars, network, backend, refs, react, requests, history
  <1>0. ASSUME UNCHANGED <<outcome, pendingRef>>, connected' = connected \/ connected' = TRUE
        PROVE  WaitsArePending'
    BY <1>0 DEF WaitsArePending, EachPendingHasItsForm, Pending, Ids
  <1>1. ASSUME \E s \in Sockets : OnOpen(s) \/ OnInvalidState(s) PROVE WaitsArePending'
    BY <1>1, StartingOverWakes DEF OnOpen, OnInvalidState
  <1>2. ASSUME \/ \E s \in Sockets : OnDisconnect(s)
               \/ InitialStateTimeout
        PROVE  WaitsArePending'
    BY <1>0, <1>2, StartingOverWakes DEF OnDisconnect, InitialStateTimeout, ResetConnection
  <1>3. ASSUME NEW s \in Sockets, OnReply(s) PROVE WaitsArePending'
    <2> DEFINE reply == Head(toClient[s])
    <2>1. CASE connected
      <3>1. Settle(Answered(reply.id), reply.kind) /\ reply.kind \in {"success", "error"} /\ connected'
        BY <1>3, <2>1 DEF OnReply
      <3> HIDE DEF reply
      <3> DEFINE kind == reply.kind
      <3>3. kind \in Outcomes \ {"pending"}
        BY <3>1 DEF Outcomes
      <3>2. EachPendingHasItsForm'
        BY <3>1, <3>3, SettlingWakes DEF WaitsArePending
      <3> QED
        BY <3>1, <3>2 DEF WaitsArePending
    <2>2. CASE ~connected
      BY <1>0, <1>3, <2>2 DEF OnReply
    <2> QED
      BY <2>1, <2>2
  <1>4. ASSUME NEW id \in Ids, RequestTimeout(id) PROVE WaitsArePending'
    <2>1. Settle({id}, "unknown") /\ connected' = connected
      BY <1>4 DEF RequestTimeout
    <2>2. EachPendingHasItsForm' /\ Pending' = Pending \ {id}
      BY <2>1, SettlingWakes DEF WaitsArePending, Outcomes
    <2> QED
      BY <2>1, <2>2 DEF WaitsArePending
  <1>5. ASSUME NEW form \in Forms, Submit(form) PROVE WaitsArePending'
    <2> DEFINE id == Len(outcome) + 1
    <2>1. /\ Ids = 1 .. Len(outcome) /\ Len(outcome) \in Nat /\ outcome \in Seq(Outcomes)
          /\ pendingRef \in [Forms -> Nat \cup {None}]
      BY DEF TypeOK, RequestsType, Ids
    <2>2. id \in Nat /\ id # None /\ id \notin Ids /\ id \notin Pending
      BY <2>1, RequestIdsAssumption DEF WaitsArePending, EachPendingHasItsForm
    <2>3. CASE CanSend /\ outcome' = Append(outcome, "pending") /\ pendingRef' = [pendingRef EXCEPT ![form] = id]
      <3>1. /\ Ids' = Ids \cup {id} /\ outcome'[id] = "pending"
            /\ \A i \in Ids : outcome'[i] = outcome[i]
        BY <2>3, RequestAdded DEF TypeOK, Outcomes
      <3>2. /\ pendingRef[form] = None /\ pendingRef'[form] = id
            /\ \A f \in Forms \ {form} : pendingRef'[f] = pendingRef[f] /\ pendingRef[f] # id
        <4>1. pendingRef[form] = None
          BY <1>5 DEF Submit, Enabled
        <4>2. \A f \in Forms : pendingRef[f] # id
          <5>1. Pending = {pendingRef[f] : f \in Forms} \ {None}
            BY DEF Pending
          <5> HIDE DEF id
          <5> QED
            BY <2>2, <5>1
        <4> QED
          BY <2>1, <2>3, <4>1, <4>2
      <3>3. Pending' = Pending \cup {id}
        BY <2>2, <3>2 DEF Pending
      <3>4. connected'
        BY <1>5, <2>3 DEF Submit, CanSend
      <3> HIDE DEF id
      <3>5. Pending' = {i \in Ids' : outcome'[i] = "pending"}
        BY <3>1, <3>3 DEF WaitsArePending, EachPendingHasItsForm
      <3> QED
        BY <3>2, <3>4, <3>5 DEF WaitsArePending, EachPendingHasItsForm
    <2>4. CASE outcome' = Append(outcome, "unsent") /\ UNCHANGED pendingRef
      <3>1. /\ Ids' = Ids \cup {id} /\ outcome'[id] # "pending"
            /\ \A i \in Ids : outcome'[i] = outcome[i]
        BY <2>4, RequestAdded DEF TypeOK, Outcomes
      <3>2. Pending' = Pending /\ connected' = connected
        BY <1>5, <2>4 DEF Submit, Pending
      <3> HIDE DEF id
      <3> QED
        BY <2>4, <3>1, <3>2 DEF WaitsArePending, EachPendingHasItsForm
    <2> QED
      BY <1>5, <2>3, <2>4 DEF Submit
  <1>6. ASSUME \/ \E s \in Sockets : OnState(s) \/ Drop(s) \/ Handle(s) \/ IgnoreMessage(s) \/ OnActivity(s)
               \/ ActivityTimeout
        PROVE  WaitsArePending'
    BY <1>0, <1>6 DEF OnState, Drop, Handle, IgnoreMessage, OnActivity, ActivityTimeout
  <1>7. ASSUME \/ Render \/ (\E table \in Tables : Edit(table))
               \/ Reconnect \/ ServerChanges \/ ServerMisbehaves \/ UNCHANGED vars
        PROVE  WaitsArePending'
    BY <1>0, <1>7 DEF Render, Edit, Reconnect, ServerChanges, ServerMisbehaves
  <1> QED
    BY <1>1, <1>2, <1>3, <1>4, <1>5, <1>6, <1>7 DEF Next

\* WaitsArePending, on which it rests that every request settles: whatever a
\* form waits for has a deadline, and a lost connection wakes every form.
THEOREM FormsWaitForPending == Spec => []WaitsArePending
  <1>1. Init => WaitsArePending
    BY DEF Init, WaitsArePending, EachPendingHasItsForm, Pending, Ids
  <1>2. TypeOK /\ WaitsArePending /\ [Next]_vars => WaitsArePending'
    BY WaitsStep
  <1> QED
    BY <1>1, <1>2, TypeCorrect, PTL DEF Spec

-----------------------------------------------------------------------------
(* The widget: PlasmaConnection *)

Results == {"success", "failed"}
WidgetMessages ==
    [kind : {"state"}, offered : BOOLEAN] \cup [kind : {"invalid"}]
    \cup [kind : {"reply"}, id : Nat, result : Results]

WidgetTypes ==
    /\ offered \in BOOLEAN /\ latestState \in BOOLEAN \cup {None}
    /\ unread \in Seq(WidgetMessages) /\ reports \in Seq(Seq(Results))
    /\ later \in [rejected : SUBSET Nat, unsent : SUBSET Nat]
    /\ pendingRequests \subseteq DOMAIN reports /\ later.rejected \subseteq DOMAIN reports
    /\ pendingRequests \cap later.rejected = {}
    /\ DOMAIN pendingId = Plasma!WidgetForms

\* A success on its way is of a request that was carried out.
RepliesAreHonest ==
    \A i \in DOMAIN unread :
        unread[i].kind = "reply" /\ unread[i].result = "success" => unread[i].id \in carriedOut

\* The first reading is timed from the snapshot on, connected or not.
ReadingsAreTimed == latestState = TRUE => activityExpectedSince

WidgetInv ==
    /\ WidgetTypes /\ RepliesAreHonest /\ ReadingsAreTimed
    /\ Plasma!ReportedOnce /\ Plasma!FormsWaitForReports /\ Plasma!DeadlinesRun

\* Requests that were pending or rejected are reported, once each, and no form
\* waits for them any more.
LEMMA ReportKeeps ==
    ASSUME WidgetInv, NEW ids, NEW result \in Results,
           Plasma!Report(ids, result), ids \subseteq pendingRequests \cup later.rejected,
           pendingRequests' = pendingRequests \ ids, later'.rejected = later.rejected \ ids,
           result = "success" => ids \subseteq carriedOut, carriedOut \subseteq carriedOut',
           \A f \in Plasma!WidgetForms : pendingId'[f] # None =>
               pendingId'[f] = pendingId[f] /\ pendingId[f] \notin ids
    PROVE  /\ Plasma!ReportedOnce' /\ Plasma!FormsWaitForReports'
           /\ reports' \in Seq(Seq(Results)) /\ DOMAIN reports' = DOMAIN reports
  <1> DEFINE open == pendingRequests \cup later.rejected
  <1>1. /\ reports \in Seq(Seq(Results)) /\ DOMAIN reports = 1 .. Len(reports)
        /\ \A id \in DOMAIN reports : reports[id] \in Seq(Results)
    BY DEF WidgetInv, WidgetTypes
  <1>2. /\ DOMAIN reports' = DOMAIN reports
        /\ \A id \in DOMAIN reports :
              reports'[id] = IF id \in ids THEN Append(reports[id], result) ELSE reports[id]
    BY DEF Plasma!Report, Plasma!Issued
  <1>3. ASSUME NEW id \in DOMAIN reports PROVE reports'[id] \in Seq(Results)
    <2>1. Append(reports[id], result) \in Seq(Results)
      BY <1>1
    <2> QED
      BY <1>1, <1>2, <2>1
  <1>4. reports' \in Seq(Seq(Results))
    <2>1. Len(reports) \in Nat
      BY <1>1
    <2>2. \A id \in 1 .. Len(reports) : reports'[id] \in Seq(Results)
      BY <1>1, <1>3
    <2>3. reports' = [id \in 1 .. Len(reports) |->
                        IF id \in ids THEN Append(reports[id], result) ELSE reports[id]]
      BY <1>1 DEF Plasma!Report, Plasma!Issued
    <2> HIDE DEF Results
    <2> QED
      BY <2>1, <2>2, <2>3, IsASeq
  <1>5. Plasma!ReportedOnce'
    <2> SUFFICES ASSUME NEW id \in DOMAIN reports
                 PROVE  /\ Len(reports'[id])
                             = IF id \in pendingRequests' \cup later'.rejected THEN 0 ELSE 1
                        /\ \A i \in DOMAIN reports'[id] :
                              reports'[id][i] = "success" => id \in carriedOut'
      BY <1>2 DEF Plasma!ReportedOnce, Plasma!Issued
    <2>1. /\ Len(reports[id]) = IF id \in open THEN 0 ELSE 1
          /\ \A i \in DOMAIN reports[id] : reports[id][i] = "success" => id \in carriedOut
      BY DEF WidgetInv, Plasma!ReportedOnce, Plasma!Issued
    <2>2. CASE id \in ids
      <3>1. reports[id] = <<>> /\ reports'[id] = Append(reports[id], result)
        BY <1>1, <1>2, <2>1, <2>2
      <3>2. Len(reports'[id]) = 1 /\ reports'[id][1] = result /\ DOMAIN reports'[id] = {1}
        BY <3>1
      <3> QED
        BY <2>2, <3>2
    <2>3. CASE id \notin ids
      <3>1. reports'[id] = reports[id]
        BY <1>2, <2>3
      <3> QED
        BY <2>1, <2>3, <3>1
    <2> QED
      BY <2>2, <2>3
  <1>6. Plasma!FormsWaitForReports'
    BY DEF WidgetInv, Plasma!FormsWaitForReports
  <1> QED
    BY <1>2, <1>4, <1>5, <1>6

LEMMA FinishKeeps ==
    ASSUME WidgetInv, NEW ids, NEW result \in Results, Plasma!FinishRequest(ids, result),
           later'.rejected = later.rejected, carriedOut \subseteq carriedOut',
           result = "success" => ids \cap pendingRequests \subseteq carriedOut
    PROVE  /\ Plasma!ReportedOnce' /\ Plasma!FormsWaitForReports'
           /\ reports' \in Seq(Seq(Results)) /\ DOMAIN reports' = DOMAIN reports
           /\ DOMAIN pendingId' = Plasma!WidgetForms
           /\ pendingRequests' \subseteq pendingRequests
  <1> DEFINE known == ids \cap pendingRequests
  <1>1. /\ pendingRequests' = pendingRequests \ known /\ Plasma!Report(known, result)
        /\ pendingId' = [f \in Plasma!WidgetForms |->
                            IF pendingId[f] \in known THEN None ELSE pendingId[f]]
    BY DEF Plasma!FinishRequest, Plasma!Release
  <1>2. later'.rejected = later.rejected \ known
    BY DEF WidgetInv, WidgetTypes
  <1>3. known \subseteq pendingRequests \cup later.rejected
    OBVIOUS
  <1>4. \A f \in Plasma!WidgetForms : pendingId'[f] # None =>
            pendingId'[f] = pendingId[f] /\ pendingId[f] \notin known
    BY <1>1
  <1>5. result = "success" => known \subseteq carriedOut
    OBVIOUS
  <1>6. DOMAIN pendingId' = Plasma!WidgetForms /\ pendingRequests' \subseteq pendingRequests
    BY <1>1
  <1> HIDE DEF known
  <1> QED
    BY <1>1, <1>2, <1>3, <1>4, <1>5, <1>6, ReportKeeps

\* A step that makes, reports and forgets no request.
LEMMA RequestsUntouched ==
    ASSUME WidgetInv, UNCHANGED <<pendingRequests, later, pendingId, reports>>,
           carriedOut \subseteq carriedOut'
    PROVE  Plasma!ReportedOnce' /\ Plasma!FormsWaitForReports'
  BY DEF WidgetInv, Plasma!ReportedOnce, Plasma!FormsWaitForReports, Plasma!Issued

\* The connection is given up: nothing is pending, and the next attempt is timed.
LEMMA StartOverKeeps ==
    ASSUME WidgetInv, Plasma!StartOver, status' # "open",
           UNCHANGED <<later, carriedOut, offered>>
    PROVE  WidgetInv'
  <1>1. /\ Plasma!Report(pendingRequests, "failed") /\ pendingRequests' = {}
        /\ pendingId' = [f \in Plasma!WidgetForms |-> None]
        /\ reconnectTimer' = TRUE /\ latestState' = None /\ unread' = <<>>
    BY DEF Plasma!StartOver, Plasma!ReleaseAll
  <1>2. "failed" \in Results /\ later'.rejected = later.rejected \ pendingRequests
    BY DEF WidgetInv, WidgetTypes, Results
  <1>3. \A f \in Plasma!WidgetForms : pendingId'[f] = None
    BY <1>1
  <1>4. /\ Plasma!ReportedOnce' /\ Plasma!FormsWaitForReports'
        /\ reports' \in Seq(Seq(Results)) /\ DOMAIN reports' = DOMAIN reports
    <2>1. pendingRequests' = pendingRequests \ pendingRequests
      BY <1>1
    <2> QED
      BY <1>1, <1>2, <1>3, <2>1, ReportKeeps
  <1>5. WidgetTypes'
    <2>1. unread' \in Seq(WidgetMessages)
      BY <1>1
    <2> QED
      BY <1>1, <1>4, <2>1 DEF WidgetInv, WidgetTypes
  <1>6. RepliesAreHonest'
    BY <1>1 DEF RepliesAreHonest
  <1>7. ReadingsAreTimed' /\ ~Plasma!Ready'
    BY <1>1, SnapshotAssumption DEF ReadingsAreTimed, Plasma!Ready
  <1>8. Plasma!DeadlinesRun'
    BY <1>1, <1>7 DEF Plasma!DeadlinesRun
  <1> QED
    BY <1>4, <1>5, <1>6, <1>7, <1>8 DEF WidgetInv

\* Messages that arrive or are read.
LEMMA MessagesRead ==
    ASSUME WidgetInv, unread # <<>>
    PROVE  /\ Head(unread) \in WidgetMessages /\ Tail(unread) \in Seq(WidgetMessages)
           /\ \A i \in DOMAIN Tail(unread) :
                Tail(unread)[i].kind = "reply" /\ Tail(unread)[i].result = "success"
                    => Tail(unread)[i].id \in carriedOut
           /\ Head(unread).kind = "reply" /\ Head(unread).result = "success"
                    => Head(unread).id \in carriedOut
  <1>1. unread \in Seq(WidgetMessages)
    BY DEF WidgetInv, WidgetTypes
  <1>2. /\ Head(unread) \in WidgetMessages /\ Tail(unread) \in Seq(WidgetMessages)
        /\ Len(Tail(unread)) = Len(unread) - 1 /\ Len(unread) \in Nat
        /\ \A i \in 1 .. Len(Tail(unread)) : Tail(unread)[i] = unread[i + 1]
        /\ Head(unread) = unread[1] /\ 1 \in DOMAIN unread
    BY <1>1, HeadTailProperties
  <1>3. \A i \in DOMAIN Tail(unread) : i + 1 \in DOMAIN unread
    BY <1>1, <1>2
  <1>4. \A i \in DOMAIN Tail(unread) : Tail(unread)[i] = unread[i + 1]
    BY <1>2
  <1> QED
    BY <1>2, <1>3, <1>4 DEF WidgetInv, RepliesAreHonest

LEMMA MessagesSent ==
    ASSUME WidgetInv, NEW message \in WidgetMessages, Plasma!Send(message),
           carriedOut \subseteq carriedOut',
           message.kind = "reply" /\ message.result = "success" => message.id \in carriedOut'
    PROVE  unread' \in Seq(WidgetMessages) /\ RepliesAreHonest'
  <1>1. unread \in Seq(WidgetMessages)
    BY DEF WidgetInv, WidgetTypes
  <1>2. CASE unread' = unread
    BY <1>1, <1>2 DEF WidgetInv, RepliesAreHonest
  <1>3. CASE unread' = Append(unread, message)
    <2>1. /\ unread' \in Seq(WidgetMessages) /\ DOMAIN unread' = 1 .. Len(unread) + 1
          /\ \A i \in 1 .. Len(unread) : unread'[i] = unread[i]
          /\ unread'[Len(unread) + 1] = message
      BY <1>1, <1>3
    <2>2. \A i \in DOMAIN unread' : i \in DOMAIN unread \/ i = Len(unread) + 1
      BY <1>1, <2>1
    <2> QED
      BY <1>1, <2>1, <2>2 DEF WidgetInv, RepliesAreHonest
  <1> QED
    BY <1>2, <1>3 DEF Plasma!Send

LEMMA TimersUntouched ==
    ASSUME WidgetInv,
           UNCHANGED <<status, reconnectTimer, connectionWatchdog, keepaliveTimer>>,
           UNCHANGED <<latestState, activityExpectedSince>>,
           pendingRequests' \subseteq pendingRequests \/ status = "open"
    PROVE  ReadingsAreTimed' /\ Plasma!DeadlinesRun'
  BY DEF WidgetInv, ReadingsAreTimed, Plasma!DeadlinesRun, Plasma!Ready

LEMMA SubmitKeeps ==
    ASSUME WidgetInv, NEW form \in Plasma!WidgetForms, Plasma!Submit(form)
    PROVE  WidgetInv'
  <1> DEFINE id == Len(reports) + 1
  <1>1. /\ reports \in Seq(Seq(Results)) /\ DOMAIN reports = 1 .. Len(reports) /\ Len(reports) \in Nat
        /\ pendingRequests \subseteq DOMAIN reports /\ later.rejected \subseteq DOMAIN reports
        /\ later \in [rejected : SUBSET Nat, unsent : SUBSET Nat]
        /\ pendingRequests \cap later.rejected = {}
    BY DEF WidgetInv, WidgetTypes
  <1>2. /\ pendingId' = [pendingId EXCEPT ![form] = id] /\ reports' = Append(reports, <<>>)
        /\ \/ pendingRequests' = pendingRequests \cup {id} /\ later'.rejected = later.rejected
           \/ pendingRequests' = pendingRequests /\ later'.rejected = later.rejected \cup {id}
        /\ later' \in [rejected : SUBSET Nat, unsent : SUBSET Nat]
        /\ status = "open"
        /\ UNCHANGED <<status, reconnectTimer, connectionWatchdog, keepaliveTimer, latestState,
                       activityExpectedSince, unread, carriedOut, offered>>
    <2>1. id \in Nat
      BY <1>1
    <2>2. \/ later' = later
          \/ later' = [later EXCEPT !.rejected = @ \cup {id}]
          \/ later' = [later EXCEPT !.unsent = @ \cup {id}]
      BY DEF Plasma!Submit
    <2>3. /\ later' \in [rejected : SUBSET Nat, unsent : SUBSET Nat]
          /\ later' = later \/ later' = [later EXCEPT !.unsent = @ \cup {id}]
                => later'.rejected = later.rejected
          /\ later' = [later EXCEPT !.rejected = @ \cup {id}]
                => later'.rejected = later.rejected \cup {id}
      BY <1>1, <2>1, <2>2
    <2> QED
      BY <2>3 DEF Plasma!Submit, Plasma!Ready, Plasma!timers, Plasma!readings
  <1>3. /\ reports' \in Seq(Seq(Results)) /\ DOMAIN reports' = DOMAIN reports \cup {id}
        /\ id \notin DOMAIN reports /\ reports'[id] = <<>>
        /\ \A k \in DOMAIN reports : reports'[k] = reports[k]
    <2>1. <<>> \in Seq(Results)
      OBVIOUS
    <2> HIDE DEF Results
    <2> QED
      BY <1>1, <1>2, <2>1, AppendProperties
  <1> DEFINE open == pendingRequests \cup later.rejected
  <1>4. pendingRequests' \cup later'.rejected = open \cup {id}
    BY <1>2
  <1> HIDE DEF id
  <1>5. WidgetTypes'
    BY <1>1, <1>2, <1>3 DEF WidgetInv, WidgetTypes
  <1>6. Plasma!ReportedOnce'
    <2> SUFFICES ASSUME NEW k \in DOMAIN reports'
                 PROVE  /\ Len(reports'[k]) = IF k \in open \cup {id} THEN 0 ELSE 1
                        /\ \A i \in DOMAIN reports'[k] :
                              reports'[k][i] = "success" => k \in carriedOut
      BY <1>2, <1>4 DEF Plasma!ReportedOnce, Plasma!Issued
    <2>1. CASE k = id
      BY <1>3, <2>1
    <2>2. CASE k \in DOMAIN reports
      <3>1. k # id /\ reports'[k] = reports[k]
        BY <1>3, <2>2
      <3> QED
        BY <2>2, <3>1 DEF WidgetInv, Plasma!ReportedOnce, Plasma!Issued
    <2> QED
      BY <1>3, <2>1, <2>2
  <1>7. Plasma!FormsWaitForReports'
    <2> SUFFICES ASSUME NEW f \in Plasma!WidgetForms, pendingId'[f] # None
                 PROVE  pendingId'[f] \in open \cup {id}
      BY <1>4 DEF Plasma!FormsWaitForReports
    <2>1. pendingId'[f] = IF f = form THEN id ELSE pendingId[f]
      BY <1>2 DEF WidgetInv, WidgetTypes
    <2> QED
      BY <2>1 DEF WidgetInv, Plasma!FormsWaitForReports
  <1>8. RepliesAreHonest'
    BY <1>2 DEF WidgetInv, RepliesAreHonest
  <1> QED
    BY <1>2, <1>5, <1>6, <1>7, <1>8, TimersUntouched DEF WidgetInv

LEMMA WidgetStep ==
    ASSUME WidgetInv, Plasma!Next
    PROVE  WidgetInv'
  <1> USE DEF Plasma!timers, Plasma!readings, Plasma!asked, Plasma!outside
  <1>1. CASE \E id \in Plasma!RequestIds : Plasma!CallLater(id)
    <2>1. PICK id : Plasma!CallLater(id)
      BY <1>1
    <2>2. /\ UNCHANGED <<status, reconnectTimer, connectionWatchdog, keepaliveTimer>>
          /\ UNCHANGED <<latestState, activityExpectedSince>>
          /\ UNCHANGED <<unread, carriedOut, offered>>
      BY <2>1 DEF Plasma!CallLater
    <2>3. later \in [rejected : SUBSET Nat, unsent : SUBSET Nat]
      BY DEF WidgetInv, WidgetTypes
    <2>4. /\ Plasma!ReportedOnce' /\ Plasma!FormsWaitForReports'
          /\ reports' \in Seq(Seq(Results)) /\ DOMAIN reports' = DOMAIN reports
          /\ DOMAIN pendingId' = Plasma!WidgetForms
          /\ pendingRequests' \subseteq pendingRequests /\ later'.rejected \subseteq later.rejected
          /\ later' \in [rejected : SUBSET Nat, unsent : SUBSET Nat]
      <3>0. "failed" \in Results
        BY DEF Results
      <3>1. CASE /\ id \in later.rejected /\ later' = [later EXCEPT !.rejected = @ \ {id}]
                 /\ Plasma!Report({id}, "failed") /\ Plasma!Release({id})
                 /\ UNCHANGED pendingRequests
        <4>1. later'.rejected = later.rejected \ {id} /\ later' \in [rejected : SUBSET Nat, unsent : SUBSET Nat]
          BY <2>3, <3>1
        <4>2. pendingRequests' = pendingRequests \ {id} /\ {id} \subseteq pendingRequests \cup later.rejected
          BY <3>1 DEF WidgetInv, WidgetTypes
        <4>3. /\ DOMAIN pendingId' = Plasma!WidgetForms
              /\ \A f \in Plasma!WidgetForms : pendingId'[f] # None =>
                    pendingId'[f] = pendingId[f] /\ pendingId[f] \notin {id}
          BY <3>1 DEF Plasma!Release
        <4> QED
          BY <2>2, <3>0, <3>1, <4>1, <4>2, <4>3, ReportKeeps
      <3>2. CASE /\ later' = [later EXCEPT !.unsent = @ \ {id}]
                 /\ Plasma!FinishRequest({id}, "failed")
        <4>1. later'.rejected = later.rejected /\ later' \in [rejected : SUBSET Nat, unsent : SUBSET Nat]
          BY <2>3, <3>2
        <4> QED
          BY <2>2, <3>0, <3>2, <4>1, FinishKeeps
      <3> QED
        BY <2>1, <3>1, <3>2 DEF Plasma!CallLater
    <2>5. WidgetTypes' /\ RepliesAreHonest'
      BY <2>2, <2>4 DEF WidgetInv, WidgetTypes, RepliesAreHonest
    <2> QED
      BY <2>2, <2>4, <2>5, TimersUntouched DEF WidgetInv
  <1>2. CASE \E id \in Plasma!RequestIds : Plasma!RequestTimeout(id)
    <2>1. PICK id : Plasma!RequestTimeout(id)
      BY <1>2
    <2>2. /\ UNCHANGED <<status, reconnectTimer, connectionWatchdog, keepaliveTimer>>
          /\ UNCHANGED <<latestState, activityExpectedSince>>
          /\ UNCHANGED <<unread, carriedOut, offered, later>>
          /\ Plasma!FinishRequest({id}, "failed") /\ "failed" \in Results
      BY <2>1 DEF Plasma!RequestTimeout, Results
    <2>3. /\ Plasma!ReportedOnce' /\ Plasma!FormsWaitForReports'
          /\ reports' \in Seq(Seq(Results)) /\ DOMAIN reports' = DOMAIN reports
          /\ DOMAIN pendingId' = Plasma!WidgetForms
          /\ pendingRequests' \subseteq pendingRequests
      BY <2>2, FinishKeeps
    <2>4. WidgetTypes' /\ RepliesAreHonest'
      BY <2>2, <2>3 DEF WidgetInv, WidgetTypes, RepliesAreHonest
    <2> QED
      BY <2>2, <2>3, <2>4, TimersUntouched DEF WidgetInv
  <1>3. CASE \E id \in Plasma!RequestIds : Plasma!Handle(id)
    <2>1. PICK id \in Plasma!RequestIds : Plasma!Handle(id)
      BY <1>3
    <2>2. PICK result \in Results :
            /\ carriedOut \subseteq carriedOut' /\ (result = "success" => id \in carriedOut')
            /\ \/ Plasma!Send([kind |-> "reply", id |-> id, result |-> result])
               \/ UNCHANGED unread
      BY <2>1 DEF Plasma!Handle, Results
    <2>3. /\ UNCHANGED <<status, reconnectTimer, connectionWatchdog, keepaliveTimer>>
          /\ UNCHANGED <<latestState, activityExpectedSince>>
          /\ UNCHANGED <<pendingRequests, later, pendingId, reports, offered>>
      BY <2>1 DEF Plasma!Handle
    <2>4. unread' \in Seq(WidgetMessages) /\ RepliesAreHonest'
      <3> DEFINE reply == [kind |-> "reply", id |-> id, result |-> result]
      <3>1. reply \in WidgetMessages /\ reply.id = id /\ reply.result = result
        BY DEF WidgetMessages, Plasma!RequestIds
      <3> HIDE DEF reply
      <3>2. CASE Plasma!Send(reply)
        BY <2>2, <3>1, <3>2, MessagesSent
      <3>3. CASE UNCHANGED unread
        BY <2>2, <3>3 DEF WidgetInv, WidgetTypes, RepliesAreHonest
      <3> QED
        BY <2>2, <3>2, <3>3 DEF reply
    <2>5. WidgetTypes'
      BY <2>3, <2>4 DEF WidgetInv, WidgetTypes
    <2> QED
      BY <2>2, <2>3, <2>4, <2>5, TimersUntouched, RequestsUntouched DEF WidgetInv
  <1>4. CASE Plasma!ConnectionWatchdog \/ Plasma!PongWatchdog \/ Plasma!Corrected
    <2>1. Plasma!Reconnect
      BY <1>4 DEF Plasma!ConnectionWatchdog, Plasma!PongWatchdog, Plasma!Corrected
    <2>2. status' # "open"
      BY <2>1 DEF Plasma!Reconnect
    <2> QED
      BY <2>1, <2>2, StartOverKeeps DEF Plasma!Reconnect
  <1>5. CASE Plasma!Closed
    <2>1. status' # "open"
      BY <1>5 DEF Plasma!Closed
    <2> QED
      BY <1>5, <2>1, StartOverKeeps DEF Plasma!Closed
  <1>6. CASE Plasma!Retry
    <2>1. Plasma!ReportedOnce' /\ Plasma!FormsWaitForReports'
      BY <1>6, RequestsUntouched DEF Plasma!Retry
    <2>2. WidgetTypes' /\ RepliesAreHonest' /\ ReadingsAreTimed'
      BY <1>6 DEF WidgetInv, WidgetTypes, RepliesAreHonest, ReadingsAreTimed, Plasma!Retry
    <2>3. Plasma!DeadlinesRun'
      BY <1>6 DEF WidgetInv, Plasma!DeadlinesRun, Plasma!Ready, Plasma!Retry
    <2> QED
      BY <2>1, <2>2, <2>3 DEF WidgetInv
  <1>7. CASE Plasma!Opened
    <2>1. Plasma!ReportedOnce' /\ Plasma!FormsWaitForReports'
      BY <1>7, RequestsUntouched DEF Plasma!Opened
    <2>2. /\ unread' \in Seq(WidgetMessages)
          /\ \A i \in DOMAIN unread' : unread'[i].kind # "reply"
      <3>1. offered \in BOOLEAN
        BY DEF WidgetInv, WidgetTypes
      <3>2. \/ unread' = <<[kind |-> "state", offered |-> offered]>>
            \/ unread' = <<>> \/ unread' = <<[kind |-> "invalid"]>>
        BY <1>7 DEF Plasma!Opened
      <3>3. /\ [kind |-> "state", offered |-> offered] \in WidgetMessages
            /\ [kind |-> "invalid"] \in WidgetMessages
        BY <3>1 DEF WidgetMessages
      <3>4. CASE unread' = <<[kind |-> "state", offered |-> offered]>>
        <4>1. DOMAIN unread' = {1} /\ unread'[1].kind = "state"
          BY <3>4
        <4>2. unread' \in Seq(WidgetMessages)
          BY <3>3, <3>4
        <4> QED
          BY <4>1, <4>2
      <3>5. CASE unread' = <<>>
        BY <3>5
      <3>6. CASE unread' = <<[kind |-> "invalid"]>>
        <4>1. DOMAIN unread' = {1} /\ unread'[1].kind = "invalid"
          BY <3>6
        <4>2. unread' \in Seq(WidgetMessages)
          BY <3>3, <3>6
        <4> QED
          BY <4>1, <4>2
      <3> QED
        BY <3>2, <3>4, <3>5, <3>6
    <2>3. WidgetTypes' /\ RepliesAreHonest' /\ ReadingsAreTimed'
      BY <1>7, <2>2 DEF WidgetInv, WidgetTypes, RepliesAreHonest, ReadingsAreTimed, Plasma!Opened
    <2>4. Plasma!DeadlinesRun'
      BY <1>7, <2>3 DEF ReadingsAreTimed, Plasma!DeadlinesRun, Plasma!Ready, Plasma!Opened
    <2> QED
      BY <2>1, <2>3, <2>4 DEF WidgetInv
  <1>8. CASE Plasma!PeerCloses
    <2>1. /\ status = "open" /\ status' = "closing" /\ unread' = <<>>
          /\ pendingId' = [f \in Plasma!WidgetForms |-> None]
          /\ UNCHANGED <<reconnectTimer, connectionWatchdog, keepaliveTimer>>
          /\ UNCHANGED <<latestState, activityExpectedSince>>
          /\ UNCHANGED <<pendingRequests, later, reports, carriedOut, offered>>
      BY <1>8 DEF Plasma!PeerCloses, Plasma!ReleaseAll
    <2>2. WidgetTypes' /\ RepliesAreHonest' /\ ReadingsAreTimed'
      <3>1. <<>> \in Seq(WidgetMessages)
        OBVIOUS
      <3> QED
        BY <2>1, <3>1 DEF WidgetInv, WidgetTypes, RepliesAreHonest, ReadingsAreTimed
    <2>3. Plasma!ReportedOnce' /\ Plasma!FormsWaitForReports'
      BY <2>1 DEF WidgetInv, Plasma!ReportedOnce, Plasma!FormsWaitForReports, Plasma!Issued
    <2>4. Plasma!DeadlinesRun'
      BY <2>1, <2>2 DEF WidgetInv, ReadingsAreTimed, Plasma!DeadlinesRun, Plasma!Ready
    <2> QED
      BY <2>2, <2>3, <2>4 DEF WidgetInv
  <1>9. CASE Plasma!ValidState
    <2>1. /\ unread # <<>> /\ Head(unread).kind = "state" /\ unread' = Tail(unread)
          /\ latestState' = Head(unread).offered /\ activityExpectedSince' = latestState'
          /\ UNCHANGED <<status, reconnectTimer, keepaliveTimer, offered, carriedOut>>
          /\ UNCHANGED <<pendingRequests, later, pendingId, reports>> /\ status = "open"
      BY <1>9 DEF Plasma!ValidState, Plasma!Message
    <2>2. latestState' \in BOOLEAN
      <3>1. Head(unread) \in WidgetMessages
        BY <2>1, MessagesRead
      <3> QED
        BY <2>1, <3>1 DEF WidgetMessages
    <2>3. WidgetTypes' /\ RepliesAreHonest' /\ ReadingsAreTimed'
      BY <2>1, <2>2, MessagesRead DEF WidgetInv, WidgetTypes, RepliesAreHonest, ReadingsAreTimed
    <2>4. Plasma!DeadlinesRun'
      BY <2>1, <2>2, <2>3, SnapshotAssumption
         DEF WidgetInv, ReadingsAreTimed, Plasma!DeadlinesRun, Plasma!Ready
    <2> QED
      BY <2>1, <2>3, <2>4, RequestsUntouched DEF WidgetInv
  <1>10. CASE Plasma!InvalidState
    <2>1. /\ unread # <<>> /\ unread' = Tail(unread)
          /\ latestState' = None /\ connectionWatchdog' = TRUE
          /\ Plasma!FinishRequest(pendingRequests, "failed") /\ "failed" \in Results
          /\ UNCHANGED <<status, reconnectTimer, keepaliveTimer, offered, carriedOut, later>>
      BY <1>10 DEF Plasma!InvalidState, Plasma!Message, Results
    <2>2. /\ Plasma!ReportedOnce' /\ Plasma!FormsWaitForReports'
          /\ reports' \in Seq(Seq(Results)) /\ DOMAIN reports' = DOMAIN reports
          /\ DOMAIN pendingId' = Plasma!WidgetForms
          /\ pendingRequests' \subseteq pendingRequests
      BY <2>1, FinishKeeps
    <2>3. WidgetTypes' /\ RepliesAreHonest' /\ ReadingsAreTimed'
      BY <2>1, <2>2, MessagesRead, SnapshotAssumption
         DEF WidgetInv, WidgetTypes, RepliesAreHonest, ReadingsAreTimed
    <2>4. Plasma!DeadlinesRun'
      BY <2>1, <2>2 DEF WidgetInv, Plasma!DeadlinesRun, Plasma!Ready
    <2> QED
      BY <2>2, <2>3, <2>4 DEF WidgetInv
  <1>11. CASE Plasma!Answer
    <2> DEFINE id == Head(unread).id
               result == Head(unread).result
    <2>1. /\ unread # <<>> /\ Head(unread).kind = "reply" /\ unread' = Tail(unread)
          /\ Plasma!FinishRequest({id}, result)
          /\ UNCHANGED <<status, reconnectTimer, connectionWatchdog, keepaliveTimer>>
          /\ UNCHANGED <<latestState, activityExpectedSince>>
          /\ UNCHANGED <<offered, carriedOut, later>>
      BY <1>11 DEF Plasma!Answer, Plasma!Message
    <2>2. result \in Results /\ (result = "success" => id \in carriedOut)
      <3>1. Head(unread) \in WidgetMessages
        BY <2>1, MessagesRead
      <3> QED
        BY <2>1, <3>1, MessagesRead DEF WidgetMessages
    <2> HIDE DEF id, result
    <2>3. /\ Plasma!ReportedOnce' /\ Plasma!FormsWaitForReports'
          /\ reports' \in Seq(Seq(Results)) /\ DOMAIN reports' = DOMAIN reports
          /\ DOMAIN pendingId' = Plasma!WidgetForms
          /\ pendingRequests' \subseteq pendingRequests
      BY <2>1, <2>2, FinishKeeps
    <2>4. WidgetTypes' /\ RepliesAreHonest'
      BY <2>1, <2>3, MessagesRead DEF WidgetInv, WidgetTypes, RepliesAreHonest
    <2> QED
      BY <2>1, <2>3, <2>4, TimersUntouched DEF WidgetInv
  <1>12. CASE Plasma!Activity \/ Plasma!GoesSilent
    <2>1. /\ UNCHANGED <<status, reconnectTimer, connectionWatchdog, keepaliveTimer>>
          /\ UNCHANGED <<latestState, activityExpectedSince>>
          /\ UNCHANGED <<pendingRequests, later, pendingId, reports, unread, offered, carriedOut>>
      BY <1>12 DEF Plasma!Activity, Plasma!GoesSilent
    <2>2. WidgetTypes' /\ RepliesAreHonest'
      BY <2>1 DEF WidgetInv, WidgetTypes, RepliesAreHonest
    <2> QED
      BY <2>1, <2>2, RequestsUntouched, TimersUntouched DEF WidgetInv
  <1>13. CASE Plasma!ServerChanges \/ Plasma!ServerMisbehaves
    <2>1. /\ UNCHANGED <<status, reconnectTimer, connectionWatchdog, keepaliveTimer>>
          /\ UNCHANGED <<latestState, activityExpectedSince>>
          /\ UNCHANGED <<pendingRequests, later, pendingId, reports, carriedOut>>
      BY <1>13 DEF Plasma!ServerChanges, Plasma!ServerMisbehaves
    <2>2. /\ offered' \in BOOLEAN
          /\ \/ Plasma!Send([kind |-> "state", offered |-> offered'])
             \/ Plasma!Send([kind |-> "invalid"])
      BY <1>13 DEF Plasma!ServerChanges, Plasma!ServerMisbehaves, WidgetInv, WidgetTypes
    <2>3. PICK message \in WidgetMessages : Plasma!Send(message) /\ message.kind # "reply"
      <3>1. /\ [kind |-> "state", offered |-> offered'] \in WidgetMessages
            /\ [kind |-> "invalid"] \in WidgetMessages
        BY <2>2 DEF WidgetMessages
      <3> QED
        BY <2>2, <3>1
    <2>4. unread' \in Seq(WidgetMessages) /\ RepliesAreHonest'
      BY <2>1, <2>3, MessagesSent
    <2>5. WidgetTypes'
      BY <2>1, <2>2, <2>4 DEF WidgetInv, WidgetTypes
    <2> QED
      BY <2>1, <2>4, <2>5, RequestsUntouched, TimersUntouched DEF WidgetInv
  <1>14. CASE \E form \in Plasma!WidgetForms : Plasma!Submit(form)
    BY <1>14, SubmitKeeps
  <1> QED
    BY <1>1, <1>2, <1>3, <1>4, <1>5, <1>6, <1>7, <1>8, <1>9, <1>10, <1>11, <1>12, <1>13, <1>14
       DEF Plasma!Next

LEMMA WidgetBegins ==
    ASSUME Plasma!Init
    PROVE  WidgetInv
  <1>1. /\ unread = <<>> /\ reports = <<>> /\ latestState = None /\ connectionWatchdog = TRUE
        /\ status = "connecting" /\ pendingRequests = {} /\ later = [rejected |-> {}, unsent |-> {}]
        /\ pendingId = [f \in Plasma!WidgetForms |-> None] /\ offered \in BOOLEAN
    BY DEF Plasma!Init
  <1>2. unread \in Seq(WidgetMessages) /\ reports \in Seq(Seq(Results))
    BY <1>1
  <1>3. WidgetTypes
    <2>1. later \in [rejected : SUBSET Nat, unsent : SUBSET Nat] /\ later.rejected = {}
      BY <1>1
    <2>2. DOMAIN pendingId = Plasma!WidgetForms
      BY <1>1
    <2> QED
      BY <1>1, <1>2, <2>1, <2>2 DEF WidgetTypes
  <1>6. RepliesAreHonest
    BY <1>1 DEF RepliesAreHonest
  <1>7. ReadingsAreTimed
    <2>1. TRUE \in BOOLEAN
      OBVIOUS
    <2>2. latestState # TRUE
      BY <1>1, <2>1, SnapshotAssumption, Zenon
    <2> QED
      BY <2>2 DEF ReadingsAreTimed
  <1>4. Plasma!ReportedOnce /\ Plasma!FormsWaitForReports
    BY <1>1 DEF Plasma!ReportedOnce, Plasma!FormsWaitForReports, Plasma!Issued
  <1>5. Plasma!DeadlinesRun
    BY <1>1 DEF Plasma!DeadlinesRun, Plasma!Ready
  <1> QED
    BY <1>3, <1>4, <1>5, <1>6, <1>7 DEF WidgetInv

\* The widget reports every request once, as a success only if it was carried
\* out, and never waits without a deadline, for any number of requests, faults,
\* connections and late replies.
THEOREM WidgetTracks == MCSpec => []WidgetKeepsTrack
  <1> DEFINE I == client = "widget" => WidgetInv
  <1>1. MCInit => I
    BY WidgetBegins DEF MCInit
  <1>2. I /\ [MCNext]_<<client, vars, widget>> => I'
    <2> SUFFICES ASSUME I, [MCNext]_<<client, vars, widget>>, client' = "widget"
                 PROVE  WidgetInv'
      OBVIOUS
    <2>1. CASE client = "widget" /\ Plasma!Next
      BY <2>1, WidgetStep
    <2>2. CASE UNCHANGED <<client, vars, widget>>
      BY <2>2 DEF widget, WidgetInv, WidgetTypes, RepliesAreHonest, ReadingsAreTimed,
                  Plasma!ReportedOnce, Plasma!FormsWaitForReports, Plasma!DeadlinesRun,
                  Plasma!Issued, Plasma!Ready
    <2>3. client = "page" => client' = "page" \/ UNCHANGED <<client, vars, widget>>
      BY DEF MCNext
    <2> QED
      BY <2>1, <2>2, <2>3 DEF MCNext
  <1>3. I => WidgetKeepsTrack
    BY DEF WidgetKeepsTrack, WidgetInv, Plasma!WidgetKeepsTrack
  <1> QED
    BY <1>1, <1>2, <1>3, PTL DEF MCSpec
=============================================================================
