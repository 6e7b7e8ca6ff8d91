-------------------------- MODULE MCCommandServer --------------------------
(***************************************************************************)
(* The two halves of server/websocket/index.ts with two clients: the       *)
(* message queue of CommandServer, or the output of SocketOutput.          *)
(***************************************************************************)
EXTENDS CommandServer, TLC

CONSTANTS c1, c2, v1, v2, Limit, MaxOutput
ASSUME OutputAssumption == {Limit, MaxOutput} \subseteq Nat
TwoClients == {c1, c2}
TwoValues == {v1, v2}
Curve == {"curve"}
Tuning == {"tuning"}
Symmetry == Permutations(TwoClients)

VARIABLES part, live, remembered, buffered, corked, tasks, lost, isShuttingDown, output

sending == <<live, remembered, buffered, corked, tasks, lost, isShuttingDown, output>>

Output == INSTANCE SocketOutput WITH openSockets <- remembered

MCInit == part \in {"queue", "output"} /\ Init /\ Output!Init

\* A behaviour is one of the queue, or one of the output.
MCNext ==
    \/ part = "queue" /\ UNCHANGED <<part, sending>> /\ Next
    \/ part = "output" /\ UNCHANGED <<part, vars>> /\ Output!Next

MCSpec == MCInit /\ [][MCNext]_<<part, vars, sending>>

-----------------------------------------------------------------------------
\* Output that is flushed after its callback is still checked: when the event
\* loop is quiet no open socket is over the limit or has missed a message.
QuietMeansServed == Output!QuietMeansServed
=============================================================================
