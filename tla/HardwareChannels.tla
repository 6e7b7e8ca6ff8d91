-------------------------- MODULE HardwareChannels --------------------------
(***************************************************************************)
(* The two Windows hardware channels: the call queues of native/index.ts,  *)
(* HardwareChannel of native/windows/hardware.ts and the worker thread of  *)
(* native/windows/hardware.worker.ts, with requests, replies, timeouts and *)
(* worker deaths in any order, and the cleanup at the end of a shutdown.   *)
(***************************************************************************)
EXTENDS Naturals, Sequences, FiniteSets

CONSTANTS
    MaxCalls,   \* bound on the calls made
    MaxFaults   \* bound on timeouts, worker deaths and failing posts

Channels == {"wmi", "cpuoc"}
CleanupCall == 0
CallIds == 1 .. MaxCalls
Ids == CallIds \cup {CleanupCall}

VARIABLES
    calls,      \* calls made so far
    callQueue,  \* acpiCallQueue and cpuCallQueue, the running call first
    begun,      \* whether the first call of the queue has begun
    pending,    \* requests that wait for their reply
    inbox,      \* requests on the way to the worker or in its queue
    executing,  \* native calls in progress, of a terminated worker too
    outbox,     \* replies on their way back
    worker,     \* "none", "alive", "terminated"
    failure,    \* the latched failure
    closed,
    result,     \* how each call settled, "none" before
    cleanup,    \* of cleanupNativeServices(): "no", "drain", "wmi", "cpuoc", "done"
    faults

vars == <<calls, callQueue, begun, pending, inbox, executing, outbox, worker, failure,
          closed, result, cleanup, faults>>
thread == <<inbox, executing, outbox>>

Init ==
    /\ calls = 0 /\ faults = 0 /\ cleanup = "no"
    /\ callQueue = [ch \in Channels |-> <<>>]
    /\ begun = [ch \in Channels |-> FALSE]
    /\ pending = [ch \in Channels |-> {}]
    /\ inbox = [ch \in Channels |-> <<>>]
    /\ executing = [ch \in Channels |-> {}]
    /\ outbox = [ch \in Channels |-> <<>>]
    /\ worker = [ch \in Channels |-> "none"]
    /\ failure = [ch \in Channels |-> FALSE]
    /\ closed = [ch \in Channels |-> FALSE]
    /\ result = [id \in Ids |-> "none"]

Fault == faults < MaxFaults /\ faults' = faults + 1
ServicesClosed == cleanup # "no"

\* Requests settle; if one is the running call of the queue, the queue moves on.
Settle(ids, outcome) == result' = [id \in Ids |-> IF id \in ids THEN outcome ELSE result[id]]
Advances(ch, ids) ==
    IF begun[ch] /\ Head(callQueue[ch]) \in ids
    THEN /\ callQueue' = [callQueue EXCEPT ![ch] = Tail(@)]
         /\ begun' = [begun EXCEPT ![ch] = FALSE]
    ELSE UNCHANGED <<callQueue, begun>>

\* The WMI worker is stopped, with what was on its way to it; a native call
\* it is in cannot be cancelled.
Terminate(ch) ==
    /\ worker' = [worker EXCEPT ![ch] = IF @ = "none" THEN @ ELSE "terminated"]
    /\ inbox' = [inbox EXCEPT ![ch] = <<>>]
    /\ outbox' = [outbox EXCEPT ![ch] = <<>>]
    /\ UNCHANGED executing

FailLeavingWorker(ch) ==
    /\ failure' = [failure EXCEPT ![ch] = TRUE]
    /\ Settle(pending[ch], "restart") /\ Advances(ch, pending[ch])
    /\ pending' = [pending EXCEPT ![ch] = {}]
    /\ UNCHANGED <<worker, thread>>

\* fail(): the first one is latched; every pending request is
\* rejected; only the WMI worker is terminated.
Fail(ch) ==
    /\ failure' = [failure EXCEPT ![ch] = TRUE]
    /\ Settle(pending[ch], "restart") /\ Advances(ch, pending[ch])
    /\ pending' = [pending EXCEPT ![ch] = {}]
    /\ IF ch = "wmi" THEN Terminate(ch) ELSE UNCHANGED <<worker, thread>>

-----------------------------------------------------------------------------
\* getCall, setCall, wmiInit, tuneInit and tune of native/index.ts.
Call(ch) ==
    /\ calls < MaxCalls /\ calls' = calls + 1
    /\ IF ServicesClosed
       THEN Settle({calls + 1}, "error") /\ UNCHANGED callQueue
       ELSE callQueue' = [callQueue EXCEPT ![ch] = Append(@, calls + 1)] /\ UNCHANGED result
    /\ UNCHANGED <<begun, pending, thread, worker, failure, closed, cleanup, faults>>

\* request() throws or rejects before anything is posted.
Refused(ch) ==
    \/ failure[ch] \/ closed[ch]
    \/ ch = "cpuoc" /\ ServicesClosed
    \/ ch = "wmi" /\ cleanup \in {"wmi", "cpuoc", "done"}

WithWorker(ch) == [worker EXCEPT ![ch] = IF @ = "none" THEN "alive" ELSE @]

Post(ch, id) ==
    /\ worker' = WithWorker(ch)
    /\ pending' = [pending EXCEPT ![ch] = @ \cup {id}]
    /\ inbox' = [inbox EXCEPT ![ch] = IF worker'[ch] = "alive" THEN Append(@, id) ELSE @]
    /\ UNCHANGED <<executing, outbox>>

Begin(ch) ==
    LET id == Head(callQueue[ch]) IN
    /\ callQueue[ch] # <<>> /\ ~begun[ch]
    /\ IF Refused(ch)
       THEN /\ callQueue' = [callQueue EXCEPT ![ch] = Tail(@)]
            /\ Settle({id}, IF failure[ch] THEN "restart" ELSE "error")
            /\ UNCHANGED <<begun, pending, worker, thread>>
       ELSE /\ begun' = [begun EXCEPT ![ch] = TRUE]
            /\ Post(ch, id)
            /\ UNCHANGED <<callQueue, result>>
    /\ UNCHANGED <<calls, failure, closed, cleanup, faults>>

\* The worker's own queue runs one operation at a time.
WorkerStarts(ch) ==
    /\ worker[ch] = "alive" /\ inbox[ch] # <<>> /\ executing[ch] = {}
    /\ executing' = [executing EXCEPT ![ch] = {Head(inbox[ch])}]
    /\ inbox' = [inbox EXCEPT ![ch] = Tail(@)]
    /\ UNCHANGED <<calls, callQueue, begun, pending, outbox, worker, failure, closed, result,
                   cleanup, faults>>

\* The native call returns, throws, or throws an error nothing can repair;
\* in a terminated worker nobody hears of it.
NativeReturns(ch, answer) ==
    /\ executing[ch] # {}
    /\ executing' = [executing EXCEPT ![ch] = {}]
    /\ outbox' = [outbox EXCEPT ![ch] =
            IF worker[ch] = "alive"
            THEN Append(@, [id |-> CHOOSE id \in executing[ch] : TRUE, answer |-> answer]) ELSE @]
    /\ UNCHANGED <<calls, callQueue, begun, pending, inbox, worker, failure, closed, result,
                   cleanup, faults>>

Awaited(ch, id) == id \in pending[ch]

\* worker.onmessage: a reply nobody waits for is dropped.
Receive(ch) ==
    LET reply == Head(outbox[ch])
        rest == [outbox EXCEPT ![ch] = Tail(@)]
    IN
    /\ outbox[ch] # <<>>
    /\ CASE ~Awaited(ch, reply.id) ->
                /\ outbox' = rest
                /\ UNCHANGED <<callQueue, begun, pending, inbox, executing, worker, failure, result>>
         [] Awaited(ch, reply.id) /\ reply.answer = "fatal" ->
                Fail(ch)
         [] OTHER ->
                /\ outbox' = rest
                /\ pending' = [pending EXCEPT ![ch] = @ \ {reply.id}]
                /\ Settle({reply.id}, reply.answer) /\ Advances(ch, {reply.id})
                /\ UNCHANGED <<inbox, executing, worker, failure>>
    /\ UNCHANGED <<calls, closed, cleanup, faults>>

TimersOf(ch) == pending[ch]

TimerFires(ch) ==
    /\ TimersOf(ch) # {} /\ Fail(ch)
    /\ UNCHANGED <<calls, closed, cleanup, faults>>

\* onerror, or a close event that nobody asked for.
WorkerDies(ch) ==
    /\ worker[ch] = "alive" /\ ~closed[ch] /\ ~failure[ch]
    /\ Fault /\ Fail(ch)
    /\ UNCHANGED <<calls, closed, cleanup>>

-----------------------------------------------------------------------------
(* cleanupNativeServices() *)

CleanupStarts ==
    /\ cleanup = "no" /\ cleanup' = "drain"
    /\ UNCHANGED <<calls, callQueue, begun, pending, thread, worker, failure, closed, result, faults>>

\* acpiCallQueue is empty: the WMI channel is asked to clean up, if it can.
WmiCleanup ==
    /\ cleanup = "drain" /\ callQueue["wmi"] = <<>>
    /\ cleanup' = "wmi"
    /\ IF worker["wmi"] # "none" /\ ~failure["wmi"]
       THEN Post("wmi", CleanupCall) /\ UNCHANGED result
       ELSE Settle({CleanupCall}, "ok") /\ UNCHANGED <<pending, worker, thread>>
    /\ UNCHANGED <<calls, callQueue, begun, failure, closed, faults>>

WmiCleanupEndsAtOnce ==
    /\ cleanup = "wmi"
    /\ cleanup' = "cpuoc"
    /\ closed' = [closed EXCEPT !["wmi"] = TRUE]
    /\ Terminate("wmi")
    /\ UNCHANGED <<calls, callQueue, begun, pending, failure, result, faults>>

WmiCleanupEnds ==
    /\ cleanup = "wmi" /\ result[CleanupCall] # "none"
    /\ cleanup' = "cpuoc"
    /\ closed' = [closed EXCEPT !["wmi"] = TRUE]
    /\ Terminate("wmi")
    /\ UNCHANGED <<calls, callQueue, begun, pending, failure, result, faults>>

CpuCleanupForgets ==
    /\ cleanup = "cpuoc" /\ cleanup' = "done"
    /\ closed' = [closed EXCEPT !["cpuoc"] = TRUE]
    /\ pending' = [pending EXCEPT !["cpuoc"] = {}]
    /\ UNCHANGED <<calls, callQueue, begun, result, thread, worker, failure, faults>>

\* The CPU channel only lets go: its worker keeps the native library rooted.
CpuCleanup ==
    /\ cleanup = "cpuoc" /\ cleanup' = "done"
    /\ closed' = [closed EXCEPT !["cpuoc"] = TRUE]
    /\ Settle(pending["cpuoc"], "error") /\ Advances("cpuoc", pending["cpuoc"])
    /\ pending' = [pending EXCEPT !["cpuoc"] = {}]
    /\ UNCHANGED <<calls, thread, worker, failure, faults>>

Cleanup == CleanupStarts \/ WmiCleanup \/ WmiCleanupEnds \/ CpuCleanup

Next ==
    \/ \E ch \in Channels :
        \/ Call(ch) \/ Begin(ch) \/ WorkerStarts(ch) \/ Receive(ch)
        \/ \E answer \in {"ok", "error", "fatal"} : NativeReturns(ch, answer)
        \/ TimerFires(ch) \/ WorkerDies(ch)
    \/ Cleanup

Spec == Init /\ [][Next]_vars

\* Promise jobs and events are handled and timers fire; a native call need
\* never return.
Fairness ==
    /\ \A ch \in Channels : WF_vars(Begin(ch)) /\ WF_vars(Receive(ch)) /\ WF_vars(TimerFires(ch))
    /\ WF_vars(WmiCleanup) /\ WF_vars(WmiCleanupEnds) /\ WF_vars(CpuCleanup)

FairSpec == Spec /\ Fairness

-----------------------------------------------------------------------------
\* After a failure or the cleanup nothing new reaches the hardware: the WMI
\* thread starts no call, the CPU thread only one whose request was given up.
FailureStopsCalls ==
    [][\A ch \in Channels :
        (failure[ch] \/ closed[ch]) /\ executing[ch] = {} /\ executing'[ch] # {}
            => ch = "cpuoc" /\ \A id \in executing'[ch] : result[id] # "none"]_vars

\* A worker is stopped in the middle of a native call only because it failed:
\* the cleanup drains the calls and waits for its own.  The CPU worker, whose
\* library cannot be unloaded, is never stopped.
WorkersEndQuietly ==
    [][\A ch \in Channels :
        worker[ch] = "alive" /\ worker'[ch] = "terminated"
            => ch = "wmi" /\ (failure'[ch] \/ executing[ch] = {})]_vars

\* Every call settles, even when the hardware never answers.
EveryCallSettles == \A id \in CallIds : (calls >= id) ~> (result[id] # "none")
=============================================================================
