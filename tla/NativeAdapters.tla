--------------------------- MODULE NativeAdapters ---------------------------
(***************************************************************************)
(* The adapters below the hardware queues: native/linux/acpi.ts, which     *)
(* packs a call for /proc/acpi/call, and the owners of the two libraries   *)
(* on Windows, windows/acpi.ts with WmiOutput.h and windows/cpuoc.ts; with *)
(* the check of websocket/index.ts that lets a client's call through.      *)
(*                                                                         *)
(* Each behaviour has one adapter; they share nothing.  A queue or a       *)
(* worker runs its calls one at a time; the cleanup may come in the middle *)
(* of an initialization, which is what the adapters' own checks are for.   *)
(* External: the kernel module, the firmware, WMI and the libraries.       *)
(***************************************************************************)
EXTENDS Integers, Sequences, SequencesExt

CONSTANTS
    Base, Width,   \* the values of a byte, 256, and the bytes of a machine word, 8
    BufferSize,    \* the length of resultsBuffer, 16
    Methods,       \* signatures: the names of the uint8 inArgs, the widths of the outArgs
    Objects,       \* the arguments of callers, also of calls that no method takes
    NaN, Refused, Done, Nothing,
    MaxEntries     \* bound on the calls that reach the other side

Byte == 0 .. Base - 1
MaxAttempts == 3

VARIABLES
    adapter,        \* "acpi", "wmi" or "cpuoc"
    lib,            \* loaded, isInitialized, isPoisoned, isClosed
    initialization, \* Nothing, or the failed attempts of the one in progress
    results,        \* resultsBuffer and countBuffer, which outlive a call
    last,           \* the last call, as asked, as it arrived, the result and the answer
    entries

vars == <<adapter, lib, initialization, results, last, entries>>
library == <<lib, initialization>>

NoCall == [asked |-> <<>>, arrived |-> <<>>, bytes |-> 0, result |-> Nothing, answer |-> Refused]

Init ==
    /\ adapter \in {"acpi", "wmi", "cpuoc"}
    /\ lib = [loaded |-> FALSE, isInitialized |-> FALSE, isPoisoned |-> FALSE, isClosed |-> FALSE]
    /\ initialization = Nothing
    /\ results = [cells |-> [i \in 1 .. BufferSize |-> 0], count |-> 0]
    /\ last = NoCall /\ entries = 0

Enters == entries < MaxEntries /\ entries' = entries + 1

-----------------------------------------------------------------------------
(* Numbers of several bytes: the weight of the byte after n others, and the *)
(* sum of the first n numbers of a sequence.                                *)

Power(n) == LET power[i \in 0 .. n] == IF i = 0 THEN 1 ELSE Base * power[i - 1] IN power[n]
Total(s, n) == LET total[i \in 0 .. n] == IF i = 0 THEN 0 ELSE total[i - 1] + s[i] IN total[n]

\* The hexadecimal digits are the bytes in reverse; so is a result read.
Number(bytes) == Total([i \in DOMAIN bytes |-> bytes[i] * Power(i - 1)], Len(bytes))

-----------------------------------------------------------------------------
(* Arguments: <<name, value>> pairs, in the order of the caller's object.   *)

Has(args, name) == \E i \in DOMAIN args : args[i][1] = name
ValueOf(args, name) == args[CHOOSE i \in DOMAIN args : args[i][1] = name][2]
InOrder(method, args) == [i \in DOMAIN method.inArgs |-> ValueOf(args, method.inArgs[i])]

\* Each name of the signature once, and nothing but uint8 values.
ValidateNativeCall(method, args) ==
    /\ Len(args) = Len(method.inArgs)
    /\ \A i \in DOMAIN method.inArgs :
        Has(args, method.inArgs[i]) /\ ValueOf(args, method.inArgs[i]) \in Byte
OrderedArgs(method, args) == [i \in DOMAIN args |-> <<method.inArgs[i], ValueOf(args, method.inArgs[i])>>]

FitsTransport(method) == Len(method.inArgs) <= Width

\* The argument of the Linux transport is one number.
ArgsToHexString(method, args) == Number(InOrder(method, args))

\* acpi_call hands one machine word on; the firmware reads it byte by byte.
Unpacked(n, k) == [i \in 1 .. k |-> ((n % Power(Width)) \div Power(i - 1)) % Base]

\* The Windows check, and its two buffers, which the library pairs again.
ValidateCall(method, args) ==
    /\ \A i \in DOMAIN args : Contains(method.inArgs, args[i][1]) /\ args[i][2] \in Byte
    /\ \A i \in DOMAIN method.inArgs : Has(args, method.inArgs[i])
ArgNames(args) == [i \in DOMAIN args |-> args[i][1]]
ArgValues(args) == [i \in DOMAIN args |-> args[i][2]]
BuildNamedInParams(method, names, values) ==
    [i \in DOMAIN method.inArgs |-> values[CHOOSE k \in DOMAIN names : names[k] = method.inArgs[i]]]

-----------------------------------------------------------------------------
(* Results: one value per out argument, of one or two bytes.                *)

OutputBytes(method) == Total(method.outArgs, Len(method.outArgs))
Outputs(method) ==
    {values \in [DOMAIN method.outArgs -> 0 .. Power(2) - 1] :
        \A i \in DOMAIN values : values[i] < Power(method.outArgs[i])}

Meant(method, values) ==
    Total([i \in DOMAIN values |-> values[i] * Power(Total(method.outArgs, i - 1))], Len(values))

\* A value is its low byte, then its high byte.
BytesOf(value, width) == IF width = 1 THEN <<value>> ELSE <<value % Base, value \div Base>>
Bytes(method, values) == FlattenSeq([i \in DOMAIN values |-> BytesOf(values[i], method.outArgs[i])])

\* parseResult(): an integer, or a buffer of just the declared bytes.
ParseInteger(n, outputBytes) == IF outputBytes >= 1 /\ n < Power(outputBytes) THEN n ELSE NaN
ParseBuffer(bytes, outputBytes) == IF outputBytes >= 1 /\ Len(bytes) = outputBytes THEN Number(bytes) ELSE NaN

\* PackWmiOutputFields(): WMI lists the fields in any order, each with its
\* parameter ID.  What it refuses to pack is a failed call.
Fields(method, values) ==
    {[k \in DOMAIN values |-> [order |-> p[k], value |-> values[p[k]], width |-> method.outArgs[p[k]]]] :
        p \in SetToSeqs(DOMAIN values)}
Sorted(fields) ==
    LET place == CHOOSE p \in SetToSeqs(DOMAIN fields) :
                     \A i, j \in DOMAIN fields : i < j => fields[p[i]].order < fields[p[j]].order
    IN [k \in DOMAIN fields |-> fields[place[k]]]
PackWmiOutputFields(fields) ==
    FlattenSeq([k \in DOMAIN fields |-> BytesOf(Sorted(fields)[k].value, Sorted(fields)[k].width)])

KeepResults == results
EmptyResults == [cells |-> [i \in 1 .. BufferSize |-> NaN], count |-> 0]
Written(bytes) ==
    [cells |-> [i \in 1 .. BufferSize |-> IF i \in DOMAIN bytes THEN bytes[i] ELSE EmptyResults.cells[i]],
     count |-> Len(bytes)]

\* What the library left is an answer only if it has the declared length.
Decoded(left, outputBytes) ==
    IF left.count \in 1 .. BufferSize /\ left.count = outputBytes
       /\ \A i \in 1 .. left.count : left.cells[i] \in Byte
    THEN Number(SubSeq(left.cells, 1, left.count)) ELSE Refused

-----------------------------------------------------------------------------
(* Calls *)

\* A client's arguments are checked and put in order by the server; its own
\* calls go to the adapter as they are.
Passed(method, args) ==
    {args} \cup {OrderedArgs(method, a) : a \in {x \in {args} : ValidateNativeCall(method, x)}}
Requests ==
    UNION {UNION {{[method |-> m, args |-> a, passed |-> p] : p \in Passed(m, a)} :
        a \in Objects} : m \in Methods}

\* What argsToHexString() and validateCall() let through; the rest has no effect.
LinuxRequests ==
    {r \in Requests : ValidateNativeCall(r.method, r.passed) /\ FitsTransport(r.method)}
WindowsRequests == {r \in Requests : ValidateCall(r.method, r.passed)}

Calls(r, arrived, result, answer) ==
    last' = [asked |-> InOrder(r.method, r.args), arrived |-> arrived,
             bytes |-> OutputBytes(r.method), result |-> result, answer |-> answer]

\* setCall() does not take a write for done that the response calls an error.
SetAnswer(response) == IF response = Nothing THEN Refused ELSE Done

\* getCall() of Linux turns every failure into NaN.
LinuxCall ==
    /\ adapter = "acpi" /\ Enters
    /\ \E r \in LinuxRequests :
        LET bytes == OutputBytes(r.method)
            arrived == Unpacked(ArgsToHexString(r.method, r.passed), Len(r.method.inArgs))
        IN
        \/ \E values \in Outputs(r.method) :
            Calls(r, arrived, Meant(r.method, values), ParseBuffer(Bytes(r.method, values), bytes))
        \/ \E n \in 0 .. Power(BufferSize) - 1 : Calls(r, arrived, n, ParseInteger(n, bytes))
        \* A buffer of another length; an error, an empty response, or no file.
        \/ \E buffer \in BoundedSeq(Byte, BufferSize) :
            Len(buffer) # bytes /\ Calls(r, arrived, Nothing, ParseBuffer(buffer, bytes))
        \/ Calls(r, arrived, Nothing, NaN)
        \/ \E response \in {Done, Nothing} : Calls(r, arrived, response, SetAnswer(response))
    /\ UNCHANGED <<adapter, library, results>>

\* requireLib(), and the same of tune().
Usable == ~lib.isClosed /\ lib.loaded /\ lib.isInitialized /\ ~lib.isPoisoned

\* nativeFailure(): -2 is a call that timed out, or a state nobody knows.
NativeFailure == lib' = lib \/ lib' = [lib EXCEPT !.isPoisoned = TRUE]

WmiCalls ==
    /\ adapter = "wmi" /\ initialization = Nothing /\ Usable /\ Enters
    /\ UNCHANGED <<adapter, initialization>>
Arrived(r) == BuildNamedInParams(r.method, ArgNames(r.passed), ArgValues(r.passed))

WmiGet ==
    /\ WmiCalls
    /\ \E r \in WindowsRequests :
        LET bytes == OutputBytes(r.method) IN
        \/ /\ UNCHANGED lib
           /\ \E values \in Outputs(r.method) : \E fields \in Fields(r.method, values) :
                /\ results' = Written(PackWmiOutputFields(fields))
                /\ Calls(r, Arrived(r), Meant(r.method, values), Decoded(results', bytes))
        \* Success without output, or without all of it.
        \/ /\ UNCHANGED lib
           /\ results' \in {EmptyResults} \cup {Written(some) : some \in BoundedSeq(Byte, bytes - 1)}
           /\ Calls(r, Arrived(r), Nothing, Decoded(results', bytes))
        \/ NativeFailure /\ results' = EmptyResults /\ Calls(r, Arrived(r), Nothing, Refused)

WmiSet ==
    /\ WmiCalls /\ UNCHANGED results
    /\ \E r \in WindowsRequests :
        \/ UNCHANGED lib /\ Calls(r, Arrived(r), Done, Done)
        \/ NativeFailure /\ Calls(r, Arrived(r), Nothing, Refused)

\* A tune of CPUOC.dll, in range; the library checks what it did by itself.
Tune ==
    /\ adapter = "cpuoc" /\ initialization = Nothing /\ Usable /\ Enters
    /\ UNCHANGED lib \/ NativeFailure
    /\ UNCHANGED <<adapter, initialization, results, last>>

-----------------------------------------------------------------------------
(* The life of a library *)

\* wmiInit() and tuneInit(); a caller who comes meanwhile waits for the same.
InitStarts ==
    /\ adapter \in {"wmi", "cpuoc"} /\ initialization = Nothing
    /\ ~lib.isClosed /\ ~lib.isPoisoned /\ (adapter = "cpuoc" => ~lib.isInitialized)
    /\ initialization' = 0
    /\ UNCHANGED <<adapter, lib, results, last, entries>>

InitEnds == initialization' = Nothing
Opened == [lib EXCEPT !.loaded = TRUE]
Released(library_) == [library_ EXCEPT !.loaded = FALSE, !.isInitialized = FALSE]

\* The file is missing, which is asked once, or the cleanup came first.
InitRejects ==
    /\ initialization # Nothing
    /\ initialization = 0 \/ lib.isClosed
    /\ InitEnds
    /\ UNCHANGED <<adapter, lib, results, last, entries>>

RetriesOn(left) ==
    IF initialization + 1 >= MaxAttempts
    THEN lib' = Released(left) /\ InitEnds
    ELSE lib' = [left EXCEPT !.isInitialized = FALSE] /\ initialization' = initialization + 1

\* Two more attempts, two seconds apart, unless a call timed out; what could
\* not be initialized is unloaded.
AttemptFails(left) ==
    IF initialization + 1 >= MaxAttempts \/ left.isPoisoned
    THEN lib' = Released(left) /\ InitEnds
    ELSE lib' = [left EXCEPT !.isInitialized = FALSE] /\ initialization' = initialization + 1

\* The library is opened, has the right ABI, and initializes; or not.
WmiAttempt ==
    /\ adapter = "wmi" /\ initialization # Nothing /\ ~lib.isClosed /\ Enters
    /\ \/ lib' = [Opened EXCEPT !.isInitialized = TRUE] /\ InitEnds
       \/ \E left \in {lib, Opened, [Opened EXCEPT !.isPoisoned = TRUE]} : AttemptFails(left)
    /\ UNCHANGED <<adapter, results, last>>

CpuocAttempt ==
    /\ adapter = "cpuoc" /\ initialization # Nothing /\ ~lib.isClosed /\ ~lib.isPoisoned /\ Enters
    /\ lib' \in {lib, Opened, [Opened EXCEPT !.isPoisoned = TRUE], [Opened EXCEPT !.isInitialized = TRUE]}
    /\ InitEnds
    /\ UNCHANGED <<adapter, results, last>>

\* CPUOC.dll cannot be unloaded.
Cleanup ==
    /\ adapter \in {"wmi", "cpuoc"} /\ ~lib.isClosed
    /\ lib' = IF adapter = "wmi" THEN [Released(lib) EXCEPT !.isClosed = TRUE]
              ELSE [lib EXCEPT !.isClosed = TRUE, !.isInitialized = FALSE]
    /\ UNCHANGED <<adapter, initialization, results, last, entries>>

Next ==
    \/ LinuxCall \/ WmiGet \/ WmiSet \/ Tune
    \/ InitStarts \/ InitRejects \/ WmiAttempt \/ CpuocAttempt \/ Cleanup

Spec == Init /\ [][Next]_vars

-----------------------------------------------------------------------------
\* Every argument reaches the parameter it was given for, whatever the order
\* of the caller's object, by position on Linux and by name on Windows.
ArgumentsArrive == last.arrived = last.asked

\* An answer is what the firmware returned in this call, of the declared width,
\* and a write is not acknowledged that the firmware rejected.
AnswersAreExact ==
    last.answer \notin {NaN, Refused} =>
        last.answer = last.result /\ (last.answer = Done \/ last.answer < Power(last.bytes))

\* Calls are carried faithfully in both directions.
CallsAreFaithful == ArgumentsArrive /\ AnswersAreExact

\* What a step may not do: nothing enters a library that timed out or was given
\* up, not even from an initialization that was waiting; one that failed to
\* initialize does not stay loaded, and CPUOC.dll is never unloaded.
LeavesLibraryAlone ==
    /\ lib.isPoisoned \/ lib.isClosed => entries' = entries
    /\ adapter = "wmi" /\ initialization' = Nothing /\ ~lib'.isInitialized => ~lib'.loaded
    /\ adapter = "cpuoc" /\ lib.loaded => lib'.loaded
=============================================================================
