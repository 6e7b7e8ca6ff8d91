-------------------------- MODULE MCNativeAdapters --------------------------
(***************************************************************************)
(* What the process does to the hardware, below its queues: NativeAdapters *)
(* on three method signatures, or RaplTune.                                *)
(***************************************************************************)
EXTENDS RaplTune, SequencesExt

CONSTANTS Base, Width, BufferSize, Methods, Objects, NaN, Refused, Done, Nothing, MaxEntries
ASSUME NothingAssumption == Nothing \notin Nat   \* no attempt
ASSUME SizesAssumption == Base \in Nat \ {0} /\ Width \in Nat /\ BufferSize \in Nat

\* The catalog's types: uint8 arguments, which have names, and outputs of one
\* or two bytes; an object is a list of names and numbers.
ASSUME MethodsAssumption == \A m \in Methods : m.inArgs \in Seq(STRING) /\ m.outArgs \in Seq({1, 2})
ASSUME ObjectsAssumption == Objects \subseteq Seq(STRING \X Nat)

\* One argument by the fast path; a uint16; more than the Linux word takes.
MCMethods ==
    {[inArgs |-> <<"Data">>, outArgs |-> <<1>>],
     [inArgs |-> <<"Index", "Data">>, outArgs |-> <<2>>],
     [inArgs |-> <<"Index", "Data", "Mode">>, outArgs |-> <<1, 2>>]}

\* Every order and value of the arguments, and objects with a name too many,
\* one too few, a wrong one, and a value that is no byte.
Given(names) == {[i \in DOMAIN names |-> <<names[i], v[i]>>] : v \in [DOMAIN names -> 0 .. Base - 1]}
MCObjects ==
    UNION {UNION {Given(names) : names \in SetToSeqs(few)} :
        few \in {{"Data"}, {"Data", "Index"}, {"Data", "Index", "Mode"}}}
    \cup {<<>>, <<<<"Other", 1>>>>, <<<<"Data", Base>>>>, <<<<"Data", 1>>, <<"Other", 0>>>>,
          <<<<"Index", 1>>, <<"Other", 0>>>>, <<<<"Index", Base>>, <<"Data", 0>>>>}

VARIABLES adapter, lib, initialization, results, last, entries

calling == <<adapter, lib, initialization, results, last, entries>>

Adapters == INSTANCE NativeAdapters

\* One of the initial states of RaplTune, which the calls leave alone.
NoTune == tunes = 0 /\ outside = 0 /\ enabled /\ driver = [i \in {1, 2} |-> 0]

MCInit == Init /\ Adapters!Init

\* A behaviour is one of calls, or one of RAPL tunes.
MCNext ==
    \/ adapter = "acpi" /\ entries = 0 /\ UNCHANGED calling /\ Next
    \/ NoTune /\ UNCHANGED vars /\ Adapters!Next

MCSpec == MCInit /\ [][MCNext]_<<vars, calling>>

-----------------------------------------------------------------------------
\* Arguments and answers are carried faithfully.
CallsAreFaithful == Adapters!CallsAreFaithful

\* A library that timed out or was closed is not entered again, one that failed
\* to initialize is not kept, and CPUOC.dll is never unloaded.
LibraryIsLeftAlone == [][Adapters!LeavesLibraryAlone]_<<vars, calling>>
=============================================================================
