---------------------------- MODULE NativeProofs ----------------------------
(***************************************************************************)
(* Theorems about the native layer: the power limits of Linux (RaplTune),  *)
(* the libraries of Windows (NativeAdapters) and, above them, the queues   *)
(* and workers of the two hardware channels (HardwareChannels).            *)
(***************************************************************************)
EXTENDS MCNativeAdapters, MCHardwareChannels, WellFoundedInduction, FiniteSetTheorems, TLAPS

-----------------------------------------------------------------------------
(* RaplTune, for every range of limits and every number of tunes, faults   *)
(* and outside changes.                                                    *)
(*                                                                         *)
(* DriverHasProgrammedLimits speaks of the adapter at rest.  What makes it *)
(* inductive is what each step of a tune may rely on: up to the first      *)
(* write the driver is untouched, from then on the old limits are in       *)
(* previous, and a rollback has at least the error that caused it.         *)

\* Where a tune is: before its first write, between its first write and a
\* verdict, or rolling back.
Untouched == {"idle", "init", "before", "write1"}
Writing   == {"write1", "write2", "verify", "enforced"}
Undoing   == {"undo1", "undo2", "check"}

RollbackHasACause ==
    /\ errors \in Nat
    /\ step \in Undoing => errors >= 1

PoisonEndsTheTune == poisonedError => step = "idle" /\ restartRequired

OldLimitsAreKept ==
    outside = 0 /\ ~poisonedError =>
        /\ step \in Untouched => driver = programmed
        /\ step \in Writing \cup Undoing => previous = programmed
        /\ step = "enforced" => driver = requested

Inv ==
    /\ outside \in Nat
    /\ RollbackHasACause /\ PoisonEndsTheTune /\ OldLimitsAreKept

\* The adapter starts unpoisoned, with the limits it finds counted as programmed.
LEMMA InitInv == Init => Inv
  BY DEF Init, Inv, RollbackHasACause, PoisonEndsTheTune, OldLimitsAreKept,
         Untouched, Writing, Undoing

\* One step per action of a tune; each moves the tune one step on, or ends it
\* with the driver as it was.
LEMMA NextInv == Inv /\ [Next]_vars => Inv'
  <1> SUFFICES ASSUME Inv, [Next]_vars PROVE Inv'
    OBVIOUS
  <1> USE DEF Inv, RollbackHasACause, PoisonEndsTheTune, OldLimitsAreKept,
              Untouched, Writing, Undoing
  <1>1. CASE TuneStarts
    BY <1>1 DEF TuneStarts, Usable
  <1>2. CASE TuneInit
    BY <1>2 DEF TuneInit, locals
  <1>3. CASE ReadPrevious
    BY <1>3 DEF ReadPrevious
  <1>4. ASSUME NEW i \in {1, 2}, Write(i) PROVE Inv'
    <2>1. i = 1 => step = "write1" /\ step' \in {"write2", "undo1"}
      BY <1>4 DEF Write
    <2>2. i = 2 => step = "write2" /\ step' \in {"verify", "undo1"}
      BY <1>4 DEF Write
    <2>3. /\ UNCHANGED <<previous, programmed, outside, poisonedError, restartRequired>>
          /\ errors' \in {errors, 1} /\ (step' = "undo1" => errors' = 1)
      BY <1>4, <2>1, <2>2 DEF Write
    <2> QED
      BY <2>1, <2>2, <2>3
  <1>5. CASE VerifyLimits
    BY <1>5 DEF VerifyLimits, Applied, RollsBack
  <1>6. CASE VerifyEnabled
    BY <1>6 DEF VerifyEnabled, RollsBack
  <1>7. ASSUME NEW i \in {1, 2}, Undo(i) PROVE Inv'
    <2>1. i = 1 => step = "undo1" /\ step' = "undo2"
      BY <1>7 DEF Undo
    <2>2. i = 2 => step = "undo2" /\ step' = "check"
      BY <1>7 DEF Undo
    <2>3. /\ UNCHANGED <<previous, programmed, outside, poisonedError, restartRequired>>
          /\ errors' \in {errors, errors + 1}
      BY <1>7 DEF Undo
    <2> QED
      BY <2>1, <2>2, <2>3
  <1>8. CASE CheckRestored
    <2>1. /\ step = "check" /\ step' = "idle"
          /\ UNCHANGED <<driver, programmed, previous, outside>>
          /\ errors' \in Nat /\ errors' >= 1
          /\ errors' <= 1 => driver = previous
      BY <1>8 DEF CheckRestored
    <2>2. (poisonedError' <=> errors' > 1) /\ (poisonedError' => restartRequired')
      BY <1>8 DEF CheckRestored, Latch, Report
    <2>3. ~poisonedError
      BY <2>1
    <2> QED
      BY <2>1, <2>2, <2>3
  <1>9. CASE Outside
    BY <1>9 DEF Outside, locals
  <1>10. CASE UNCHANGED vars
    BY <1>10 DEF vars
  <1> QED
    BY <1>1, <1>2, <1>3, <1>4, <1>5, <1>6, <1>7, <1>8, <1>9, <1>10 DEF Next

\* In every reachable state the tune in progress can still put the old limits
\* back, or the adapter is poisoned and at rest.
THEOREM InvHolds == Spec => []Inv
  BY InitInv, NextInv, PTL DEF Spec

\* Between two tunes the driver has the limits of the last one that succeeded,
\* unless the adapter is poisoned or another program changed them.
THEOREM LimitsAreProgrammed == Spec => []DriverHasProgrammedLimits
  <1>1. Inv => DriverHasProgrammedLimits
    BY DEF Inv, OldLimitsAreKept, DriverHasProgrammedLimits, Untouched
  <1> QED
    BY <1>1, InvHolds, PTL

\* A rollback that could not be verified is the last access to the limits.
LEMMA PoisonStep ==
    ASSUME Inv, [Next]_vars, poisonedError
    PROVE  /\ poisonedError' /\ restartRequired
           /\ (outside' = outside => driver' = driver)
  <1>1. step = "idle" /\ restartRequired /\ outside \in Nat
    BY DEF Inv, PoisonEndsTheTune
  <1>2. CASE TuneStarts
    BY <1>1, <1>2 DEF TuneStarts
  <1>3. CASE Outside
    BY <1>1, <1>3 DEF Outside
  <1>4. CASE UNCHANGED vars
    BY <1>1, <1>4 DEF vars
  <1>5. ~TuneInit /\ ~ReadPrevious /\ ~VerifyLimits /\ ~VerifyEnabled /\ ~CheckRestored
    BY <1>1 DEF TuneInit, ReadPrevious, VerifyLimits, VerifyEnabled, CheckRestored
  <1>6. ASSUME NEW i \in {1, 2} PROVE ~Write(i) /\ ~Undo(i)
    <2>1. CASE i = 1
      BY <1>1, <2>1 DEF Write, Undo
    <2>2. CASE i = 2
      BY <1>1, <2>2 DEF Write, Undo
    <2> QED
      BY <2>1, <2>2
  <1> QED
    BY <1>2, <1>3, <1>4, <1>5, <1>6 DEF Next

\* After a rollback that could not be verified no tune writes the limits any
\* more, until the server restarts.
THEOREM PoisonedForGood == Spec => PoisonIsFinal
  <1>1. ASSUME Inv, [Next]_vars
        PROVE  [poisonedError => /\ poisonedError' /\ restartRequired
                                 /\ (outside' = outside => driver' = driver)]_vars
    BY <1>1, PoisonStep
  <1> QED
    BY <1>1, InvHolds, PTL DEF Spec, PoisonIsFinal

-----------------------------------------------------------------------------
(* The libraries of NativeAdapters, for any number of calls and attempts.  *)

Flags == [loaded : BOOLEAN, isInitialized : BOOLEAN, isPoisoned : BOOLEAN, isClosed : BOOLEAN]

\* What the flags of a library say of each other, also while an initialization
\* is in progress: a WMI library is not poisoned then, and one that is loaded
\* without being initialized is between two attempts.
LibraryInv ==
    /\ adapter \in {"acpi", "wmi", "cpuoc"} /\ initialization \in Nat \cup {Nothing}
    /\ lib \in Flags
    /\ adapter = "acpi" => ~lib.isPoisoned /\ ~lib.isClosed
    /\ adapter = "wmi" =>
        /\ initialization # Nothing => ~lib.isPoisoned
        /\ initialization \in {0, Nothing} /\ lib.loaded => lib.isInitialized
        /\ lib.isClosed => ~lib.loaded

\* A call or an attempt enters the library only if it is in order; it may
\* leave it poisoned.
LEMMA LibraryStep ==
    ASSUME LibraryInv, Adapters!Next
    PROVE  LibraryInv' /\ Adapters!LeavesLibraryAlone
  <1> USE DEF Flags, LibraryInv, Adapters!LeavesLibraryAlone
  <1>1. CASE Adapters!LinuxCall
    <2>1. adapter = "acpi" /\ UNCHANGED <<adapter, lib, initialization>>
      BY <1>1 DEF Adapters!LinuxCall, Adapters!library
    <2> QED
      BY <2>1
  <1>2. CASE Adapters!WmiGet \/ Adapters!WmiSet
    <2>1. /\ adapter = "wmi" /\ initialization = Nothing /\ Adapters!Usable
          /\ UNCHANGED <<adapter, initialization>>
          /\ lib' = lib \/ lib' = [lib EXCEPT !.isPoisoned = TRUE]
      BY <1>2 DEF Adapters!WmiGet, Adapters!WmiSet, Adapters!WmiCalls, Adapters!NativeFailure
    <2> QED
      BY <2>1 DEF Adapters!Usable
  <1>3. CASE Adapters!Tune
    <2>1. /\ adapter = "cpuoc" /\ Adapters!Usable /\ UNCHANGED <<adapter, initialization>>
          /\ lib' = lib \/ lib' = [lib EXCEPT !.isPoisoned = TRUE]
      BY <1>3 DEF Adapters!Tune, Adapters!NativeFailure
    <2> QED
      BY <2>1 DEF Adapters!Usable
  <1>4. CASE Adapters!InitStarts
    BY <1>4 DEF Adapters!InitStarts
  <1>5. CASE Adapters!InitRejects
    <2>1. /\ initialization' = Nothing /\ (initialization = 0 \/ lib.isClosed)
          /\ UNCHANGED <<adapter, lib, entries>>
      BY <1>5 DEF Adapters!InitRejects, Adapters!InitEnds
    <2>2. CASE initialization = 0
      BY <2>1, <2>2
    <2>3. CASE lib.isClosed
      BY <2>1, <2>3
    <2> QED
      BY <2>1, <2>2, <2>3
  <1>6. CASE Adapters!WmiAttempt
    <2>1. /\ adapter = "wmi" /\ adapter' = "wmi" /\ initialization \in Nat /\ ~lib.isClosed
          /\ ~lib.isPoisoned
      BY <1>6 DEF Adapters!WmiAttempt
    <2>2. CASE lib' = [Adapters!Opened EXCEPT !.isInitialized = TRUE] /\ Adapters!InitEnds
      BY <2>1, <2>2 DEF Adapters!Opened, Adapters!InitEnds
    <2>3. ASSUME NEW left \in {lib, Adapters!Opened,
                               [Adapters!Opened EXCEPT !.isPoisoned = TRUE]},
                 Adapters!AttemptFails(left)
          PROVE  LibraryInv' /\ Adapters!LeavesLibraryAlone
      <3>1. left \in Flags /\ ~left.isClosed
        BY <2>1 DEF Adapters!Opened
      <3>2. CASE lib' = Adapters!Released(left) /\ initialization' = Nothing
        BY <2>1, <3>1, <3>2 DEF Adapters!Released
      <3>3. CASE /\ ~left.isPoisoned /\ lib' = [left EXCEPT !.isInitialized = FALSE]
                 /\ initialization' = initialization + 1
        <4>1. initialization' \in Nat /\ initialization' # 0 /\ initialization' # Nothing
          BY <2>1, <3>3, NothingAssumption
        <4> QED
          BY <2>1, <3>1, <3>3, <4>1
      <3> QED
        BY <2>3, <3>2, <3>3 DEF Adapters!AttemptFails, Adapters!InitEnds
    <2> QED
      BY <1>6, <2>2, <2>3 DEF Adapters!WmiAttempt
  <1>7. CASE Adapters!CpuocAttempt
    <2>1. /\ adapter = "cpuoc" /\ adapter' = "cpuoc" /\ ~lib.isClosed /\ ~lib.isPoisoned
          /\ initialization' = Nothing
          /\ lib' \in {lib, Adapters!Opened, [Adapters!Opened EXCEPT !.isPoisoned = TRUE],
                       [Adapters!Opened EXCEPT !.isInitialized = TRUE]}
      BY <1>7 DEF Adapters!CpuocAttempt, Adapters!InitEnds
    <2> QED
      BY <2>1 DEF Adapters!Opened
  <1>8. CASE Adapters!Cleanup
    <2>1. /\ adapter \in {"wmi", "cpuoc"} /\ UNCHANGED <<adapter, initialization, entries>>
          /\ lib' = IF adapter = "wmi" THEN [Adapters!Released(lib) EXCEPT !.isClosed = TRUE]
                    ELSE [lib EXCEPT !.isClosed = TRUE, !.isInitialized = FALSE]
      BY <1>8 DEF Adapters!Cleanup
    <2>2. CASE adapter = "wmi"
      BY <2>1, <2>2 DEF Adapters!Released
    <2>3. CASE adapter = "cpuoc"
      BY <2>1, <2>3
    <2> QED
      BY <2>1, <2>2, <2>3
  <1> QED
    BY <1>1, <1>2, <1>3, <1>4, <1>5, <1>6, <1>7, <1>8 DEF Adapters!Next

\* A library that is poisoned or closed is never entered again, whatever calls
\* and attempts to initialize it follow.
THEOREM LibraryLeftAlone == MCSpec => LibraryIsLeftAlone
  <1>1. MCInit => LibraryInv
    BY DEF MCInit, Adapters!Init, LibraryInv, Flags
  <1>2. LibraryInv /\ [MCNext]_<<vars, calling>>
            => LibraryInv' /\ [Adapters!LeavesLibraryAlone]_<<vars, calling>>
    <2> SUFFICES ASSUME LibraryInv, [MCNext]_<<vars, calling>>
                 PROVE  LibraryInv' /\ [Adapters!LeavesLibraryAlone]_<<vars, calling>>
      OBVIOUS
    <2>1. CASE UNCHANGED calling
      BY <2>1 DEF calling, LibraryInv, Adapters!LeavesLibraryAlone
    <2>2. CASE Adapters!Next
      BY <2>2, LibraryStep
    <2> QED
      BY <2>1, <2>2 DEF MCNext
  <1> QED
    BY <1>1, <1>2, PTL DEF MCSpec, LibraryIsLeftAlone

-----------------------------------------------------------------------------
(* The calls of NativeAdapters, for any bytes, words, buffers and           *)
(* signatures.  Numbers of several bytes are sums over a sequence, defined  *)
(* by recursion on its length: each fact about them is an induction on      *)
(* that length, written with a set of the lengths it holds for.             *)

\* A set with 0 that is closed under +1 below n has every number up to n: the
\* least one missing has a predecessor.
LEMMA UpTo ==
    ASSUME NEW n \in Nat, NEW S, 0 \in S, \A i \in 0 .. n - 1 : i \in S => i + 1 \in S
    PROVE  0 .. n \subseteq S
  <1> DEFINE T == (0 .. n) \ S
  <1> SUFFICES ASSUME T # {} PROVE FALSE
    OBVIOUS
  <1> HIDE DEF T
  <1>1. T \in SUBSET Nat
    BY DEF T
  <1>2. \E x \in T : \A y \in T : ~ (<<y, x>> \in OpToRel(<, Nat))
    BY <1>1, WFMin, NatLessThanWellFounded
  <1>3. PICK x \in T : \A y \in T : ~ (y < x)
    BY <1>1, <1>2 DEF OpToRel
  <1>4. x \in 1 .. n /\ x \notin S
    BY DEF T
  <1>5. x - 1 \in 0 .. n - 1 /\ x - 1 \in S
    BY <1>3, <1>4 DEF T
  <1> QED
    BY <1>4, <1>5

\* Total and Power satisfy the equations they are defined by.
LEMMA TotalExists ==
    ASSUME NEW s, NEW n \in Nat
    PROVE  \E f : f = [i \in 0 .. n |-> IF i = 0 THEN 0 ELSE f[i - 1] + s[i]]
  <1> DEFINE Def(m) == \E f : f = [i \in 0 .. m |-> IF i = 0 THEN 0 ELSE f[i - 1] + s[i]]
             S == {m \in Nat : Def(m)}
  <1>1. Def(0)
    <2> DEFINE f == [i \in 0 .. 0 |-> 0]
    <2>1. f = [i \in 0 .. 0 |-> IF i = 0 THEN 0 ELSE f[i - 1] + s[i]]
      OBVIOUS
    <2> QED
      BY <2>1
  <1>2. ASSUME NEW m \in 0 .. n - 1, m \in S PROVE m + 1 \in S
    <2>1. PICK f : f = [i \in 0 .. m |-> IF i = 0 THEN 0 ELSE f[i - 1] + s[i]]
      BY <1>2
    <2> DEFINE g == [i \in 0 .. m + 1 |-> IF i = m + 1 THEN f[m] + s[m + 1] ELSE f[i]]
    <2>2. ASSUME NEW i \in 0 .. m + 1 PROVE g[i] = IF i = 0 THEN 0 ELSE g[i - 1] + s[i]
      <3>1. CASE i = m + 1
        BY <3>1
      <3>2. CASE i \in 1 .. m
        <4>1. f[i] = f[i - 1] + s[i]
          BY <2>1, <3>2
        <4> QED
          BY <3>2, <4>1
      <3>3. CASE i = 0
        BY <2>1, <3>3
      <3> QED
        BY <3>1, <3>2, <3>3
    <2>3. g = [i \in 0 .. m + 1 |-> IF i = 0 THEN 0 ELSE g[i - 1] + s[i]]
      BY <2>2
    <2>4. Def(m + 1)
      BY <2>3
    <2> QED
      BY <2>4
  <1>3. n \in S
    <2> HIDE DEF Def
    <2>1. 0 \in S
      BY <1>1
    <2> HIDE DEF S
    <2>2. 0 .. n \subseteq S
      BY <1>2, <2>1, UpTo
    <2> QED
      BY <2>2
  <1> QED
    BY <1>3

\* The sum is the last value of its recursion.
LEMMA TotalStep ==
    ASSUME NEW s, NEW n \in Nat
    PROVE  \E f : /\ f = [i \in 0 .. n |-> IF i = 0 THEN 0 ELSE f[i - 1] + s[i]]
                  /\ Adapters!Total(s, n) = f[n]
  <1> DEFINE f == CHOOSE total : total = [i \in 0 .. n |-> IF i = 0 THEN 0 ELSE total[i - 1] + s[i]]
  <1>1. f = [i \in 0 .. n |-> IF i = 0 THEN 0 ELSE f[i - 1] + s[i]]
    BY TotalExists
  <1>2. Adapters!Total(s, n) = f[n]
    BY DEF Adapters!Total
  <1> QED
    BY <1>1, <1>2

\* The sum of no numbers, and of one more.
LEMMA TotalSteps ==
    ASSUME NEW s, NEW n \in Nat
    PROVE  /\ Adapters!Total(s, 0) = 0
           /\ Adapters!Total(s, n + 1) = Adapters!Total(s, n) + s[n + 1]
  <1>1. PICK z : /\ z = [i \in 0 .. 0 |-> IF i = 0 THEN 0 ELSE z[i - 1] + s[i]]
                 /\ Adapters!Total(s, 0) = z[0]
    BY TotalStep
  <1>2. PICK f : /\ f = [i \in 0 .. n |-> IF i = 0 THEN 0 ELSE f[i - 1] + s[i]]
                 /\ Adapters!Total(s, n) = f[n]
    BY TotalStep
  <1>3. PICK g : /\ g = [i \in 0 .. n + 1 |-> IF i = 0 THEN 0 ELSE g[i - 1] + s[i]]
                 /\ Adapters!Total(s, n + 1) = g[n + 1]
    <2>1. n + 1 \in Nat
      OBVIOUS
    <2> QED
      BY <2>1, TotalStep
  <1>4. \A i \in 0 .. n : f[i] = IF i = 0 THEN 0 ELSE f[i - 1] + s[i]
    BY <1>2
  <1>5. \A i \in 0 .. n + 1 : g[i] = IF i = 0 THEN 0 ELSE g[i - 1] + s[i]
    BY <1>3
  <1>6. 0 .. n \subseteq {i \in 0 .. n : f[i] = g[i]}
    <2> DEFINE S == {i \in 0 .. n : f[i] = g[i]}
    <2>1. 0 \in S
      BY <1>4, <1>5
    <2>2. ASSUME NEW i \in 0 .. n - 1, i \in S PROVE i + 1 \in S
      <3>1. f[i + 1] = f[i] + s[i + 1] /\ g[i + 1] = g[i] + s[i + 1]
        BY <1>4, <1>5
      <3> QED
        BY <2>2, <3>1
    <2> HIDE DEF S
    <2> QED
      BY <2>1, <2>2, UpTo DEF S
  <1>7. f[n] = g[n] /\ g[n + 1] = g[n] + s[n + 1]
    BY <1>5, <1>6
  <1> QED
    BY <1>1, <1>2, <1>3, <1>7

\* The same of Power.
LEMMA PowerExists ==
    ASSUME NEW n \in Nat
    PROVE  \E f : f = [i \in 0 .. n |-> IF i = 0 THEN 1 ELSE Base * f[i - 1]]
  <1> DEFINE Def(m) == \E f : f = [i \in 0 .. m |-> IF i = 0 THEN 1 ELSE Base * f[i - 1]]
             S == {m \in Nat : Def(m)}
  <1>1. Def(0)
    <2> DEFINE f == [i \in 0 .. 0 |-> 1]
    <2>1. f = [i \in 0 .. 0 |-> IF i = 0 THEN 1 ELSE Base * f[i - 1]]
      OBVIOUS
    <2> QED
      BY <2>1
  <1>2. ASSUME NEW m \in 0 .. n - 1, m \in S PROVE m + 1 \in S
    <2>1. PICK f : f = [i \in 0 .. m |-> IF i = 0 THEN 1 ELSE Base * f[i - 1]]
      BY <1>2
    <2> DEFINE g == [i \in 0 .. m + 1 |-> IF i = m + 1 THEN Base * f[m] ELSE f[i]]
    <2>2. ASSUME NEW i \in 0 .. m + 1 PROVE g[i] = IF i = 0 THEN 1 ELSE Base * g[i - 1]
      <3>1. CASE i = m + 1
        BY <3>1
      <3>2. CASE i \in 1 .. m
        <4>1. f[i] = Base * f[i - 1]
          BY <2>1, <3>2
        <4> QED
          BY <3>2, <4>1
      <3>3. CASE i = 0
        BY <2>1, <3>3
      <3> QED
        BY <3>1, <3>2, <3>3
    <2>3. g = [i \in 0 .. m + 1 |-> IF i = 0 THEN 1 ELSE Base * g[i - 1]]
      BY <2>2
    <2>4. Def(m + 1)
      BY <2>3
    <2> QED
      BY <2>4
  <1>3. n \in S
    <2> HIDE DEF Def
    <2>1. 0 \in S
      BY <1>1
    <2> HIDE DEF S
    <2>2. 0 .. n \subseteq S
      BY <1>2, <2>1, UpTo
    <2> QED
      BY <2>2
  <1> QED
    BY <1>3

LEMMA PowerStep ==
    ASSUME NEW n \in Nat
    PROVE  \E f : /\ f = [i \in 0 .. n |-> IF i = 0 THEN 1 ELSE Base * f[i - 1]]
                  /\ Adapters!Power(n) = f[n]
  <1> DEFINE f == CHOOSE power : power = [i \in 0 .. n |-> IF i = 0 THEN 1 ELSE Base * power[i - 1]]
  <1>1. f = [i \in 0 .. n |-> IF i = 0 THEN 1 ELSE Base * f[i - 1]]
    BY PowerExists
  <1>2. Adapters!Power(n) = f[n]
    BY DEF Adapters!Power
  <1> QED
    BY <1>1, <1>2

\* The weight of the first byte, and of the next.
LEMMA PowerSteps ==
    ASSUME NEW n \in Nat
    PROVE  /\ Adapters!Power(0) = 1
           /\ Adapters!Power(n + 1) = Base * Adapters!Power(n)
  <1>1. PICK z : /\ z = [i \in 0 .. 0 |-> IF i = 0 THEN 1 ELSE Base * z[i - 1]]
                 /\ Adapters!Power(0) = z[0]
    BY PowerStep
  <1>2. PICK f : /\ f = [i \in 0 .. n |-> IF i = 0 THEN 1 ELSE Base * f[i - 1]]
                 /\ Adapters!Power(n) = f[n]
    BY PowerStep
  <1>3. PICK g : /\ g = [i \in 0 .. n + 1 |-> IF i = 0 THEN 1 ELSE Base * g[i - 1]]
                 /\ Adapters!Power(n + 1) = g[n + 1]
    <2>1. n + 1 \in Nat
      OBVIOUS
    <2> QED
      BY <2>1, PowerStep
  <1>4. \A i \in 0 .. n : f[i] = IF i = 0 THEN 1 ELSE Base * f[i - 1]
    BY <1>2
  <1>5. \A i \in 0 .. n + 1 : g[i] = IF i = 0 THEN 1 ELSE Base * g[i - 1]
    BY <1>3
  <1>6. 0 .. n \subseteq {i \in 0 .. n : f[i] = g[i]}
    <2> DEFINE S == {i \in 0 .. n : f[i] = g[i]}
    <2>1. 0 \in S
      BY <1>4, <1>5
    <2>2. ASSUME NEW i \in 0 .. n - 1, i \in S PROVE i + 1 \in S
      <3>1. f[i + 1] = Base * f[i] /\ g[i + 1] = Base * g[i]
        BY <1>4, <1>5
      <3> QED
        BY <2>2, <3>1
    <2> HIDE DEF S
    <2> QED
      BY <2>1, <2>2, UpTo DEF S
  <1>7. f[n] = g[n] /\ g[n + 1] = Base * g[n]
    BY <1>5, <1>6
  <1> QED
    BY <1>1, <1>2, <1>3, <1>7

\* A weight is a positive natural number, and no smaller than the one before.
LEMMA PowerType ==
    ASSUME NEW n \in Nat
    PROVE  Adapters!Power(n) \in Nat \ {0}
  <1> DEFINE S == {i \in Nat : Adapters!Power(i) \in Nat \ {0}}
  <1>1. 0 \in S
    BY PowerSteps
  <1>2. ASSUME NEW i \in 0 .. n - 1, i \in S PROVE i + 1 \in S
    <2> DEFINE p == Adapters!Power(i)
    <2>1. p \in Nat \ {0} /\ Adapters!Power(i + 1) = Base * p
      BY <1>2, PowerSteps
    <2> HIDE DEF p
    <2> QED
      BY <2>1, SizesAssumption
  <1> HIDE DEF S
  <1>3. 0 .. n \subseteq S
    BY <1>1, <1>2, UpTo
  <1> QED
    BY <1>3 DEF S

\* A weight divides every later one.
LEMMA PowerDivides ==
    ASSUME NEW m \in Nat, NEW d \in Nat
    PROVE  \E q \in Nat \ {0} : Adapters!Power(m + d) = Adapters!Power(m) * q
  <1> DEFINE Quotient(i) == \E q \in Nat \ {0} : Adapters!Power(m + i) = Adapters!Power(m) * q
             S == {i \in Nat : Quotient(i)}
  <1>1. 0 \in S
    <2>1. Adapters!Power(m) \in Nat
      BY PowerType
    <2>2. Adapters!Power(m + 0) = Adapters!Power(m) * 1
      BY <2>1
    <2> QED
      BY <2>2
  <1>2. ASSUME NEW i \in 0 .. d - 1, i \in S PROVE i + 1 \in S
    <2>1. PICK q \in Nat \ {0} : Adapters!Power(m + i) = Adapters!Power(m) * q
      BY <1>2
    <2>2. m + (i + 1) = (m + i) + 1 /\ m + i \in Nat
      OBVIOUS
    <2>3. Adapters!Power(m + (i + 1)) = Base * Adapters!Power(m + i)
      BY <2>2, PowerSteps
    <2> DEFINE p == Adapters!Power(m)
               r == Adapters!Power(m + i)
    <2>4. p \in Nat /\ r = p * q /\ Adapters!Power(m + (i + 1)) = Base * r
      BY <2>1, <2>3, PowerType
    <2> HIDE DEF p, r
    <2>5. Adapters!Power(m + (i + 1)) = p * (Base * q)
      BY <2>4, SizesAssumption
    <2>6. Base * q \in Nat \ {0}
      BY SizesAssumption
    <2>7. Quotient(i + 1)
      BY <2>5, <2>6 DEF p
    <2> QED
      BY <2>7
  <1> HIDE DEF S
  <1>3. 0 .. d \subseteq S
    BY <1>1, <1>2, UpTo
  <1> QED
    BY <1>3 DEF S

\* A sum depends on the numbers it adds, and is a natural number if they are.
LEMMA TotalOfSame ==
    ASSUME NEW n \in Nat, NEW s, NEW t, \A i \in 1 .. n : s[i] = t[i]
    PROVE  Adapters!Total(s, n) = Adapters!Total(t, n)
  <1> DEFINE S == {i \in Nat : Adapters!Total(s, i) = Adapters!Total(t, i)}
  <1>1. 0 \in S
    BY TotalSteps
  <1>2. ASSUME NEW i \in 0 .. n - 1, i \in S PROVE i + 1 \in S
    <2>1. s[i + 1] = t[i + 1]
      OBVIOUS
    <2>2. Adapters!Total(s, i + 1) = Adapters!Total(t, i + 1)
      BY <1>2, <2>1, TotalSteps
    <2> QED
      BY <2>2
  <1> HIDE DEF S
  <1>3. 0 .. n \subseteq S
    BY <1>1, <1>2, UpTo
  <1> QED
    BY <1>3 DEF S

LEMMA TotalType ==
    ASSUME NEW n \in Nat, NEW s, \A i \in 1 .. n : s[i] \in Nat
    PROVE  Adapters!Total(s, n) \in Nat
  <1> DEFINE S == {i \in Nat : Adapters!Total(s, i) \in Nat}
  <1>1. 0 \in S
    BY TotalSteps
  <1>2. ASSUME NEW i \in 0 .. n - 1, i \in S PROVE i + 1 \in S
    <2>1. s[i + 1] \in Nat
      OBVIOUS
    <2>2. Adapters!Total(s, i + 1) = Adapters!Total(s, i) + s[i + 1]
      BY TotalSteps
    <2> QED
      BY <1>2, <2>1, <2>2
  <1> HIDE DEF S
  <1>3. 0 .. n \subseteq S
    BY <1>1, <1>2, UpTo
  <1> QED
    BY <1>3 DEF S

-----------------------------------------------------------------------------
\* The number the first k of a sequence of bytes make.
Low(s, k) == Adapters!Total([i \in DOMAIN s |-> s[i] * Adapters!Power(i - 1)], k)

\* It grows byte by byte.
LEMMA LowSteps ==
    ASSUME NEW s \in Seq(Nat), NEW k \in 0 .. Len(s)
    PROVE  /\ Low(s, 0) = 0
           /\ Low(s, k) \in Nat
           /\ k < Len(s) => Low(s, k + 1) = Low(s, k) + s[k + 1] * Adapters!Power(k)
  <1> DEFINE t == [i \in DOMAIN s |-> s[i] * Adapters!Power(i - 1)]
  <1>1. ASSUME NEW i \in 1 .. Len(s) PROVE t[i] \in Nat
    <2>1. s[i] \in Nat /\ i \in DOMAIN s
      OBVIOUS
    <2>2. i - 1 \in Nat
      OBVIOUS
    <2>3. Adapters!Power(i - 1) \in Nat
      BY <2>2, PowerType
    <2> QED
      BY <2>1, <2>3
  <1>2. k < Len(s) => t[k + 1] = s[k + 1] * Adapters!Power(k)
    <2> SUFFICES ASSUME k < Len(s) PROVE t[k + 1] = s[k + 1] * Adapters!Power(k)
      OBVIOUS
    <2>1. k + 1 \in DOMAIN s /\ (k + 1) - 1 = k
      OBVIOUS
    <2> QED
      BY <2>1
  <1> HIDE DEF t
  <1>3. k \in Nat /\ \A i \in 1 .. k : t[i] \in Nat
    BY <1>1
  <1>4. Adapters!Total(t, k) \in Nat
    BY <1>3, TotalType
  <1>5. Adapters!Total(t, 0) = 0 /\ Adapters!Total(t, k + 1) = Adapters!Total(t, k) + t[k + 1]
    BY <1>3, TotalSteps
  <1> QED
    BY <1>2, <1>4, <1>5 DEF Low, t

\* k bytes make a number less than the weight of the next byte.
LEMMA LowIsBounded ==
    ASSUME NEW s \in Seq(Adapters!Byte), NEW k \in 0 .. Len(s)
    PROVE  Low(s, k) < Adapters!Power(k)
  <1> DEFINE S == {i \in Nat : Low(s, i) < Adapters!Power(i)}
  <1>1. s \in Seq(Nat)
    BY SizesAssumption DEF Adapters!Byte
  <1>2. 0 \in S
    BY <1>1, LowSteps, PowerSteps
  <1>3. ASSUME NEW i \in 0 .. k - 1, i \in S PROVE i + 1 \in S
    <2> DEFINE p == Adapters!Power(i)
               n == Low(s, i)
               b == s[i + 1]
    <2>1. i \in Nat /\ i \in 0 .. Len(s) /\ i < Len(s) /\ i + 1 \in 1 .. Len(s)
      OBVIOUS
    <2>2. p \in Nat /\ Adapters!Power(i + 1) = Base * p
      BY <2>1, PowerType, PowerSteps
    <2>3. n \in Nat /\ Low(s, i + 1) = n + b * p /\ n < p
      BY <1>1, <1>3, <2>1, LowSteps
    <2>4. b \in Adapters!Byte
      BY <2>1
    <2> HIDE DEF p, n, b
    <2>5. b \in Nat /\ b + 1 <= Base
      BY <2>4, SizesAssumption DEF Adapters!Byte
    <2>6. (b + 1) * p <= Base * p
      BY <2>2, <2>5, SizesAssumption
    <2>7. n + b * p < Base * p
      BY <2>2, <2>3, <2>5, <2>6, SizesAssumption
    <2> QED
      BY <2>2, <2>3, <2>7 DEF p, n
  <1> HIDE DEF S
  <1>4. 0 .. k \subseteq S
    BY <1>2, <1>3, UpTo
  <1> QED
    BY <1>4 DEF S

\* Above the first k bytes is a multiple of the weight of the next.
LEMMA HighIsMultiple ==
    ASSUME NEW s \in Seq(Nat), NEW k \in 0 .. Len(s)
    PROVE  \E q \in Nat : Low(s, Len(s)) = Low(s, k) + Adapters!Power(k) * q
  <1> DEFINE Above(i) == \E q \in Nat : Low(s, k + i) = Low(s, k) + Adapters!Power(k) * q
             S == {i \in Nat : Above(i)}
  <1>1. Adapters!Power(k) \in Nat /\ Low(s, k) \in Nat
    BY PowerType, LowSteps
  <1>2. 0 \in S
    <2>1. Low(s, k + 0) = Low(s, k) + Adapters!Power(k) * 0
      BY <1>1
    <2> QED
      BY <2>1
  <1>3. ASSUME NEW i \in 0 .. (Len(s) - k) - 1, i \in S PROVE i + 1 \in S
    <2>1. PICK q \in Nat : Low(s, k + i) = Low(s, k) + Adapters!Power(k) * q
      BY <1>3
    <2>2. PICK r \in Nat \ {0} : Adapters!Power(k + i) = Adapters!Power(k) * r
      <3>1. k \in Nat /\ i \in Nat
        OBVIOUS
      <3> QED
        BY <3>1, PowerDivides
    <2>3. k + i \in 0 .. Len(s) /\ k + i < Len(s) /\ (k + i) + 1 = k + (i + 1)
      OBVIOUS
    <2> DEFINE p == Adapters!Power(k)
               n == Low(s, k)
               b == s[k + (i + 1)]
    <2>4. Low(s, k + (i + 1)) = Low(s, k + i) + b * Adapters!Power(k + i)
      BY <2>3, LowSteps
    <2>5. b \in Nat
      BY <2>3
    <2>6. p \in Nat /\ n \in Nat
      BY <1>1
    <2>7. Low(s, k + (i + 1)) = (n + p * q) + b * (p * r)
      BY <2>1, <2>2, <2>4
    <2> HIDE DEF p, n, b
    <2>8. (n + p * q) + b * (p * r) = n + p * (q + b * r) /\ q + b * r \in Nat
      BY <2>5, <2>6
    <2>9. Above(i + 1)
      BY <2>7, <2>8 DEF p, n
    <2> QED
      BY <2>9
  <1> HIDE DEF S
  <1>4. Len(s) - k \in Nat
    OBVIOUS
  <1>5. 0 .. Len(s) - k \subseteq S
    BY <1>2, <1>3, <1>4, UpTo
  <1>6. Len(s) - k \in S /\ k + (Len(s) - k) = Len(s)
    BY <1>4, <1>5
  <1> QED
    BY <1>6 DEF S

-----------------------------------------------------------------------------
(* Arguments *)

\* Dividing by a weight takes apart what lies below it and above.
LEMMA Division ==
    ASSUME NEW a \in Nat, NEW p \in Nat, NEW q \in Nat, a < p
    PROVE  (a + p * q) \div p = q /\ (a + p * q) % p = a
  OBVIOUS

\* A number is its low byte and the rest.
LEMMA SplitByte ==
    ASSUME NEW n \in Nat
    PROVE  n % Base \in Adapters!Byte /\ n \div Base \in Nat /\ n = (n % Base) + Base * (n \div Base)
  BY SizesAssumption DEF Adapters!Byte

\* The firmware reads from the word the bytes that were packed into it, if
\* they fit.
LEMMA UnpackedIsPacked ==
    ASSUME NEW s \in Seq(Adapters!Byte), Len(s) <= Width
    PROVE  Adapters!Unpacked(Adapters!Number(s), Len(s)) = s
  <1> DEFINE n == Low(s, Len(s))
             w == Adapters!Power(Width)
  <1>1. s \in Seq(Nat) /\ Len(s) \in Nat
    BY SizesAssumption DEF Adapters!Byte
  <1>2. Adapters!Number(s) = n
    BY DEF Adapters!Number, Low
  <1>3. n \in Nat /\ n < Adapters!Power(Len(s))
    BY <1>1, LowSteps, LowIsBounded
  <1>4. n % w = n
    <2>1. Len(s) \in Nat /\ Width - Len(s) \in Nat /\ Len(s) + (Width - Len(s)) = Width
      BY <1>1, SizesAssumption
    <2>2. PICK r \in Nat \ {0} : w = Adapters!Power(Len(s)) * r
      BY <2>1, PowerDivides
    <2> DEFINE p == Adapters!Power(Len(s))
    <2>3. p \in Nat /\ n < p /\ w = p * r
      BY <1>1, <1>3, <2>2, PowerType
    <2> HIDE DEF p, n, w
    <2>4. p <= p * r
      BY <2>3
    <2>5. w \in Nat /\ n < w
      BY <1>3, <2>3, <2>4
    <2> QED
      BY <1>3, <2>5
  <1>5. ASSUME NEW i \in 1 .. Len(s) PROVE (n \div Adapters!Power(i - 1)) % Base = s[i]
    <2>1. /\ i - 1 \in Nat /\ i - 1 \in 0 .. Len(s) /\ i - 1 < Len(s)
          /\ i \in 0 .. Len(s) /\ (i - 1) + 1 = i
      BY <1>1
    <2> DEFINE p == Adapters!Power(i - 1)
               a == Low(s, i - 1)
               b == s[i]
    <2>2. PICK q \in Nat : n = Low(s, i) + Adapters!Power(i) * q
      BY <1>1, <2>1, HighIsMultiple
    <2>3. a \in Nat /\ Low(s, i) = a + b * p /\ a < p
      <3>1. /\ Low(s, i - 1) \in Nat
            /\ Low(s, (i - 1) + 1) = Low(s, i - 1) + s[(i - 1) + 1] * Adapters!Power(i - 1)
        BY <1>1, <2>1, LowSteps
      <3>2. Low(s, i - 1) < Adapters!Power(i - 1)
        BY <2>1, LowIsBounded
      <3> QED
        BY <2>1, <3>1, <3>2
    <2>4. p \in Nat /\ Adapters!Power(i) = Base * p
      BY <2>1, PowerType, PowerSteps
    <2>5. b \in Adapters!Byte
      BY <2>1
    <2>6. n = (a + b * p) + (Base * p) * q
      BY <2>2, <2>3, <2>4
    <2> HIDE DEF p, a, b, n
    <2>7. b \in Nat /\ b < Base
      BY <2>5, SizesAssumption DEF Adapters!Byte
    <2>8. n = a + p * (b + Base * q) /\ b + Base * q \in Nat
      BY <2>3, <2>4, <2>6, <2>7, SizesAssumption
    <2>9. n \div p = b + Base * q
      BY <2>3, <2>4, <2>8, Division
    <2>10. (b + Base * q) % Base = b
      BY <2>7, SizesAssumption, Division
    <2> QED
      BY <2>9, <2>10 DEF p, b
  <1>6. Adapters!Unpacked(Adapters!Number(s), Len(s)) = [i \in 1 .. Len(s) |-> s[i]]
    <2> HIDE DEF n, w
    <2> QED
      BY <1>2, <1>4, <1>5 DEF Adapters!Unpacked, w
  <1> QED
    BY <1>6

\* Putting the arguments in order twice puts them in order.
LEMMA OrderedStays ==
    ASSUME NEW m, NEW args, m.inArgs \in Seq(STRING), args \in Seq(STRING \X Nat),
           Len(args) = Len(m.inArgs)
    PROVE  Adapters!InOrder(m, Adapters!OrderedArgs(m, args)) = Adapters!InOrder(m, args)
  <1> DEFINE names == m.inArgs
             ordered == Adapters!OrderedArgs(m, args)
  <1>1. DOMAIN ordered = DOMAIN names /\ DOMAIN args = DOMAIN names
    BY DEF Adapters!OrderedArgs
  <1>2. ASSUME NEW i \in DOMAIN names
        PROVE  Adapters!ValueOf(ordered, names[i]) = Adapters!ValueOf(args, names[i])
    <2>1. \A j \in DOMAIN names : ordered[j] = <<names[j], Adapters!ValueOf(args, names[j])>>
      BY <1>1 DEF Adapters!OrderedArgs
    <2>2. PICK j \in DOMAIN names :
              Adapters!ValueOf(ordered, names[i]) = ordered[j][2] /\ ordered[j][1] = names[i]
      <3> HIDE DEF ordered, names
      <3>1. \E j \in DOMAIN ordered : ordered[j][1] = names[i]
        BY <1>1, <2>1
      <3> QED
        BY <1>1, <3>1 DEF Adapters!ValueOf
    <2> HIDE DEF ordered, names
    <2> QED
      BY <2>1, <2>2
  <1> QED
    BY <1>2 DEF Adapters!InOrder

\* The library finds for a parameter the value the adapter would.
LEMMA NamedIsInOrder ==
    ASSUME NEW m, NEW args, \A i \in DOMAIN m.inArgs : Adapters!Has(args, m.inArgs[i])
    PROVE  Adapters!BuildNamedInParams(m, Adapters!ArgNames(args), Adapters!ArgValues(args))
             = Adapters!InOrder(m, args)
  <1> DEFINE names == Adapters!ArgNames(args)
             values == Adapters!ArgValues(args)
  <1>1. /\ DOMAIN names = DOMAIN args
        /\ \A k \in DOMAIN args : names[k] = args[k][1] /\ values[k] = args[k][2]
    BY DEF Adapters!ArgNames, Adapters!ArgValues
  <1>2. ASSUME NEW i \in DOMAIN m.inArgs
        PROVE  values[CHOOSE k \in DOMAIN names : names[k] = m.inArgs[i]]
                 = Adapters!ValueOf(args, m.inArgs[i])
    <2> DEFINE x == m.inArgs[i]
               found == CHOOSE k \in DOMAIN args : args[k][1] = x
    <2>1. (CHOOSE k \in DOMAIN args : names[k] = x) = found
      <3> HIDE DEF names, x
      <3> QED
        BY <1>1
    <2>2. found \in DOMAIN args
      BY DEF Adapters!Has
    <2>3. Adapters!ValueOf(args, x) = args[found][2]
      BY DEF Adapters!ValueOf
    <2> HIDE DEF names, values, found, x
    <2>4. values[CHOOSE k \in DOMAIN names : names[k] = x] = Adapters!ValueOf(args, x)
      BY <1>1, <2>1, <2>2, <2>3
    <2> QED
      BY <2>4 DEF x
  <1> QED
    BY <1>2 DEF Adapters!BuildNamedInParams, Adapters!InOrder

\* A request asks for methods and objects of the catalog; what is passed on is
\* what was asked, in an order that does not matter.
LEMMA RequestType ==
    ASSUME NEW r \in Adapters!Requests
    PROVE  /\ r.method \in Methods
           /\ r.method.inArgs \in Seq(STRING) /\ r.method.outArgs \in Seq({1, 2})
           /\ Adapters!InOrder(r.method, r.passed) = Adapters!InOrder(r.method, r.args)
  <1>1. PICK m \in Methods, a \in Objects : \E p \in Adapters!Passed(m, a) :
            r = [method |-> m, args |-> a, passed |-> p]
    BY DEF Adapters!Requests
  <1>2. PICK p \in Adapters!Passed(m, a) : r = [method |-> m, args |-> a, passed |-> p]
    BY <1>1
  <1>3. m.inArgs \in Seq(STRING) /\ m.outArgs \in Seq({1, 2}) /\ a \in Seq(STRING \X Nat)
    BY MethodsAssumption, ObjectsAssumption
  <1>4. CASE p = a
    BY <1>2, <1>3, <1>4
  <1>5. CASE p # a
    <2>1. Adapters!ValidateNativeCall(m, a) /\ p = Adapters!OrderedArgs(m, a)
      BY <1>5 DEF Adapters!Passed
    <2>2. Len(a) = Len(m.inArgs)
      BY <2>1 DEF Adapters!ValidateNativeCall
    <2>3. Adapters!InOrder(m, p) = Adapters!InOrder(m, a)
      BY <1>3, <2>1, <2>2, OrderedStays
    <2> QED
      BY <1>2, <1>3, <2>3
  <1> QED
    BY <1>4, <1>5

\* On Linux the bytes arrive by position.
LEMMA LinuxArrives ==
    ASSUME NEW r \in Adapters!LinuxRequests
    PROVE  Adapters!Unpacked(Adapters!ArgsToHexString(r.method, r.passed), Len(r.method.inArgs))
             = Adapters!InOrder(r.method, r.args)
  <1> DEFINE m == r.method
             bytes == Adapters!InOrder(m, r.passed)
  <1>1. /\ r \in Adapters!Requests
        /\ Adapters!ValidateNativeCall(m, r.passed) /\ Len(m.inArgs) <= Width
    BY DEF Adapters!LinuxRequests, Adapters!FitsTransport
  <1>2. m.inArgs \in Seq(STRING) /\ bytes = Adapters!InOrder(m, r.args)
    BY <1>1, RequestType
  <1>3. bytes \in [1 .. Len(m.inArgs) -> Adapters!Byte] /\ Len(m.inArgs) \in Nat
    BY <1>1, <1>2 DEF Adapters!InOrder, Adapters!ValidateNativeCall
  <1>4. bytes \in Seq(Adapters!Byte) /\ Len(bytes) = Len(m.inArgs)
    <2> HIDE DEF bytes
    <2> QED
      BY <1>3
  <1>5. Adapters!Unpacked(Adapters!Number(bytes), Len(bytes)) = bytes
    <2> HIDE DEF bytes
    <2> QED
      BY <1>1, <1>4, UnpackedIsPacked
  <1> QED
    BY <1>2, <1>4, <1>5 DEF Adapters!ArgsToHexString

\* On Windows they arrive by name.
LEMMA WindowsArrives ==
    ASSUME NEW r \in Adapters!WindowsRequests
    PROVE  Adapters!Arrived(r) = Adapters!InOrder(r.method, r.args)
  <1>1. r \in Adapters!Requests /\ Adapters!ValidateCall(r.method, r.passed)
    BY DEF Adapters!WindowsRequests
  <1>2. \A i \in DOMAIN r.method.inArgs : Adapters!Has(r.passed, r.method.inArgs[i])
    BY <1>1 DEF Adapters!ValidateCall
  <1>3. Adapters!Arrived(r) = Adapters!InOrder(r.method, r.passed)
    BY <1>2, NamedIsInOrder DEF Adapters!Arrived
  <1> QED
    BY <1>1, <1>3, RequestType

-----------------------------------------------------------------------------
(* Results *)

\* Bytes that follow others add their number at the next weight.
LEMMA LowOfSame ==
    ASSUME NEW s \in Seq(Nat), NEW t \in Seq(Nat)
    PROVE  Low(s \o t, Len(s)) = Low(s, Len(s))
  <1> DEFINE u == s \o t
             Terms(x) == [i \in DOMAIN x |-> x[i] * Adapters!Power(i - 1)]
  <1>1. u \in Seq(Nat) /\ Len(s) \in Nat /\ Len(s) <= Len(u)
    OBVIOUS
  <1>2. ASSUME NEW i \in 1 .. Len(s) PROVE Terms(u)[i] = Terms(s)[i]
    <2>1. i \in DOMAIN s /\ i \in DOMAIN u /\ u[i] = s[i]
      OBVIOUS
    <2> HIDE DEF u
    <2> QED
      BY <2>1
  <1> DEFINE f == Terms(u)
             g == Terms(s)
  <1> HIDE DEF f, g
  <1>3. \A i \in 1 .. Len(s) : f[i] = g[i]
    BY <1>2 DEF f, g
  <1>4. Adapters!Total(f, Len(s)) = Adapters!Total(g, Len(s))
    BY <1>1, <1>3, TotalOfSame
  <1> QED
    BY <1>4 DEF Low, f, g

LEMMA BytesAreNumbers ==
    ASSUME NEW s \in Seq(Adapters!Byte)
    PROVE  s \in Seq(Nat) /\ Len(s) \in Nat
  BY SizesAssumption DEF Adapters!Byte

\* A value of one or two bytes adds itself at the weight of its first byte.
LEMMA OneMoreValue ==
    ASSUME NEW s \in Seq(Adapters!Byte), NEW w \in {1, 2}, NEW v \in Nat, v < Adapters!Power(w)
    PROVE  /\ s \o Adapters!BytesOf(v, w) \in Seq(Adapters!Byte)
           /\ Len(s \o Adapters!BytesOf(v, w)) = Len(s) + w
           /\ Low(s \o Adapters!BytesOf(v, w), Len(s) + w)
                = Low(s, Len(s)) + v * Adapters!Power(Len(s))
  <1> DEFINE b == Adapters!BytesOf(v, w)
             u == s \o b
             p == Adapters!Power(Len(s))
             n == Low(s, Len(s))
  <1>1. s \in Seq(Nat) /\ Len(s) \in Nat /\ Base \in Nat \ {0} /\ Adapters!Byte \subseteq Nat
    BY SizesAssumption DEF Adapters!Byte
  <1>2. Adapters!Power(1) = Base /\ Adapters!Power(2) = Base * Base
    <2>1. Adapters!Power(0) = 1 /\ Adapters!Power(0 + 1) = Base * Adapters!Power(0)
      BY PowerSteps
    <2>2. Adapters!Power(1 + 1) = Base * Adapters!Power(1)
      BY PowerSteps
    <2>3. Base * 1 = Base /\ 0 + 1 = 1 /\ 1 + 1 = 2
      BY <1>1
    <2> QED
      BY <2>1, <2>2, <2>3
  <1>3. p \in Nat /\ Adapters!Power(Len(s) + 1) = Base * p
    BY <1>1, PowerType, PowerSteps
  <1>4. n \in Nat
    BY <1>1, LowSteps
  <1>5. CASE w = 1
    <2>1. b = <<v>> /\ v \in Adapters!Byte
      BY <1>1, <1>2, <1>5 DEF Adapters!BytesOf, Adapters!Byte
    <2> HIDE DEF b, p, n
    <2>2. u \in Seq(Adapters!Byte) /\ Len(u) = Len(s) + 1 /\ u[Len(s) + 1] = v
      BY <1>1, <2>1
    <2>3. b \in Seq(Nat)
      BY <2>1
    <2>4. Low(u, Len(s)) = n
      BY <1>1, <2>3, LowOfSame DEF n
    <2> HIDE DEF u
    <2>5. u \in Seq(Nat) /\ Len(s) \in 0 .. Len(u) /\ Len(s) < Len(u)
      BY <1>1, <2>2, BytesAreNumbers
    <2>6. Low(u, Len(s) + 1) = n + v * p
      BY <2>2, <2>4, <2>5, LowSteps DEF p
    <2> QED
      BY <1>5, <2>2, <2>6 DEF u, b, p, n
  <1>6. CASE w = 2
    <2> DEFINE l == v % Base
               h == v \div Base
    <2>1. b = <<l, h>>
      BY <1>6 DEF Adapters!BytesOf
    <2>2. l \in Adapters!Byte /\ h \in Nat /\ v = l + Base * h
      BY SplitByte
    <2> HIDE DEF l, h
    <2>3. l \in Nat
      BY <1>1, <2>2
    <2>4. h >= Base => Base * h >= Base * Base
      BY <1>1, <2>2
    <2>5. v < Base * Base
      BY <1>2, <1>6
    <2>6. h < Base
      BY <1>1, <2>2, <2>3, <2>4, <2>5
    <2>7. h \in Adapters!Byte
      BY <1>1, <2>2, <2>6 DEF Adapters!Byte
    <2> HIDE DEF b, p, n
    <2>8. /\ u \in Seq(Adapters!Byte) /\ Len(u) = Len(s) + 2
          /\ u[Len(s) + 1] = l /\ u[Len(s) + 2] = h
      BY <1>1, <2>1, <2>2, <2>7
    <2>9. b \in Seq(Nat)
      BY <2>1, <2>2, <2>3
    <2>10. Low(u, Len(s)) = n
      BY <1>1, <2>9, LowOfSame DEF n
    <2> HIDE DEF u
    <2>11. u \in Seq(Nat) /\ Len(s) \in 0 .. Len(u) /\ Len(s) < Len(u)
          /\ Len(s) + 1 \in 0 .. Len(u) /\ Len(s) + 1 < Len(u) /\ (Len(s) + 1) + 1 = Len(s) + 2
      BY <1>1, <2>8, BytesAreNumbers
    <2>12. Low(u, Len(s) + 1) = n + l * p
      BY <2>8, <2>10, <2>11, LowSteps DEF p
    <2>13. Low(u, (Len(s) + 1) + 1)
             = Low(u, Len(s) + 1) + u[(Len(s) + 1) + 1] * Adapters!Power(Len(s) + 1)
      BY <2>11, LowSteps
    <2>14. Low(u, Len(s) + 2) = (n + l * p) + h * (Base * p)
      BY <1>3, <2>8, <2>11, <2>12, <2>13
    <2>15. (n + l * p) + h * (Base * p) = n + (l + Base * h) * p
      BY <1>1, <1>3, <1>4, <2>2, <2>3
    <2> QED
      BY <1>6, <2>2, <2>8, <2>14, <2>15 DEF u, b, p, n
  <1> QED
    BY <1>5, <1>6

\* The recursion of FlattenSeq() has a solution.
LEMMA FlattenExists ==
    ASSUME NEW seqs, NEW n \in Nat \ {0}
    PROVE  \E f : f = [i \in 1 .. n |-> IF i = 1 THEN seqs[i] ELSE f[i - 1] \o seqs[i]]
  <1> DEFINE Def(m) == \E f : f = [i \in 1 .. m |-> IF i = 1 THEN seqs[i] ELSE f[i - 1] \o seqs[i]]
             S == {m \in Nat : Def(m + 1)}
  <1>1. 0 \in S
    <2> DEFINE f == [i \in 1 .. 0 + 1 |-> seqs[i]]
    <2>1. f = [i \in 1 .. 0 + 1 |-> IF i = 1 THEN seqs[i] ELSE f[i - 1] \o seqs[i]]
      OBVIOUS
    <2> QED
      BY <2>1
  <1>2. ASSUME NEW m \in 0 .. (n - 1) - 1, m \in S PROVE m + 1 \in S
    <2> DEFINE k == m + 1
    <2>1. k \in Nat \ {0}
      OBVIOUS
    <2>2. Def(k)
      <3> HIDE DEF Def
      <3> QED
        BY <1>2
    <2>3. k \in Nat \ {0} /\ Def(k)
      BY <2>1, <2>2
    <2> HIDE DEF k
    <2>4. PICK f : f = [i \in 1 .. k |-> IF i = 1 THEN seqs[i] ELSE f[i - 1] \o seqs[i]]
      BY <2>3
    <2> DEFINE g == [i \in 1 .. k + 1 |-> IF i = k + 1 THEN f[k] \o seqs[k + 1] ELSE f[i]]
    <2>5. ASSUME NEW i \in 1 .. k + 1 PROVE g[i] = IF i = 1 THEN seqs[i] ELSE g[i - 1] \o seqs[i]
      <3>1. CASE i = k + 1
        <4>1. i # 1 /\ i - 1 = k /\ k \in 1 .. k + 1 /\ k # k + 1
          BY <2>3, <3>1
        <4> QED
          BY <3>1, <4>1
      <3>2. CASE i \in 2 .. k
        <4>1. i # 1 /\ i \in 1 .. k /\ i # k + 1 /\ i - 1 \in 1 .. k + 1 /\ i - 1 # k + 1
          BY <2>3, <3>2
        <4>2. f[i] = f[i - 1] \o seqs[i]
          BY <2>4, <4>1
        <4> QED
          BY <4>1, <4>2
      <3>3. CASE i = 1
        <4>1. 1 \in 1 .. k /\ 1 # k + 1
          BY <2>3
        <4> QED
          BY <2>4, <3>3, <4>1
      <3> QED
        BY <2>3, <3>1, <3>2, <3>3
    <2>6. g = [i \in 1 .. k + 1 |-> IF i = 1 THEN seqs[i] ELSE g[i - 1] \o seqs[i]]
      BY <2>5
    <2>7. Def(k + 1)
      BY <2>6
    <2>8. m + 1 \in Nat /\ (m + 1) + 1 = k + 1
      BY DEF k
    <2> QED
      BY <2>7, <2>8
  <1>3. n - 1 \in S /\ (n - 1) + 1 = n
    <2> HIDE DEF S
    <2>1. n - 1 \in Nat
      OBVIOUS
    <2>2. 0 .. n - 1 \subseteq S
      BY <1>1, <1>2, <2>1, UpTo
    <2> QED
      BY <2>1, <2>2
  <1>4. Def(n)
    <2> HIDE DEF Def
    <2> QED
      BY <1>3
  <1> QED
    BY <1>4

\* FlattenSeq() goes through its sequences one by one.
LEMMA FlattenSteps ==
    ASSUME NEW seqs, Len(seqs) \in Nat \ {0}
    PROVE  \E f : /\ f[1] = seqs[1]
                  /\ \A i \in 1 .. Len(seqs) - 1 : f[i + 1] = f[i] \o seqs[i + 1]
                  /\ Adapters!FlattenSeq(seqs) = f[Len(seqs)]
  <1> DEFINE f == CHOOSE flatten :
                     flatten = [i \in 1 .. Len(seqs) |->
                                   IF i = 1 THEN seqs[i] ELSE flatten[i - 1] \o seqs[i]]
  <1>1. f = [i \in 1 .. Len(seqs) |-> IF i = 1 THEN seqs[i] ELSE f[i - 1] \o seqs[i]]
    BY FlattenExists
  <1>2. Adapters!FlattenSeq(seqs) = f[Len(seqs)]
    BY DEF Adapters!FlattenSeq
  <1> HIDE DEF f
  <1>3. f[1] = seqs[1]
    BY <1>1
  <1>4. ASSUME NEW i \in 1 .. Len(seqs) - 1 PROVE f[i + 1] = f[i] \o seqs[i + 1]
    <2>1. i + 1 \in 1 .. Len(seqs) /\ i + 1 # 1 /\ (i + 1) - 1 = i
      OBVIOUS
    <2> QED
      BY <1>1, <2>1
  <1> QED
    BY <1>2, <1>3, <1>4

\* The bytes of the results are as many as declared, and make the number the
\* results mean.
LEMMA BytesAreMeant ==
    ASSUME NEW m, m.outArgs \in Seq({1, 2}), NEW values \in Adapters!Outputs(m)
    PROVE  /\ Adapters!Bytes(m, values) \in Seq(Adapters!Byte)
           /\ Len(Adapters!Bytes(m, values)) = Adapters!OutputBytes(m)
           /\ Adapters!Number(Adapters!Bytes(m, values)) = Adapters!Meant(m, values)
  <1> DEFINE widths == m.outArgs
             n == Len(widths)
             terms == [i \in DOMAIN values |->
                          values[i] * Adapters!Power(Adapters!Total(widths, i - 1))]
             parts == [i \in DOMAIN values |-> Adapters!BytesOf(values[i], widths[i])]
  <1>1. n \in Nat /\ DOMAIN widths = 1 .. n /\ DOMAIN values = 1 .. n
    BY DEF Adapters!Outputs
  <1>2. Len(values) = n /\ Len(parts) = n
    <2> DEFINE V == 0 .. Adapters!Power(2) - 1
               P == {Adapters!BytesOf(values[i], widths[i]) : i \in 1 .. n}
    <2>1. values \in [1 .. n -> V] /\ parts \in [1 .. n -> P]
      BY <1>1 DEF Adapters!Outputs
    <2> HIDE DEF n, parts, V, P
    <2> QED
      BY <1>1, <2>1
  <1>3. ASSUME NEW i \in 1 .. n
        PROVE  /\ widths[i] \in {1, 2} /\ values[i] \in Nat /\ values[i] < Adapters!Power(widths[i])
               /\ parts[i] = Adapters!BytesOf(values[i], widths[i])
               /\ terms[i] = values[i] * Adapters!Power(Adapters!Total(widths, i - 1))
    <2>1. widths[i] \in {1, 2}
      BY <1>1
    <2>2. values[i] \in 0 .. Adapters!Power(2) - 1 /\ values[i] < Adapters!Power(widths[i])
      BY <1>1 DEF Adapters!Outputs
    <2> QED
      BY <1>1, <2>1, <2>2
  <1>4. /\ Adapters!Bytes(m, values) = Adapters!FlattenSeq(parts)
        /\ Adapters!OutputBytes(m) = Adapters!Total(widths, n)
        /\ Adapters!Meant(m, values) = Adapters!Total(terms, n)
    BY <1>2 DEF Adapters!Bytes, Adapters!OutputBytes, Adapters!Meant
  <1> HIDE DEF terms, parts, widths, n
  <1>5. CASE n = 0
    <2>1. Adapters!FlattenSeq(parts) = <<>>
      BY <1>2, <1>5 DEF Adapters!FlattenSeq
    <2>2. Adapters!Total(terms, 0) = 0 /\ Adapters!Total(widths, 0) = 0
      BY TotalSteps
    <2>3. Adapters!Number(<<>>) = 0
      BY TotalSteps DEF Adapters!Number
    <2> QED
      BY <1>4, <1>5, <2>1, <2>2, <2>3
  <1>6. CASE n # 0
    <2>1. PICK f : /\ f[1] = parts[1]
                   /\ \A i \in 1 .. n - 1 : f[i + 1] = f[i] \o parts[i + 1]
                   /\ Adapters!FlattenSeq(parts) = f[n]
      BY <1>1, <1>2, <1>6, FlattenSteps
    <2> DEFINE Good(i) == /\ f[i] \in Seq(Adapters!Byte)
                          /\ Len(f[i]) = Adapters!Total(widths, i)
                          /\ Low(f[i], Len(f[i])) = Adapters!Total(terms, i)
               S == {i \in Nat : Good(i + 1)}
    <2>2. ASSUME NEW s \in Seq(Adapters!Byte), NEW i \in 0 .. n - 1,
                 Len(s) = Adapters!Total(widths, i), Low(s, Len(s)) = Adapters!Total(terms, i),
                 f[i + 1] = s \o parts[i + 1]
          PROVE  Good(i + 1)
      <3>1. i + 1 \in 1 .. n /\ (i + 1) - 1 = i /\ i \in Nat
        BY <1>1
      <3> DEFINE w == widths[i + 1]
                 v == values[i + 1]
      <3>2. w \in {1, 2} /\ v \in Nat /\ v < Adapters!Power(w) /\ parts[i + 1] = Adapters!BytesOf(v, w)
        BY <1>3, <3>1
      <3>3. terms[i + 1] = v * Adapters!Power(Len(s))
        BY <1>3, <2>2, <3>1
      <3> HIDE DEF w, v
      <3>4. /\ f[i + 1] \in Seq(Adapters!Byte) /\ Len(f[i + 1]) = Len(s) + w
            /\ Low(f[i + 1], Len(s) + w) = Low(s, Len(s)) + v * Adapters!Power(Len(s))
        BY <2>2, <3>2, OneMoreValue
      <3>5. /\ Adapters!Total(widths, i + 1) = Adapters!Total(widths, i) + w
            /\ Adapters!Total(terms, i + 1) = Adapters!Total(terms, i) + terms[i + 1]
        BY <3>1, TotalSteps DEF w
      <3> QED
        BY <2>2, <3>3, <3>4, <3>5
    <2>3. 0 \in S
      <3>1. <<>> \in Seq(Adapters!Byte) /\ Len(<<>>) = 0 /\ 0 \in 0 .. n - 1
        BY <1>1, <1>6
      <3>2. Adapters!Total(widths, 0) = 0 /\ Adapters!Total(terms, 0) = 0 /\ Low(<<>>, 0) = 0
        BY TotalSteps DEF Low
      <3>3. parts[1] \in Seq(Adapters!Byte)
        <4>1. 1 \in 1 .. n
          BY <1>1, <1>6
        <4>2. <<>> \o Adapters!BytesOf(values[1], widths[1]) \in Seq(Adapters!Byte)
          BY <1>3, <4>1, <3>1, OneMoreValue
        <4>3. Adapters!BytesOf(values[1], widths[1]) = <<>> \o Adapters!BytesOf(values[1], widths[1])
          BY DEF Adapters!BytesOf
        <4> QED
          BY <1>3, <4>1, <4>2, <4>3
      <3>4. f[0 + 1] = <<>> \o parts[0 + 1]
        BY <2>1, <3>3
      <3>5. Good(0 + 1)
        <4> HIDE DEF Good
        <4> QED
          BY <2>2, <3>1, <3>2, <3>4
      <3> QED
        BY <3>5
    <2>4. ASSUME NEW i \in 0 .. (n - 1) - 1, i \in S PROVE i + 1 \in S
      <3>1. i + 1 \in 1 .. n - 1 /\ i + 1 \in 0 .. n - 1 /\ i + 1 \in Nat
        BY <1>1, <1>6
      <3>2. Good(i + 1)
        BY <2>4
      <3>3. f[(i + 1) + 1] = f[i + 1] \o parts[(i + 1) + 1]
        BY <2>1, <3>1
      <3>4. Good((i + 1) + 1)
        BY <2>2, <3>1, <3>2, <3>3
      <3> QED
        BY <3>1, <3>4
    <2>5. Good(n)
      <3>1. n - 1 \in Nat /\ (n - 1) + 1 = n
        BY <1>1, <1>6
      <3> HIDE DEF S
      <3>2. 0 .. n - 1 \subseteq S
        BY <2>3, <2>4, <3>1, UpTo
      <3>3. Good((n - 1) + 1)
        BY <3>1, <3>2 DEF S
      <3> QED
        BY <3>1, <3>3
    <2>6. Adapters!Number(f[n]) = Low(f[n], Len(f[n]))
      BY DEF Adapters!Number, Low
    <2> QED
      BY <1>4, <2>1, <2>5, <2>6
  <1> QED
    BY <1>5, <1>6

\* So an answer of bytes is less than the weight of the next byte.
LEMMA NumberIsBounded ==
    ASSUME NEW s \in Seq(Adapters!Byte)
    PROVE  Adapters!Number(s) < Adapters!Power(Len(s))
  <1>1. Adapters!Number(s) = Low(s, Len(s)) /\ Len(s) \in 0 .. Len(s)
    BY BytesAreNumbers DEF Adapters!Number, Low
  <1> QED
    BY <1>1, LowIsBounded

\* A strictly increasing map of 1 .. n into itself is the identity.
LEMMA IncreasingIsIdentity ==
    ASSUME NEW n \in Nat, NEW h, \A i \in 1 .. n : h[i] \in 1 .. n,
           \A i, j \in 1 .. n : i < j => h[i] < h[j]
    PROVE  \A i \in 1 .. n : h[i] = i
  <1> DEFINE Up == {i \in Nat : i = 0 \/ h[i] >= i}
             Down == {i \in Nat : i = n \/ h[n - i] <= n - i}
  <1>1. 0 .. n \subseteq Up
    <2>1. ASSUME NEW i \in 0 .. n - 1, i \in Up PROVE i + 1 \in Up
      <3>1. i + 1 \in 1 .. n /\ h[i + 1] \in 1 .. n
        OBVIOUS
      <3>2. CASE i = 0
        BY <3>1, <3>2
      <3>3. CASE i # 0
        <4>1. i \in 1 .. n /\ h[i] \in 1 .. n /\ h[i] >= i /\ h[i] < h[i + 1]
          BY <2>1, <3>1, <3>3
        <4> QED
          BY <3>1, <4>1
      <3> QED
        BY <3>2, <3>3
    <2> HIDE DEF Up
    <2>2. 0 \in Up
      BY DEF Up
    <2> QED
      BY <2>1, <2>2, UpTo
  <1>2. 0 .. n \subseteq Down
    <2>1. ASSUME NEW i \in 0 .. n - 1, i \in Down PROVE i + 1 \in Down
      <3>1. CASE i + 1 = n
        BY <3>1
      <3>2. CASE i + 1 # n
        <4> DEFINE j == n - i
        <4>1. j \in 1 .. n /\ j - 1 \in 1 .. n /\ j - 1 < j /\ h[j] <= j /\ j - 1 = n - (i + 1)
          BY <2>1, <3>2
        <4> HIDE DEF j
        <4>2. h[j - 1] \in 1 .. n /\ h[j] \in 1 .. n /\ h[j - 1] < h[j]
          BY <4>1
        <4>3. h[j - 1] <= j - 1
          BY <4>1, <4>2
        <4> QED
          BY <4>1, <4>3
      <3> QED
        BY <3>1, <3>2
    <2>2. 0 \in Down
      <3>1. CASE n = 0
        BY <3>1
      <3>2. CASE n # 0
        <4>1. n \in 1 .. n /\ n - 0 = n
          BY <3>2
        <4>2. h[n] \in 1 .. n
          BY <4>1
        <4> QED
          BY <4>1, <4>2
      <3> QED
        BY <3>1, <3>2
    <2> HIDE DEF Down
    <2> QED
      BY <2>1, <2>2, UpTo
  <1>3. ASSUME NEW i \in 1 .. n PROVE h[i] = i
    <2>1. i \in Up /\ n - i \in Down /\ n - (n - i) = i /\ i # 0 /\ n - i # n
      BY <1>1, <1>2
    <2> QED
      BY <2>1
  <1> QED
    BY <1>3

\* The orders in which a sequence of n fields can be listed, each with its
\* inverse.
LEMMA OrdersInvert ==
    ASSUME NEW n \in Nat, NEW p \in Adapters!SetToSeqs(1 .. n)
    PROVE  /\ p \in [1 .. n -> 1 .. n]
           /\ \E q \in Adapters!SetToSeqs(1 .. n) : \A i \in 1 .. n : p[q[i]] = i
  <1>1. Cardinality(1 .. n) = n /\ IsFiniteSet(1 .. n)
    BY FS_Interval
  <1>2. Adapters!Cardinality(1 .. n) = Cardinality(1 .. n)
    BY DEF Adapters!Cardinality, Cardinality
  <1>3. \A f : f \in Adapters!SetToSeqs(1 .. n) <=>
            f \in [1 .. n -> 1 .. n] /\ \A i, j \in 1 .. n : i # j => f[i] # f[j]
    BY <1>1, <1>2 DEF Adapters!SetToSeqs
  <1>4. p \in [1 .. n -> 1 .. n] /\ \A i, j \in 1 .. n : i # j => p[i] # p[j]
    BY <1>3
  <1>5. p \in Injection(1 .. n, 1 .. n)
    BY <1>4 DEF Injection, IsInjective
  <1>6. p \in Surjection(1 .. n, 1 .. n)
    BY <1>1, <1>5, FS_Injection
  <1>7. \A i \in 1 .. n : \E k \in 1 .. n : p[k] = i
    BY <1>6 DEF Surjection
  <1> DEFINE q == [i \in 1 .. n |-> CHOOSE k \in 1 .. n : p[k] = i]
  <1>8. \A i \in 1 .. n : q[i] \in 1 .. n /\ p[q[i]] = i
    BY <1>7
  <1>9. q \in [1 .. n -> 1 .. n]
    BY <1>8
  <1> HIDE DEF q
  <1>10. q \in Adapters!SetToSeqs(1 .. n)
    BY <1>3, <1>8, <1>9
  <1> QED
    BY <1>4, <1>8, <1>10

\* Whatever order WMI lists the fields in, they are packed in their own.
LEMMA PackedIsBytes ==
    ASSUME NEW m, m.outArgs \in Seq({1, 2}), NEW values \in Adapters!Outputs(m),
           NEW fields \in Adapters!Fields(m, values)
    PROVE  Adapters!PackWmiOutputFields(fields) = Adapters!Bytes(m, values)
  <1> DEFINE n == Len(m.outArgs)
             widths == m.outArgs
  <1>1. n \in Nat /\ DOMAIN values = 1 .. n
    BY DEF Adapters!Outputs
  <1>2. PICK p \in Adapters!SetToSeqs(1 .. n) :
            fields = [k \in 1 .. n |->
                         [order |-> p[k], value |-> values[p[k]], width |-> widths[p[k]]]]
    BY <1>1 DEF Adapters!Fields
  <1> HIDE DEF n, widths
  <1>3. /\ p \in [1 .. n -> 1 .. n]
        /\ \E q \in Adapters!SetToSeqs(1 .. n) : \A i \in 1 .. n : p[q[i]] = i
    BY <1>1, <1>2, OrdersInvert
  <1>4. DOMAIN fields = 1 .. n /\ \A k \in 1 .. n :
            fields[k].order = p[k] /\ fields[k].value = values[p[k]] /\ fields[k].width = widths[p[k]]
    BY <1>2
  <1> DEFINE Orders(q) == \A i, j \in 1 .. n : i < j => fields[q[i]].order < fields[q[j]].order
             place == CHOOSE q \in Adapters!SetToSeqs(1 .. n) : Orders(q)
  <1>5. place \in Adapters!SetToSeqs(1 .. n) /\ Orders(place)
    <2>1. PICK q \in Adapters!SetToSeqs(1 .. n) : \A i \in 1 .. n : p[q[i]] = i
      BY <1>3
    <2>2. q \in [1 .. n -> 1 .. n]
      BY <1>1, OrdersInvert
    <2>3. Orders(q)
      BY <1>4, <2>1, <2>2
    <2> HIDE DEF Orders
    <2> QED
      BY <2>3
  <1>6. \A k \in 1 .. n : Adapters!Sorted(fields)[k] = fields[place[k]]
    BY <1>4 DEF Adapters!Sorted
  <1> HIDE DEF place
  <1>7. place \in [1 .. n -> 1 .. n]
    BY <1>1, <1>5, OrdersInvert
  <1> DEFINE h == [i \in 1 .. n |-> p[place[i]]]
  <1>8. \A i \in 1 .. n : h[i] = i
    <2>1. \A i \in 1 .. n : h[i] \in 1 .. n
      BY <1>3, <1>7
    <2>2. \A i, j \in 1 .. n : i < j => h[i] < h[j]
      BY <1>4, <1>5, <1>7
    <2> HIDE DEF h
    <2> QED
      BY <1>1, <2>1, <2>2, IncreasingIsIdentity
  <1>9. \A k \in 1 .. n : /\ Adapters!Sorted(fields)[k].value = values[k]
                          /\ Adapters!Sorted(fields)[k].width = widths[k]
    <2>1. \A k \in 1 .. n : p[place[k]] = k
      BY <1>8
    <2> HIDE DEF h
    <2> QED
      BY <1>4, <1>6, <1>7, <2>1
  <1>10. [k \in DOMAIN fields |->
             Adapters!BytesOf(Adapters!Sorted(fields)[k].value, Adapters!Sorted(fields)[k].width)]
            = [i \in DOMAIN values |-> Adapters!BytesOf(values[i], widths[i])]
    BY <1>1, <1>4, <1>9
  <1> QED
    BY <1>10 DEF Adapters!PackWmiOutputFields, Adapters!Bytes, widths

\* What the library wrote is decoded if it has the declared length, else refused.
LEMMA WrittenDecodes ==
    ASSUME NEW b \in Seq(Adapters!Byte), NEW k \in Nat
    PROVE  Adapters!Decoded(Adapters!Written(b), k) =
               IF Len(b) \in 1 .. BufferSize /\ Len(b) = k THEN Adapters!Number(b) ELSE Refused
  <1> DEFINE left == Adapters!Written(b)
  <1>1. left.count = Len(b) /\ Len(b) \in Nat
    BY DEF Adapters!Written
  <1>2. CASE Len(b) \in 1 .. BufferSize
    <2>1. \A i \in 1 .. Len(b) : left.cells[i] = b[i]
      BY <1>2, SizesAssumption DEF Adapters!Written
    <2>2. SubSeq(left.cells, 1, Len(b)) = b
      <3>1. SubSeq(left.cells, 1, Len(b)) = [i \in 1 .. Len(b) |-> left.cells[i]]
        OBVIOUS
      <3> QED
        BY <2>1, <3>1
    <2>3. \A i \in 1 .. Len(b) : left.cells[i] \in Adapters!Byte
      <3>1. \A i \in 1 .. Len(b) : b[i] \in Adapters!Byte
        OBVIOUS
      <3> QED
        BY <2>1, <3>1
    <2> HIDE DEF left
    <2> QED
      BY <1>1, <1>2, <2>2, <2>3 DEF Adapters!Decoded, left
  <1>3. CASE Len(b) \notin 1 .. BufferSize
    <2> HIDE DEF left
    <2> QED
      BY <1>1, <1>3 DEF Adapters!Decoded, left
  <1> QED
    BY <1>2, <1>3

-----------------------------------------------------------------------------
(* Calls *)

\* The declared length is a natural number.
LEMMA OutputBytesType ==
    ASSUME NEW m, m.outArgs \in Seq({1, 2})
    PROVE  Adapters!OutputBytes(m) \in Nat
  <1>1. Len(m.outArgs) \in Nat /\ \A i \in 1 .. Len(m.outArgs) : m.outArgs[i] \in Nat
    OBVIOUS
  <1> QED
    BY <1>1, TotalType DEF Adapters!OutputBytes

\* When an answer is what the call returned, of the declared length.
Exact(m, outcome, answer) ==
    answer \notin {NaN, Refused} =>
        answer = outcome /\ (answer = Done \/ answer < Adapters!Power(Adapters!OutputBytes(m)))

\* A call whose arguments arrived and whose answer is exact is faithful.
LEMMA FaithfulCall ==
    ASSUME NEW r, NEW arrived, NEW outcome, NEW answer,
           Adapters!Calls(r, arrived, outcome, answer),
           arrived = Adapters!InOrder(r.method, r.args), Exact(r.method, outcome, answer)
    PROVE  CallsAreFaithful'
  BY DEF Adapters!Calls, Exact, CallsAreFaithful, Adapters!CallsAreFaithful,
         Adapters!ArgumentsArrive, Adapters!AnswersAreExact

LEMMA BoundedSeqType ==
    ASSUME NEW S, NEW n, NEW s \in Adapters!BoundedSeq(S, n)
    PROVE  s \in Seq(S) /\ Len(s) \in 0 .. n
  <1>1. PICK k \in 0 .. n : s \in [1 .. k -> S]
    BY DEF Adapters!BoundedSeq, Adapters!SeqOf
  <1>2. k \in Nat
    OBVIOUS
  <1> QED
    BY <1>1, <1>2

\* Bytes of the declared length, and only those, are an answer on Linux.
LEMMA ParsedIsExact ==
    ASSUME NEW m, NEW b \in Seq(Adapters!Byte), NEW outcome,
           Len(b) = Adapters!OutputBytes(m) => outcome = Adapters!Number(b)
    PROVE  Exact(m, outcome, Adapters!ParseBuffer(b, Adapters!OutputBytes(m)))
  BY NumberIsBounded DEF Exact, Adapters!ParseBuffer

\* The calls: every response of acpi_call, every outcome of the Windows library.
LEMMA LinuxCallIsFaithful ==
    ASSUME Adapters!LinuxCall
    PROVE  CallsAreFaithful'
  <1>1. PICK r \in Adapters!LinuxRequests :
            LET bytes == Adapters!OutputBytes(r.method)
                arrived == Adapters!Unpacked(Adapters!ArgsToHexString(r.method, r.passed),
                                             Len(r.method.inArgs))
            IN
            \/ \E values \in Adapters!Outputs(r.method) :
                  Adapters!Calls(r, arrived, Adapters!Meant(r.method, values),
                                 Adapters!ParseBuffer(Adapters!Bytes(r.method, values), bytes))
            \/ \E n \in 0 .. Adapters!Power(BufferSize) - 1 :
                  Adapters!Calls(r, arrived, n, Adapters!ParseInteger(n, bytes))
            \/ \E buffer \in Adapters!BoundedSeq(Adapters!Byte, BufferSize) :
                  /\ Len(buffer) # bytes
                  /\ Adapters!Calls(r, arrived, Nothing, Adapters!ParseBuffer(buffer, bytes))
            \/ Adapters!Calls(r, arrived, Nothing, NaN)
            \/ \E response \in {Done, Nothing} :
                  Adapters!Calls(r, arrived, response, Adapters!SetAnswer(response))
    BY DEF Adapters!LinuxCall
  <1> DEFINE m == r.method
             bytes == Adapters!OutputBytes(m)
             arrived == Adapters!Unpacked(Adapters!ArgsToHexString(m, r.passed), Len(m.inArgs))
  <1>2. r \in Adapters!Requests /\ m.outArgs \in Seq({1, 2})
    BY RequestType DEF Adapters!LinuxRequests
  <1>3. arrived = Adapters!InOrder(m, r.args)
    BY LinuxArrives
  <1> HIDE DEF arrived, bytes, m
  <1>4. ASSUME NEW values \in Adapters!Outputs(m),
               Adapters!Calls(r, arrived, Adapters!Meant(m, values),
                              Adapters!ParseBuffer(Adapters!Bytes(m, values), bytes))
        PROVE  CallsAreFaithful'
    <2>1. Exact(m, Adapters!Meant(m, values), Adapters!ParseBuffer(Adapters!Bytes(m, values), bytes))
      BY <1>2, BytesAreMeant, ParsedIsExact DEF bytes
    <2> QED
      BY <1>3, <1>4, <2>1, FaithfulCall DEF m
  <1>5. ASSUME NEW n, Adapters!Calls(r, arrived, n, Adapters!ParseInteger(n, bytes))
        PROVE  CallsAreFaithful'
    <2>1. Exact(m, n, Adapters!ParseInteger(n, bytes))
      BY DEF Exact, Adapters!ParseInteger, bytes
    <2> QED
      BY <1>3, <1>5, <2>1, FaithfulCall DEF m
  <1>6. ASSUME NEW buffer \in Adapters!BoundedSeq(Adapters!Byte, BufferSize), Len(buffer) # bytes,
               Adapters!Calls(r, arrived, Nothing, Adapters!ParseBuffer(buffer, bytes))
        PROVE  CallsAreFaithful'
    <2>1. Exact(m, Nothing, Adapters!ParseBuffer(buffer, bytes))
      BY <1>6 DEF Exact, Adapters!ParseBuffer
    <2> QED
      BY <1>3, <1>6, <2>1, FaithfulCall DEF m
  <1>7. ASSUME Adapters!Calls(r, arrived, Nothing, NaN) PROVE CallsAreFaithful'
    <2>1. Exact(m, Nothing, NaN)
      BY DEF Exact
    <2> QED
      BY <1>3, <1>7, <2>1, FaithfulCall DEF m
  <1>8. ASSUME NEW response \in {Done, Nothing},
               Adapters!Calls(r, arrived, response, Adapters!SetAnswer(response))
        PROVE  CallsAreFaithful'
    <2>1. Exact(m, response, Adapters!SetAnswer(response))
      BY DEF Exact, Adapters!SetAnswer
    <2> QED
      BY <1>3, <1>8, <2>1, FaithfulCall DEF m
  <1> QED
    BY <1>1, <1>4, <1>5, <1>6, <1>7, <1>8 DEF m, bytes, arrived

LEMMA WmiGetIsFaithful ==
    ASSUME Adapters!WmiGet
    PROVE  CallsAreFaithful'
  <1>1. PICK r \in Adapters!WindowsRequests :
            LET bytes == Adapters!OutputBytes(r.method) IN
            \/ \E values \in Adapters!Outputs(r.method) : \E fields \in Adapters!Fields(r.method, values) :
                  /\ results' = Adapters!Written(Adapters!PackWmiOutputFields(fields))
                  /\ Adapters!Calls(r, Adapters!Arrived(r), Adapters!Meant(r.method, values),
                                    Adapters!Decoded(results', bytes))
            \/ /\ results' \in {Adapters!EmptyResults} \cup
                     {Adapters!Written(some) : some \in Adapters!BoundedSeq(Adapters!Byte, bytes - 1)}
               /\ Adapters!Calls(r, Adapters!Arrived(r), Nothing, Adapters!Decoded(results', bytes))
            \/ Adapters!Calls(r, Adapters!Arrived(r), Nothing, Refused)
    BY DEF Adapters!WmiGet
  <1> DEFINE m == r.method
             bytes == Adapters!OutputBytes(m)
             answer == Adapters!Decoded(results', bytes)
  <1>2. r \in Adapters!Requests /\ m.outArgs \in Seq({1, 2}) /\ bytes \in Nat
    BY RequestType, OutputBytesType DEF Adapters!WindowsRequests
  <1>3. Adapters!Arrived(r) = Adapters!InOrder(m, r.args)
    BY WindowsArrives
  <1> HIDE DEF bytes, m
  <1>4. ASSUME NEW values \in Adapters!Outputs(m), NEW fields \in Adapters!Fields(m, values),
               results' = Adapters!Written(Adapters!PackWmiOutputFields(fields)),
               Adapters!Calls(r, Adapters!Arrived(r), Adapters!Meant(m, values), answer)
        PROVE  CallsAreFaithful'
    <2> DEFINE b == Adapters!Bytes(m, values)
    <2>1. b \in Seq(Adapters!Byte) /\ Len(b) = bytes /\ Adapters!Number(b) = Adapters!Meant(m, values)
      BY <1>2, BytesAreMeant DEF bytes
    <2>2. results' = Adapters!Written(b)
      BY <1>2, <1>4, PackedIsBytes
    <2> HIDE DEF b
    <2>3. answer \in {Refused, Adapters!Number(b)}
      BY <1>2, <2>1, <2>2, WrittenDecodes
    <2>4. Exact(m, Adapters!Meant(m, values), answer)
      BY <2>1, <2>3, NumberIsBounded DEF Exact, bytes
    <2> QED
      BY <1>3, <1>4, <2>4, FaithfulCall DEF m
  <1>5. ASSUME results' \in {Adapters!EmptyResults} \cup
                   {Adapters!Written(some) : some \in Adapters!BoundedSeq(Adapters!Byte, bytes - 1)},
               Adapters!Calls(r, Adapters!Arrived(r), Nothing, answer)
        PROVE  CallsAreFaithful'
    <2>1. ASSUME results' = Adapters!EmptyResults PROVE answer = Refused
      <3>1. results'.count = 0
        BY <2>1 DEF Adapters!EmptyResults
      <3> QED
        BY <3>1, SizesAssumption DEF Adapters!Decoded
    <2>2. ASSUME NEW some \in Adapters!BoundedSeq(Adapters!Byte, bytes - 1),
                 results' = Adapters!Written(some)
          PROVE  answer = Refused
      <3>1. some \in Seq(Adapters!Byte) /\ Len(some) \in 0 .. bytes - 1
        BY BoundedSeqType
      <3>2. Len(some) # bytes
        BY <1>2, <3>1
      <3> QED
        BY <1>2, <2>2, <3>1, <3>2, WrittenDecodes
    <2>3. answer = Refused
      BY <1>5, <2>1, <2>2
    <2>4. Exact(m, Nothing, answer)
      BY <2>3 DEF Exact
    <2> QED
      BY <1>3, <1>5, <2>4, FaithfulCall DEF m
  <1>6. ASSUME Adapters!Calls(r, Adapters!Arrived(r), Nothing, Refused) PROVE CallsAreFaithful'
    <2>1. Exact(m, Nothing, Refused)
      BY DEF Exact
    <2> QED
      BY <1>3, <1>6, <2>1, FaithfulCall DEF m
  <1> QED
    BY <1>1, <1>4, <1>5, <1>6 DEF m, bytes

LEMMA WmiSetIsFaithful ==
    ASSUME Adapters!WmiSet
    PROVE  CallsAreFaithful'
  <1>1. PICK r \in Adapters!WindowsRequests :
            \/ Adapters!Calls(r, Adapters!Arrived(r), Done, Done)
            \/ Adapters!Calls(r, Adapters!Arrived(r), Nothing, Refused)
    BY DEF Adapters!WmiSet
  <1>2. Adapters!Arrived(r) = Adapters!InOrder(r.method, r.args)
    BY WindowsArrives
  <1>3. Exact(r.method, Done, Done) /\ Exact(r.method, Nothing, Refused)
    BY DEF Exact
  <1> QED
    BY <1>1, <1>2, <1>3, FaithfulCall

\* A call comes in with the arguments it was asked for, whatever their order,
\* and what is answered is what this call returned, in the declared width.
THEOREM CallsFaithful == MCSpec => []CallsAreFaithful
  <1>1. MCInit => CallsAreFaithful
    BY DEF MCInit, Adapters!Init, Adapters!NoCall, CallsAreFaithful, Adapters!CallsAreFaithful,
           Adapters!ArgumentsArrive, Adapters!AnswersAreExact
  <1>2. CallsAreFaithful /\ [MCNext]_<<vars, calling>> => CallsAreFaithful'
    <2> SUFFICES ASSUME CallsAreFaithful, [MCNext]_<<vars, calling>> PROVE CallsAreFaithful'
      OBVIOUS
    <2>1. CASE UNCHANGED last
      BY <2>1 DEF CallsAreFaithful, Adapters!CallsAreFaithful, Adapters!ArgumentsArrive,
                  Adapters!AnswersAreExact
    <2>2. CASE Adapters!LinuxCall \/ Adapters!WmiGet \/ Adapters!WmiSet
      BY <2>2, LinuxCallIsFaithful, WmiGetIsFaithful, WmiSetIsFaithful
    <2>3. CASE Adapters!Tune \/ Adapters!InitStarts \/ Adapters!InitRejects \/ Adapters!WmiAttempt
               \/ Adapters!CpuocAttempt \/ Adapters!Cleanup
      BY <2>1, <2>3 DEF Adapters!Tune, Adapters!InitStarts, Adapters!InitRejects, Adapters!WmiAttempt,
                        Adapters!CpuocAttempt, Adapters!Cleanup
    <2>4. UNCHANGED last \/ Adapters!Next
      BY DEF MCNext, calling
    <2> QED
      BY <2>1, <2>2, <2>3, <2>4 DEF Adapters!Next
  <1> QED
    BY <1>1, <1>2, PTL DEF MCSpec

-----------------------------------------------------------------------------
(* HardwareChannels, for any number of calls, timeouts, late replies and   *)
(* dying workers.  A WMI worker is stopped quietly because it has one      *)
(* request at a time, which waits for its reply; what the CPU worker still *)
(* takes after a failure was given up then, and is known to have settled.  *)

Replies == [id : HC!Ids, answer : {"ok", "error", "fatal"}]

\* What the variables hold.
ChannelTypes ==
    /\ calls \in Nat /\ cleanup \in {"no", "drain", "wmi", "cpuoc", "done"}
    /\ callQueue \in [HC!Channels -> Seq(HC!CallIds)] /\ begun \in [HC!Channels -> BOOLEAN]
    /\ pending \in [HC!Channels -> SUBSET HC!Ids]
    /\ inbox \in [HC!Channels -> Seq(HC!Ids)] /\ executing \in [HC!Channels -> SUBSET HC!Ids]
    /\ outbox \in [HC!Channels -> Seq(Replies)]
    /\ worker \in [HC!Channels -> {"none", "alive", "terminated"}]
    /\ failure \in [HC!Channels -> BOOLEAN] /\ closed \in [HC!Channels -> BOOLEAN]
    /\ result \in [HC!Ids -> {"none", "ok", "error", "restart"}]

\* A call that is queued was made and has not settled; it is queued once.
QueuedOnce ==
    /\ \A id \in HC!CallIds : id > calls => result[id] = "none"
    /\ \A ch \in HC!Channels : \A i \in DOMAIN callQueue[ch] :
        /\ callQueue[ch][i] <= calls /\ result[callQueue[ch][i]] = "none"
        /\ \A d \in HC!Channels : \A j \in DOMAIN callQueue[d] :
            callQueue[d][j] = callQueue[ch][i] => d = ch /\ j = i

\* A request that waits for its reply is the running call of the queue, or the cleanup.
PendingIsBegun ==
    \A ch \in HC!Channels :
        /\ begun[ch] => callQueue[ch] # <<>>
        /\ \A id \in pending[ch] :
            \/ begun[ch] /\ id = Head(callQueue[ch])
            \/ ch = "wmi" /\ id = HC!CleanupCall

\* The cleanup request is made once the WMI queue is empty, which it stays, and
\* the WMI channel closes after it.
CleanupInOrder ==
    /\ HC!CleanupCall \in pending["wmi"] =>
        cleanup \notin {"no", "drain"} /\ result[HC!CleanupCall] = "none"
    /\ cleanup \in {"no", "drain"} => result[HC!CleanupCall] = "none"
    /\ cleanup \in {"wmi", "cpuoc", "done"} => callQueue["wmi"] = <<>>
    /\ closed["wmi"] => cleanup \in {"cpuoc", "done"}

\* A WMI channel that failed or is closed has no live worker; a CPU channel that
\* failed or is closed waits for nothing, but its worker lives on.
FailureIsLatched ==
    /\ failure["wmi"] \/ closed["wmi"] => worker["wmi"] # "alive"
    /\ failure["cpuoc"] \/ closed["cpuoc"] => pending["cpuoc"] = {}
    /\ worker["cpuoc"] # "terminated"

\* What the CPU worker has yet to take waits for its reply or was given up.
GivenUp ==
    \A i \in DOMAIN inbox["cpuoc"] :
        inbox["cpuoc"][i] \in pending["cpuoc"] \/ result[inbox["cpuoc"][i]] # "none"

\* The WMI worker has at most one request: it is on its way, executing, or
\* answered, and it waits for its reply all the while.
OneAtATime ==
    /\ worker["wmi"] = "none" => pending["wmi"] = {}
    /\ worker["wmi"] # "terminated" =>
        \/ inbox["wmi"] = <<>> /\ executing["wmi"] = {} /\ outbox["wmi"] = <<>>
        \/ \E id \in pending["wmi"] :
            \/ inbox["wmi"] = <<id>> /\ executing["wmi"] = {} /\ outbox["wmi"] = <<>>
            \/ inbox["wmi"] = <<>> /\ executing["wmi"] = {id} /\ outbox["wmi"] = <<>>
            \/ /\ inbox["wmi"] = <<>> /\ executing["wmi"] = {}
               /\ \E reply \in Replies : reply.id = id /\ outbox["wmi"] = <<reply>>

\* Each part is inductive only with the others.
ChannelInv ==
    /\ ChannelTypes /\ QueuedOnce /\ PendingIsBegun /\ CleanupInOrder
    /\ FailureIsLatched /\ GivenUp /\ OneAtATime

\* What has settled keeps its outcome.
SettledStay == \A id \in HC!Ids : result[id] # "none" => result'[id] = result[id]

-----------------------------------------------------------------------------
\* Where the elements of a shortened and of an extended sequence were before.
LEMMA TailPlaces ==
    ASSUME NEW S, NEW s \in Seq(S), s # <<>>
    PROVE  /\ Tail(s) \in Seq(S) /\ Head(s) = s[1] /\ 1 \in DOMAIN s
           /\ \A i \in DOMAIN Tail(s) : i + 1 \in DOMAIN s /\ Tail(s)[i] = s[i + 1] /\ i + 1 # 1
  OBVIOUS

LEMMA AppendPlaces ==
    ASSUME NEW S, NEW s \in Seq(S), NEW x \in S, NEW i \in DOMAIN Append(s, x)
    PROVE  \/ i \in DOMAIN s /\ Append(s, x)[i] = s[i]
           \/ i = Len(s) + 1 /\ Append(s, x)[i] = x
  OBVIOUS

\* The first call of a queue is a call that has not settled.
LEMMA HeadIsUnsettled ==
    ASSUME ChannelInv, NEW ch \in HC!Channels, callQueue[ch] # <<>>
    PROVE  /\ Head(callQueue[ch]) \in HC!CallIds /\ Head(callQueue[ch]) # HC!CleanupCall
           /\ result[Head(callQueue[ch])] = "none" /\ Head(callQueue[ch]) <= calls
  <1>1. callQueue[ch] \in Seq(HC!CallIds)
    BY DEF ChannelInv, ChannelTypes
  <1>2. 1 \in DOMAIN callQueue[ch] /\ Head(callQueue[ch]) = callQueue[ch][1]
        /\ callQueue[ch][1] \in HC!CallIds
    BY <1>1
  <1>3. 0 \notin HC!CallIds
    BY DEF HC!CallIds
  <1> QED
    BY <1>2, <1>3 DEF ChannelInv, QueuedOnce, HC!CleanupCall

\* So is a request that waits for its reply, and it waits in one channel.
LEMMA PendingIsUnsettled ==
    ASSUME ChannelInv, NEW ch \in HC!Channels, NEW id \in pending[ch]
    PROVE  /\ id \in HC!Ids /\ result[id] = "none"
           /\ \A d \in HC!Channels : id \in pending[d] => d = ch
           /\ \A d \in HC!Channels : callQueue[d] # <<>> /\ id = Head(callQueue[d]) => d = ch
  <1>1. id \in HC!Ids
    BY DEF ChannelInv, ChannelTypes
  <1>2. \/ callQueue[ch] # <<>> /\ id = Head(callQueue[ch])
        \/ ch = "wmi" /\ id = HC!CleanupCall
    BY DEF ChannelInv, PendingIsBegun
  <1>3. ASSUME NEW d \in HC!Channels, callQueue[d] # <<>>, id = Head(callQueue[d])
        PROVE  d = ch /\ result[id] = "none"
    <2>1. id # HC!CleanupCall /\ result[id] = "none"
      BY <1>3, HeadIsUnsettled
    <2>2. callQueue[ch] # <<>> /\ Head(callQueue[ch]) = Head(callQueue[d])
      BY <1>2, <1>3, <2>1
    <2>3. callQueue[ch] \in Seq(HC!CallIds) /\ callQueue[d] \in Seq(HC!CallIds)
      BY DEF ChannelInv, ChannelTypes
    <2>4. /\ 1 \in DOMAIN callQueue[ch] /\ 1 \in DOMAIN callQueue[d]
          /\ callQueue[d][1] = callQueue[ch][1]
      BY <1>3, <2>2, <2>3
    <2> QED
      BY <2>1, <2>4 DEF ChannelInv, QueuedOnce
  <1>4. result[id] = "none"
    BY <1>2, <1>3 DEF ChannelInv, CleanupInOrder
  <1>5. ASSUME NEW d \in HC!Channels, id \in pending[d] PROVE d = ch
    <2>1. \/ callQueue[d] # <<>> /\ id = Head(callQueue[d])
          \/ d = "wmi" /\ id = HC!CleanupCall
      BY <1>5 DEF ChannelInv, PendingIsBegun
    <2>2. callQueue[ch] # <<>> => Head(callQueue[ch]) # HC!CleanupCall
      BY HeadIsUnsettled
    <2> QED
      BY <1>2, <1>3, <2>1, <2>2
  <1> QED
    BY <1>1, <1>3, <1>4, <1>5

\* A queue whose first call settles.
LEMMA QueueMovesOn ==
    ASSUME ChannelInv, NEW ch \in HC!Channels, callQueue[ch] # <<>>, NEW ids, NEW outcome,
           Head(callQueue[ch]) \in ids,
           \A id \in ids : id = HC!CleanupCall \/ id = Head(callQueue[ch]),
           HC!Settle(ids, outcome), calls' = calls,
           callQueue' = [callQueue EXCEPT ![ch] = Tail(@)]
    PROVE  /\ callQueue' \in [HC!Channels -> Seq(HC!CallIds)] /\ QueuedOnce'
           /\ callQueue["wmi"] = <<>> => callQueue'["wmi"] = <<>>
  <1>1. /\ callQueue \in [HC!Channels -> Seq(HC!CallIds)] /\ callQueue[ch] \in Seq(HC!CallIds)
        /\ result \in [HC!Ids -> {"none", "ok", "error", "restart"}] /\ calls \in Nat
    BY DEF ChannelInv, ChannelTypes
  <1>2. /\ callQueue'[ch] = Tail(callQueue[ch])
        /\ callQueue' \in [HC!Channels -> Seq(HC!CallIds)]
        /\ \A d \in HC!Channels : d # ch => callQueue'[d] = callQueue[d]
    BY <1>1
  <1>3. ASSUME NEW d \in HC!Channels, NEW j \in DOMAIN callQueue'[d]
        PROVE  \E i \in DOMAIN callQueue[d] :
                  /\ callQueue'[d][j] = callQueue[d][i] /\ callQueue[d][i] \in HC!CallIds
                  /\ d = ch => i = j + 1
                  /\ d # ch => i = j
    <2>1. callQueue[d] \in Seq(HC!CallIds)
      BY <1>1
    <2> QED
      BY <1>1, <1>2, <1>3, <2>1, TailPlaces
  <1>4. 1 \in DOMAIN callQueue[ch] /\ Head(callQueue[ch]) = callQueue[ch][1]
    BY <1>1
  <1>5. HC!CallIds \subseteq HC!Ids /\ \A id \in HC!CallIds : id # HC!CleanupCall /\ id \in Nat
    BY DEF HC!CallIds, HC!Ids, HC!CleanupCall
  <1>6. ASSUME NEW id \in HC!CallIds, id > calls PROVE result'[id] = "none"
    <2>1. result[id] = "none" /\ id # HC!CleanupCall /\ id \in HC!Ids
      BY <1>5, <1>6 DEF ChannelInv, QueuedOnce
    <2>2. Head(callQueue[ch]) <= calls /\ Head(callQueue[ch]) \in Nat
      BY <1>5, HeadIsUnsettled
    <2>3. id \notin ids
      BY <1>1, <1>5, <1>6, <2>1, <2>2
    <2> QED
      BY <2>1, <2>3 DEF HC!Settle
  <1>7. ASSUME NEW d \in HC!Channels, NEW j \in DOMAIN callQueue'[d]
        PROVE  /\ callQueue'[d][j] <= calls' /\ result'[callQueue'[d][j]] = "none"
               /\ \A e \in HC!Channels : \A k \in DOMAIN callQueue'[e] :
                    callQueue'[e][k] = callQueue'[d][j] => e = d /\ k = j
    <2>1. PICK i \in DOMAIN callQueue[d] :
            /\ callQueue'[d][j] = callQueue[d][i] /\ callQueue[d][i] \in HC!CallIds
            /\ d = ch => i = j + 1
            /\ d # ch => i = j
      BY <1>3
    <2>2. /\ callQueue[d][i] <= calls /\ result[callQueue[d][i]] = "none"
          /\ callQueue[d][i] = callQueue[ch][1] => d = ch /\ i = 1
      BY <1>4 DEF ChannelInv, QueuedOnce
    <2>3. j \in Nat /\ j # 0
      BY <1>2
    <2>4. callQueue[d][i] \notin ids
      BY <1>4, <1>5, <2>1, <2>2, <2>3
    <2>5. result'[callQueue[d][i]] = "none"
      BY <1>5, <2>1, <2>2, <2>4 DEF HC!Settle
    <2>6. ASSUME NEW e \in HC!Channels, NEW k \in DOMAIN callQueue'[e],
                 callQueue'[e][k] = callQueue'[d][j]
          PROVE  e = d /\ k = j
      <3>1. PICK l \in DOMAIN callQueue[e] :
              /\ callQueue'[e][k] = callQueue[e][l]
              /\ e = ch => l = k + 1
              /\ e # ch => l = k
        BY <1>3
      <3>2. e = d /\ l = i
        BY <2>1, <2>6, <3>1 DEF ChannelInv, QueuedOnce
      <3>3. k \in Nat
        BY <1>2
      <3> QED
        BY <2>1, <2>3, <3>1, <3>2, <3>3
    <2> QED
      BY <2>1, <2>2, <2>5, <2>6
  <1>8. callQueue["wmi"] = <<>> => callQueue'["wmi"] = <<>>
    <2>1. "wmi" \in HC!Channels
      BY DEF HC!Channels
    <2> QED
      BY <1>2, <2>1
  <1> QED
    BY <1>2, <1>6, <1>7, <1>8 DEF QueuedOnce

\* What settling changes of the types and of result.
LEMMA SettleKeeps ==
    ASSUME ChannelInv, NEW ids, NEW outcome \in {"ok", "error", "restart"},
           HC!Settle(ids, outcome),
           \A id \in ids : id \in HC!Ids => result[id] = "none"
    PROVE  /\ result' \in [HC!Ids -> {"none", "ok", "error", "restart"}]
           /\ SettledStay
           /\ \A id \in HC!Ids : result[id] # "none" \/ id \in ids => result'[id] # "none"
           /\ \A id \in HC!Ids : id \notin ids => result'[id] = result[id]
  <1>1. result \in [HC!Ids -> {"none", "ok", "error", "restart"}]
    BY DEF ChannelInv, ChannelTypes
  <1> QED
    BY <1>1 DEF HC!Settle, SettledStay

\* Requests of one channel settle and are no longer waited for.
LEMMA RequestsSettle ==
    ASSUME ChannelInv, NEW ch \in HC!Channels, NEW ids \in SUBSET pending[ch],
           NEW outcome \in {"ok", "error", "restart"},
           HC!Settle(ids, outcome), HC!Advances(ch, ids),
           pending' = [pending EXCEPT ![ch] = @ \ ids], calls' = calls
    PROVE  /\ callQueue' \in [HC!Channels -> Seq(HC!CallIds)]
           /\ begun' \in [HC!Channels -> BOOLEAN]
           /\ pending' \in [HC!Channels -> SUBSET HC!Ids]
           /\ \A d \in HC!Channels :
                pending'[d] = IF d = ch THEN pending[ch] \ ids ELSE pending[d]
           /\ result' \in [HC!Ids -> {"none", "ok", "error", "restart"}]
           /\ QueuedOnce' /\ PendingIsBegun' /\ SettledStay
           /\ callQueue["wmi"] = <<>> => callQueue'["wmi"] = <<>>
           /\ \A id \in ids : result'[id] # "none"
           /\ \A id \in HC!Ids : id \notin ids => result'[id] = result[id]
  <1>1. /\ callQueue \in [HC!Channels -> Seq(HC!CallIds)] /\ begun \in [HC!Channels -> BOOLEAN]
        /\ pending \in [HC!Channels -> SUBSET HC!Ids] /\ calls \in Nat
    BY DEF ChannelInv, ChannelTypes
  <1>2. \A id \in ids : id \in HC!Ids /\ result[id] = "none"
    BY PendingIsUnsettled
  <1>3. /\ result' \in [HC!Ids -> {"none", "ok", "error", "restart"}] /\ SettledStay
        /\ \A id \in ids : result'[id] # "none"
        /\ \A id \in HC!Ids : id \notin ids => result'[id] = result[id]
    BY <1>2, SettleKeeps
  <1>4. /\ pending' \in [HC!Channels -> SUBSET HC!Ids]
        /\ \A d \in HC!Channels :
            pending'[d] = IF d = ch THEN pending[ch] \ ids ELSE pending[d]
    BY <1>1
  <1>5. CASE begun[ch] /\ Head(callQueue[ch]) \in ids
    <2>1. /\ callQueue' = [callQueue EXCEPT ![ch] = Tail(@)]
          /\ begun' = [begun EXCEPT ![ch] = FALSE]
          /\ callQueue[ch] # <<>>
      BY <1>5 DEF HC!Advances, ChannelInv, PendingIsBegun
    <2>2. \A id \in ids : id = HC!CleanupCall \/ id = Head(callQueue[ch])
      BY DEF ChannelInv, PendingIsBegun
    <2>3. /\ callQueue' \in [HC!Channels -> Seq(HC!CallIds)] /\ QueuedOnce'
          /\ callQueue["wmi"] = <<>> => callQueue'["wmi"] = <<>>
      BY <1>5, <2>1, <2>2, QueueMovesOn
    <2>4. begun' \in [HC!Channels -> BOOLEAN] /\ ~begun'[ch]
          /\ \A d \in HC!Channels :
                d # ch => begun'[d] = begun[d] /\ callQueue'[d] = callQueue[d]
      BY <1>1, <2>1
    <2>5. PendingIsBegun'
      <3> SUFFICES ASSUME NEW d \in HC!Channels
                   PROVE  /\ begun'[d] => callQueue'[d] # <<>>
                          /\ \A id \in pending'[d] :
                                \/ begun'[d] /\ id = Head(callQueue'[d])
                                \/ d = "wmi" /\ id = HC!CleanupCall
        BY DEF PendingIsBegun
      <3>1. CASE d = ch
        <4>1. \A id \in pending[ch] \ ids : ch = "wmi" /\ id = HC!CleanupCall
          BY <1>5 DEF ChannelInv, PendingIsBegun
        <4> QED
          BY <1>4, <2>4, <3>1, <4>1
      <3>2. CASE d # ch
        <4>1. /\ begun[d] => callQueue[d] # <<>>
              /\ \A id \in pending[d] :
                    \/ begun[d] /\ id = Head(callQueue[d])
                    \/ d = "wmi" /\ id = HC!CleanupCall
          BY DEF ChannelInv, PendingIsBegun
        <4> QED
          BY <1>4, <2>4, <3>2, <4>1
      <3> QED
        BY <3>1, <3>2
    <2> QED
      BY <1>3, <1>4, <2>3, <2>4, <2>5
  <1>6. CASE ~(begun[ch] /\ Head(callQueue[ch]) \in ids)
    <2>1. callQueue' = callQueue /\ begun' = begun
      BY <1>6 DEF HC!Advances
    <2>2. PendingIsBegun'
      BY <1>4, <2>1 DEF ChannelInv, PendingIsBegun
    <2>3. \A id \in ids : id = HC!CleanupCall
      BY <1>6 DEF ChannelInv, PendingIsBegun
    <2>4. QueuedOnce'
      <3>1. \A id \in HC!CallIds : id \in HC!Ids /\ id # HC!CleanupCall
        BY DEF HC!CallIds, HC!Ids, HC!CleanupCall
      <3>2. \A id \in HC!CallIds : result'[id] = result[id]
        BY <1>3, <2>3, <3>1
      <3>3. \A d \in HC!Channels : \A i \in DOMAIN callQueue[d] : callQueue[d][i] \in HC!CallIds
        BY <1>1
      <3> QED
        BY <2>1, <3>2, <3>3 DEF ChannelInv, QueuedOnce
    <2> QED
      BY <1>1, <1>3, <1>4, <2>1, <2>2, <2>4
  <1> QED
    BY <1>5, <1>6

\* A channel that fails settles all it waits for; the WMI worker is stopped.
LEMMA FailKeeps ==
    ASSUME ChannelInv, NEW ch \in HC!Channels, HC!Fail(ch), UNCHANGED <<calls, closed, cleanup>>
    PROVE  ChannelInv' /\ SettledStay
  <1>1. /\ pending' = [pending EXCEPT ![ch] = @ \ pending[ch]]
        /\ failure' = [failure EXCEPT ![ch] = TRUE]
        /\ HC!Settle(pending[ch], "restart") /\ HC!Advances(ch, pending[ch])
        /\ IF ch = "wmi" THEN HC!Terminate(ch) ELSE UNCHANGED <<worker, HC!thread>>
    BY DEF HC!Fail, ChannelInv, ChannelTypes
  <1>2. /\ callQueue' \in [HC!Channels -> Seq(HC!CallIds)]
        /\ begun' \in [HC!Channels -> BOOLEAN]
        /\ pending' \in [HC!Channels -> SUBSET HC!Ids]
        /\ \A d \in HC!Channels : pending'[d] = IF d = ch THEN {} ELSE pending[d]
        /\ result' \in [HC!Ids -> {"none", "ok", "error", "restart"}]
        /\ QueuedOnce' /\ PendingIsBegun' /\ SettledStay
        /\ callQueue["wmi"] = <<>> => callQueue'["wmi"] = <<>>
        /\ \A id \in pending[ch] : result'[id] # "none"
        /\ \A id \in HC!Ids : id \notin pending[ch] => result'[id] = result[id]
    BY <1>1, RequestsSettle
  <1>3. "wmi" \in HC!Channels /\ "cpuoc" \in HC!Channels /\ (ch = "wmi" \/ ch = "cpuoc")
        /\ HC!CleanupCall \in HC!Ids
    BY DEF HC!Channels, HC!Ids
  <1>4. failure' \in [HC!Channels -> BOOLEAN] /\ failure'[ch]
        /\ \A d \in HC!Channels : d # ch => failure'[d] = failure[d]
    BY <1>1 DEF ChannelInv, ChannelTypes
  <1>5. /\ inbox' \in [HC!Channels -> Seq(HC!Ids)]
        /\ executing' \in [HC!Channels -> SUBSET HC!Ids]
        /\ outbox' \in [HC!Channels -> Seq(Replies)]
        /\ worker' \in [HC!Channels -> {"none", "alive", "terminated"}]
        /\ ch = "wmi" => worker'["wmi"] # "alive"
        /\ worker'["cpuoc"] = worker["cpuoc"] /\ inbox'["cpuoc"] = inbox["cpuoc"]
        /\ ch = "cpuoc" => UNCHANGED <<worker, inbox, executing, outbox>>
    <2> USE DEF ChannelInv, ChannelTypes
    <2>1. CASE ch = "wmi"
      <3>1. /\ worker' = [worker EXCEPT !["wmi"] = IF @ = "none" THEN @ ELSE "terminated"]
            /\ inbox' = [inbox EXCEPT !["wmi"] = <<>>]
            /\ outbox' = [outbox EXCEPT !["wmi"] = <<>>]
            /\ executing' = executing
        BY <1>1, <2>1 DEF HC!Terminate
      <3>2. inbox' \in [HC!Channels -> Seq(HC!Ids)] /\ inbox'["cpuoc"] = inbox["cpuoc"]
        <4>1. <<>> \in Seq(HC!Ids)
          OBVIOUS
        <4> QED
          BY <1>3, <3>1, <4>1
      <3>3. outbox' \in [HC!Channels -> Seq(Replies)]
        <4>1. <<>> \in Seq(Replies)
          OBVIOUS
        <4> QED
          BY <3>1, <4>1
      <3>4. /\ worker' \in [HC!Channels -> {"none", "alive", "terminated"}]
            /\ worker'["wmi"] # "alive" /\ worker'["cpuoc"] = worker["cpuoc"]
        BY <1>3, <3>1
      <3> QED
        BY <2>1, <3>1, <3>2, <3>3, <3>4
    <2>2. CASE ch = "cpuoc"
      BY <1>1, <2>2 DEF HC!thread
    <2> QED
      BY <1>3, <2>1, <2>2
  <1>6. ChannelTypes'
    <2>1. calls' \in Nat /\ cleanup' \in {"no", "drain", "wmi", "cpuoc", "done"}
          /\ closed' \in [HC!Channels -> BOOLEAN]
      BY DEF ChannelInv, ChannelTypes
    <2> QED
      BY <1>2, <1>4, <1>5, <2>1 DEF ChannelTypes
  <1>7. CleanupInOrder'
    <2>1. HC!CleanupCall \notin pending["cpuoc"]
      <3>1. callQueue["cpuoc"] # <<>> => Head(callQueue["cpuoc"]) # HC!CleanupCall
        BY <1>3, HeadIsUnsettled
      <3> QED
        BY <1>3, <3>1 DEF ChannelInv, PendingIsBegun
    <2>2. HC!CleanupCall \in pending'["wmi"] => ch # "wmi" /\ HC!CleanupCall \in pending["wmi"]
      BY <1>2, <1>3
    <2>3. cleanup \in {"no", "drain"} => HC!CleanupCall \notin pending[ch]
      BY <1>3, <2>1 DEF ChannelInv, CleanupInOrder
    <2> QED
      BY <1>2, <1>3, <2>1, <2>2, <2>3 DEF ChannelInv, CleanupInOrder
  <1>8. FailureIsLatched'
    BY <1>2, <1>3, <1>4, <1>5 DEF ChannelInv, FailureIsLatched
  <1>9. GivenUp'
    <2>1. \A i \in DOMAIN inbox["cpuoc"] : inbox["cpuoc"][i] \in HC!Ids
      BY <1>3 DEF ChannelInv, ChannelTypes
    <2>2. \A id \in HC!Ids : result[id] # "none" => result'[id] # "none"
      BY <1>2 DEF SettledStay
    <2> QED
      BY <1>2, <1>3, <1>5, <2>1, <2>2 DEF ChannelInv, GivenUp
  <1>10. OneAtATime'
    <2>1. CASE ch = "wmi"
      <3>2. CASE worker'["wmi"] = "none"
        <4>1. worker["wmi"] = "none" /\ inbox'["wmi"] = <<>> /\ outbox'["wmi"] = <<>>
              /\ executing' = executing
          BY <1>1, <1>3, <2>1, <3>2 DEF ChannelInv, ChannelTypes, HC!Terminate
        <4>2. executing["wmi"] = {} /\ pending'["wmi"] = {}
          BY <1>2, <1>3, <2>1, <4>1 DEF ChannelInv, OneAtATime
        <4> QED
          BY <4>1, <4>2 DEF OneAtATime
      <3>3. CASE worker'["wmi"] = "terminated"
        BY <3>3 DEF OneAtATime
      <3> QED
        BY <1>3, <1>5, <2>1, <3>2, <3>3
    <2>2. CASE ch = "cpuoc"
      <3>1. pending'["wmi"] = pending["wmi"]
        BY <1>2, <1>3, <2>2
      <3> QED
        BY <1>5, <2>2, <3>1 DEF ChannelInv, OneAtATime
    <2> QED
      BY <1>3, <2>1, <2>2
  <1> QED
    BY <1>2, <1>6, <1>7, <1>8, <1>9, <1>10 DEF ChannelInv

\* Calls are made, and queued unless the services are closed.
LEMMA CallKeeps ==
    ASSUME ChannelInv, NEW ch \in HC!Channels, HC!Call(ch)
    PROVE  ChannelInv' /\ SettledStay
  <1> DEFINE new == calls + 1
  <1>1. /\ calls < MaxCalls /\ calls' = new
        /\ UNCHANGED <<begun, pending, inbox, executing, outbox, worker, failure, closed,
                       cleanup>>
    BY DEF HC!Call, HC!thread
  <1>2. /\ calls \in Nat /\ MaxCalls \in Nat /\ new \in HC!CallIds /\ new \in HC!Ids
        /\ new # HC!CleanupCall
        /\ result[new] = "none" /\ new > calls
    <2>1. calls \in Nat /\ MaxCalls \in Nat
      BY ChannelsAssumption DEF ChannelInv, ChannelTypes
    <2>2. new \in HC!CallIds /\ new # HC!CleanupCall /\ new > calls
      BY <1>1, <2>1 DEF HC!CallIds, HC!CleanupCall
    <2> QED
      BY <2>1, <2>2 DEF HC!Ids, ChannelInv, QueuedOnce
  <1>3. /\ "wmi" \in HC!Channels /\ "cpuoc" \in HC!Channels /\ HC!CleanupCall \in HC!Ids
        /\ \A id \in HC!CallIds : id \in HC!Ids /\ id \in Nat
    BY DEF HC!Channels, HC!Ids, HC!CallIds
  <1>4. CASE HC!ServicesClosed
    <2>1. HC!Settle({new}, "error") /\ callQueue' = callQueue
      BY <1>4 DEF HC!Call
    <2>2. /\ result' \in [HC!Ids -> {"none", "ok", "error", "restart"}] /\ SettledStay
          /\ \A id \in HC!Ids : result[id] # "none" => result'[id] # "none"
          /\ \A id \in HC!Ids : id # new => result'[id] = result[id]
      BY <1>2, <2>1, SettleKeeps
    <2>3. ChannelTypes'
      BY <1>1, <1>2, <2>1, <2>2 DEF ChannelInv, ChannelTypes
    <2>4. QueuedOnce'
      <3>1. \A d \in HC!Channels : \A i \in DOMAIN callQueue[d] :
                callQueue[d][i] \in HC!CallIds /\ callQueue[d][i] <= calls
        BY DEF ChannelInv, ChannelTypes, QueuedOnce
      <3>2. \A d \in HC!Channels : \A i \in DOMAIN callQueue[d] :
                callQueue[d][i] <= new /\ callQueue[d][i] # new
        BY <1>2, <1>3, <3>1
      <3>3. \A id \in HC!CallIds : id > new => id > calls /\ id # new
        BY <1>2, <1>3
      <3> QED
        BY <1>1, <1>3, <2>1, <2>2, <3>1, <3>2, <3>3 DEF ChannelInv, QueuedOnce
    <2>5. PendingIsBegun' /\ FailureIsLatched' /\ OneAtATime'
      BY <1>1, <2>1 DEF ChannelInv, PendingIsBegun, FailureIsLatched, OneAtATime
    <2>6. CleanupInOrder'
      BY <1>1, <1>2, <1>3, <2>1, <2>2 DEF ChannelInv, CleanupInOrder
    <2>7. GivenUp'
      <3>1. \A i \in DOMAIN inbox["cpuoc"] : inbox["cpuoc"][i] \in HC!Ids
        BY <1>3 DEF ChannelInv, ChannelTypes
      <3> QED
        BY <1>1, <2>2, <3>1 DEF ChannelInv, GivenUp
    <2> QED
      BY <2>2, <2>3, <2>4, <2>5, <2>6, <2>7 DEF ChannelInv
  <1>5. CASE ~HC!ServicesClosed
    <2>1. /\ callQueue' = [callQueue EXCEPT ![ch] = Append(@, new)] /\ result' = result
          /\ cleanup = "no"
      BY <1>5 DEF HC!Call, HC!ServicesClosed
    <2>2. callQueue \in [HC!Channels -> Seq(HC!CallIds)] /\ callQueue[ch] \in Seq(HC!CallIds)
      BY DEF ChannelInv, ChannelTypes
    <2>3. /\ callQueue' \in [HC!Channels -> Seq(HC!CallIds)]
          /\ \A d \in HC!Channels : d # ch => callQueue'[d] = callQueue[d]
          /\ callQueue'[ch] = Append(callQueue[ch], new)
      <3>1. Append(callQueue[ch], new) \in Seq(HC!CallIds)
        BY <1>2, <2>2
      <3> QED
        BY <2>1, <2>2, <3>1
    <2>4. ASSUME NEW d \in HC!Channels, NEW i \in DOMAIN callQueue'[d]
          PROVE  \/ i \in DOMAIN callQueue[d] /\ callQueue'[d][i] = callQueue[d][i]
                 \/ d = ch /\ i = Len(callQueue[ch]) + 1 /\ callQueue'[d][i] = new
      <3>1. CASE d = ch
        <4> DEFINE s == callQueue[ch]
        <4>1. /\ s \in Seq(HC!CallIds) /\ i \in DOMAIN Append(s, new)
              /\ callQueue'[d] = Append(s, new)
          BY <2>2, <2>3, <2>4, <3>1
        <4> HIDE DEF s, new
        <4>2. \/ i \in DOMAIN s /\ Append(s, new)[i] = s[i]
              \/ i = Len(s) + 1 /\ Append(s, new)[i] = new
          BY <1>2, <4>1, AppendPlaces
        <4> QED
          BY <3>1, <4>1, <4>2 DEF s
      <3>2. CASE d # ch
        BY <2>3, <2>4, <3>2
      <3> QED
        BY <3>1, <3>2
    <2>5. \A d \in HC!Channels : \A i \in DOMAIN callQueue[d] :
              callQueue[d][i] \in Nat /\ callQueue[d][i] <= calls /\ callQueue[d][i] # new
      <3>1. \A d \in HC!Channels : \A i \in DOMAIN callQueue[d] :
              callQueue[d][i] \in HC!CallIds /\ callQueue[d][i] <= calls
        BY DEF ChannelInv, ChannelTypes, QueuedOnce
      <3> QED
        BY <1>2, <1>3, <3>1
    <2>6. QueuedOnce'
      <3>1. \A id \in HC!CallIds : id > calls' => result'[id] = "none"
        <4>1. \A id \in HC!CallIds : id > new => id > calls
          BY <1>2, <1>3
        <4> QED
          BY <1>1, <2>1, <4>1 DEF ChannelInv, QueuedOnce
      <3>2. ASSUME NEW d \in HC!Channels, NEW i \in DOMAIN callQueue'[d]
            PROVE  callQueue'[d][i] <= calls' /\ result'[callQueue'[d][i]] = "none"
        <4>1. CASE i \in DOMAIN callQueue[d] /\ callQueue'[d][i] = callQueue[d][i]
          <5>1. callQueue[d][i] \in Nat /\ callQueue[d][i] <= calls
            BY <2>5, <4>1
          <5>2. result[callQueue[d][i]] = "none"
            BY <4>1 DEF ChannelInv, QueuedOnce
          <5> QED
            BY <1>1, <1>2, <2>1, <4>1, <5>1, <5>2
        <4>2. CASE callQueue'[d][i] = new
          BY <1>1, <1>2, <2>1, <4>2
        <4> QED
          BY <2>4, <4>1, <4>2
      <3>3. ASSUME NEW d \in HC!Channels, NEW i \in DOMAIN callQueue'[d],
                   NEW e \in HC!Channels, NEW j \in DOMAIN callQueue'[e],
                   callQueue'[e][j] = callQueue'[d][i]
            PROVE  e = d /\ j = i
        <4>1. \/ i \in DOMAIN callQueue[d] /\ callQueue'[d][i] = callQueue[d][i]
              \/ d = ch /\ i = Len(callQueue[ch]) + 1 /\ callQueue'[d][i] = new
          BY <2>4
        <4>2. \/ j \in DOMAIN callQueue[e] /\ callQueue'[e][j] = callQueue[e][j]
              \/ e = ch /\ j = Len(callQueue[ch]) + 1 /\ callQueue'[e][j] = new
          BY <2>4
        <4> QED
          BY <2>5, <3>3, <4>1, <4>2 DEF ChannelInv, QueuedOnce
      <3> QED
        BY <3>1, <3>2, <3>3 DEF QueuedOnce
    <2>7. ChannelTypes'
      BY <1>1, <1>2, <2>1, <2>3 DEF ChannelInv, ChannelTypes
    <2>8. PendingIsBegun'
      <3>1. \A d \in HC!Channels : callQueue[d] # <<>> =>
                callQueue'[d] # <<>> /\ Head(callQueue'[d]) = Head(callQueue[d])
        <4>1. callQueue[ch] # <<>> =>
                /\ Append(callQueue[ch], new) # <<>>
                /\ Head(Append(callQueue[ch], new)) = Head(callQueue[ch])
          BY <2>2
        <4> QED
          BY <2>3, <4>1
      <3> QED
        BY <1>1, <3>1 DEF ChannelInv, PendingIsBegun
    <2>9. CleanupInOrder' /\ FailureIsLatched' /\ GivenUp' /\ OneAtATime' /\ SettledStay
      BY <1>1, <2>1 DEF ChannelInv, CleanupInOrder, FailureIsLatched, GivenUp, OneAtATime,
                        SettledStay
    <2> QED
      BY <2>6, <2>7, <2>8, <2>9 DEF ChannelInv
  <1> QED
    BY <1>4, <1>5

\* A request waits for its reply and is on its way to a live worker.
LEMMA PostKeeps ==
    ASSUME ChannelInv, NEW ch \in HC!Channels, NEW id \in HC!Ids, HC!Post(ch, id),
           ~failure[ch], ~closed[ch], pending[ch] = {}
    PROVE  /\ pending' \in [HC!Channels -> SUBSET HC!Ids]
           /\ \A d \in HC!Channels : pending'[d] = IF d = ch THEN {id} ELSE pending[d]
           /\ inbox' \in [HC!Channels -> Seq(HC!Ids)]
           /\ worker' \in [HC!Channels -> {"none", "alive", "terminated"}]
           /\ executing' = executing /\ outbox' = outbox
           /\ \A d \in HC!Channels : d # ch => worker'[d] = worker[d] /\ inbox'[d] = inbox[d]
           /\ worker'["cpuoc"] # "terminated"
           /\ (result' = result \/ \A i \in HC!Ids : result[i] # "none" => result'[i] # "none")
                => GivenUp'
           /\ OneAtATime'
  <1>1. /\ pending' = [pending EXCEPT ![ch] = @ \cup {id}]
        /\ worker' = [worker EXCEPT ![ch] = IF @ = "none" THEN "alive" ELSE @]
        /\ inbox' = [inbox EXCEPT ![ch] = IF worker'[ch] = "alive" THEN Append(@, id) ELSE @]
        /\ executing' = executing /\ outbox' = outbox
    BY DEF HC!Post, HC!WithWorker
  <1>2. /\ pending \in [HC!Channels -> SUBSET HC!Ids] /\ inbox \in [HC!Channels -> Seq(HC!Ids)]
        /\ worker \in [HC!Channels -> {"none", "alive", "terminated"}]
        /\ inbox[ch] \in Seq(HC!Ids)
        /\ "wmi" \in HC!Channels /\ "cpuoc" \in HC!Channels /\ ch \in {"wmi", "cpuoc"}
    BY DEF ChannelInv, ChannelTypes, HC!Channels
  <1>3. /\ pending' \in [HC!Channels -> SUBSET HC!Ids]
        /\ \A d \in HC!Channels : pending'[d] = IF d = ch THEN {id} ELSE pending[d]
    BY <1>1, <1>2
  <1>4. /\ worker' \in [HC!Channels -> {"none", "alive", "terminated"}]
        /\ worker'[ch] = IF worker[ch] = "none" THEN "alive" ELSE worker[ch]
        /\ \A d \in HC!Channels : d # ch => worker'[d] = worker[d]
    BY <1>1, <1>2
  <1>5. /\ inbox' \in [HC!Channels -> Seq(HC!Ids)]
        /\ inbox'[ch] = IF worker'[ch] = "alive" THEN Append(inbox[ch], id) ELSE inbox[ch]
        /\ \A d \in HC!Channels : d # ch => inbox'[d] = inbox[d]
    <2>1. Append(inbox[ch], id) \in Seq(HC!Ids)
      BY <1>2
    <2> QED
      BY <1>1, <1>2, <2>1
  <1>6. worker'["cpuoc"] # "terminated"
    BY <1>2, <1>4 DEF ChannelInv, FailureIsLatched
  <1>7. OneAtATime'
    <2>1. CASE ch = "wmi"
      <3>1. CASE worker'["wmi"] = "terminated"
        BY <3>1 DEF OneAtATime
      <3>2. CASE worker'["wmi"] = "alive"
        <4>1. worker["wmi"] # "terminated"
          BY <1>4, <2>1, <3>2
        <4>2. inbox["wmi"] = <<>> /\ executing["wmi"] = {} /\ outbox["wmi"] = <<>>
          BY <2>1, <4>1 DEF ChannelInv, OneAtATime
        <4>3. inbox'["wmi"] = <<id>>
          BY <1>5, <2>1, <3>2, <4>2
        <4>4. id \in pending'["wmi"]
          BY <1>3, <2>1
        <4> QED
          BY <1>1, <3>2, <4>2, <4>3, <4>4 DEF OneAtATime
      <3> QED
        BY <1>2, <1>4, <2>1, <3>1, <3>2
    <2>2. CASE ch = "cpuoc"
      <3>1. /\ worker'["wmi"] = worker["wmi"] /\ inbox'["wmi"] = inbox["wmi"]
            /\ pending'["wmi"] = pending["wmi"]
        BY <1>2, <1>3, <1>4, <1>5, <2>2
      <3> QED
        BY <1>1, <3>1 DEF ChannelInv, OneAtATime
    <2> QED
      BY <1>2, <2>1, <2>2
  <1>8. ASSUME result' = result \/ \A i \in HC!Ids : result[i] # "none" => result'[i] # "none"
        PROVE  GivenUp'
    <2> DEFINE s == inbox["cpuoc"]
    <2>1. s \in Seq(HC!Ids) /\ \A i \in DOMAIN s : s[i] \in HC!Ids
      BY <1>2
    <2>2. \A i \in DOMAIN s : s[i] \in pending["cpuoc"] \/ result'[s[i]] # "none"
      BY <1>8, <2>1 DEF ChannelInv, GivenUp
    <2>3. pending["cpuoc"] \subseteq pending'["cpuoc"]
      BY <1>1, <1>2
    <2>4. CASE inbox'["cpuoc"] = s
      BY <2>2, <2>3, <2>4 DEF GivenUp
    <2>5. CASE inbox'["cpuoc"] = Append(s, id) /\ ch = "cpuoc"
      <3>1. id \in pending'["cpuoc"]
        BY <1>3, <2>5
      <3>3. s \in Seq(HC!Ids) /\ id \in HC!Ids
        BY <2>1
      <3> HIDE DEF s
      <3>2. ASSUME NEW i \in DOMAIN Append(s, id)
            PROVE  \/ i \in DOMAIN s /\ Append(s, id)[i] = s[i]
                   \/ i = Len(s) + 1 /\ Append(s, id)[i] = id
        BY <3>2, <3>3, AppendPlaces
      <3> QED
        BY <2>2, <2>3, <2>5, <3>1, <3>2 DEF GivenUp
    <2> QED
      BY <1>2, <1>5, <2>4, <2>5
  <1> QED
    BY <1>1, <1>3, <1>4, <1>5, <1>6, <1>7, <1>8

\* The first call of a queue begins, or is refused.
LEMMA BeginKeeps ==
    ASSUME ChannelInv, NEW ch \in HC!Channels, HC!Begin(ch)
    PROVE  ChannelInv' /\ SettledStay
  <1> DEFINE id == Head(callQueue[ch])
  <1>1. /\ callQueue[ch] # <<>> /\ ~begun[ch]
        /\ UNCHANGED <<calls, failure, closed, cleanup>>
    BY DEF HC!Begin
  <1>2. /\ id \in HC!CallIds /\ id \in HC!Ids /\ id # HC!CleanupCall /\ result[id] = "none"
        /\ id <= calls
        /\ HC!CallIds \subseteq HC!Ids /\ HC!CleanupCall \in HC!Ids
        /\ "wmi" \in HC!Channels /\ "cpuoc" \in HC!Channels /\ ch \in {"wmi", "cpuoc"}
    BY <1>1, HeadIsUnsettled DEF HC!Ids, HC!Channels
  <1>3. ch = "wmi" => cleanup \in {"no", "drain"}
    BY <1>1 DEF ChannelInv, CleanupInOrder, ChannelTypes
  <1>4. pending[ch] = {}
    <2>1. \A i \in pending[ch] : ch = "wmi" /\ i = HC!CleanupCall
      BY <1>1 DEF ChannelInv, PendingIsBegun
    <2> QED
      BY <1>3, <2>1 DEF ChannelInv, CleanupInOrder
  <1>5. CASE HC!Refused(ch)
    <2>1. PICK outcome \in {"ok", "error", "restart"} : HC!Settle({id}, outcome)
      <3>1. CASE failure[ch]
        <4>1. HC!Settle({id}, "restart")
          BY <1>5, <3>1 DEF HC!Begin
        <4> QED
          BY <4>1
      <3>2. CASE ~failure[ch]
        <4>1. HC!Settle({id}, "error")
          BY <1>5, <3>2 DEF HC!Begin
        <4> QED
          BY <4>1
      <3> QED
        BY <3>1, <3>2
    <2>2. /\ callQueue' = [callQueue EXCEPT ![ch] = Tail(@)]
          /\ UNCHANGED <<begun, pending, worker, inbox, executing, outbox>>
      BY <1>1, <1>5 DEF HC!Begin, HC!thread
    <2>3. /\ callQueue' \in [HC!Channels -> Seq(HC!CallIds)] /\ QueuedOnce'
          /\ callQueue["wmi"] = <<>> => callQueue'["wmi"] = <<>>
      <3> DEFINE first == {id}
      <3>1. /\ Head(callQueue[ch]) \in first
            /\ \A i \in first : i = HC!CleanupCall \/ i = Head(callQueue[ch])
            /\ HC!Settle(first, outcome)
        BY <2>1
      <3>2. callQueue[ch] # <<>> /\ calls' = calls
        BY <1>1
      <3> HIDE DEF first
      <3> QED
        BY <2>2, <3>1, <3>2, QueueMovesOn
    <2>4. /\ result' \in [HC!Ids -> {"none", "ok", "error", "restart"}] /\ SettledStay
          /\ \A i \in HC!Ids : result[i] # "none" => result'[i] # "none"
          /\ \A i \in HC!Ids : i # id => result'[i] = result[i]
      BY <1>2, <2>1, SettleKeeps
    <2>5. ChannelTypes'
      BY <1>1, <2>2, <2>3, <2>4 DEF ChannelInv, ChannelTypes
    <2>6. PendingIsBegun'
      <3>1. \A d \in HC!Channels : d # ch => callQueue'[d] = callQueue[d]
        BY <2>2 DEF ChannelInv, ChannelTypes
      <3> QED
        BY <1>1, <1>4, <2>2, <3>1 DEF ChannelInv, PendingIsBegun
    <2>7. CleanupInOrder'
      BY <1>1, <1>2, <2>2, <2>3, <2>4 DEF ChannelInv, CleanupInOrder
    <2>8. FailureIsLatched' /\ OneAtATime'
      BY <1>1, <2>2 DEF ChannelInv, FailureIsLatched, OneAtATime
    <2>9. GivenUp'
      <3>1. \A i \in DOMAIN inbox["cpuoc"] : inbox["cpuoc"][i] \in HC!Ids
        BY <1>2 DEF ChannelInv, ChannelTypes
      <3> QED
        BY <2>2, <2>4, <3>1 DEF ChannelInv, GivenUp
    <2> QED
      BY <2>3, <2>4, <2>5, <2>6, <2>7, <2>8, <2>9 DEF ChannelInv
  <1>6. CASE ~HC!Refused(ch)
    <2>1. /\ begun' = [begun EXCEPT ![ch] = TRUE] /\ HC!Post(ch, id)
          /\ UNCHANGED <<callQueue, result>> /\ ~failure[ch] /\ ~closed[ch]
      BY <1>1, <1>6 DEF HC!Begin, HC!Refused
    <2>2. /\ pending' \in [HC!Channels -> SUBSET HC!Ids]
          /\ \A d \in HC!Channels : pending'[d] = IF d = ch THEN {id} ELSE pending[d]
          /\ inbox' \in [HC!Channels -> Seq(HC!Ids)]
          /\ worker' \in [HC!Channels -> {"none", "alive", "terminated"}]
          /\ executing' = executing /\ outbox' = outbox
          /\ \A d \in HC!Channels : d # ch => worker'[d] = worker[d]
          /\ worker'["cpuoc"] # "terminated" /\ GivenUp' /\ OneAtATime'
      BY <1>2, <1>4, <2>1, PostKeeps
    <2>3. /\ begun' \in [HC!Channels -> BOOLEAN] /\ begun'[ch]
          /\ \A d \in HC!Channels : d # ch => begun'[d] = begun[d]
      BY <2>1 DEF ChannelInv, ChannelTypes
    <2>4. ChannelTypes'
      BY <1>1, <2>1, <2>2, <2>3 DEF ChannelInv, ChannelTypes
    <2>5. QueuedOnce'
      BY <1>1, <2>1 DEF ChannelInv, QueuedOnce
    <2>6. PendingIsBegun'
      <3> SUFFICES ASSUME NEW d \in HC!Channels
                   PROVE  /\ begun'[d] => callQueue[d] # <<>>
                          /\ \A i \in pending'[d] :
                                \/ begun'[d] /\ i = Head(callQueue[d])
                                \/ d = "wmi" /\ i = HC!CleanupCall
        BY <2>1 DEF PendingIsBegun
      <3>1. CASE d = ch
        BY <1>1, <2>2, <2>3, <3>1
      <3>2. CASE d # ch
        BY <2>2, <2>3, <3>2 DEF ChannelInv, PendingIsBegun
      <3> QED
        BY <3>1, <3>2
    <2>7. CleanupInOrder'
      BY <1>1, <1>2, <2>1, <2>2 DEF ChannelInv, CleanupInOrder
    <2>8. FailureIsLatched'
      BY <1>1, <1>2, <2>1, <2>2 DEF ChannelInv, FailureIsLatched
    <2>9. SettledStay
      BY <2>1 DEF SettledStay
    <2> QED
      BY <2>2, <2>4, <2>5, <2>6, <2>7, <2>8, <2>9 DEF ChannelInv
  <1> QED
    BY <1>5, <1>6

\* A worker takes a request, or a native call returns.
LEMMA ThreadKeeps ==
    ASSUME ChannelInv, NEW ch \in HC!Channels,
           \/ HC!WorkerStarts(ch)
           \/ \E answer \in {"ok", "error", "fatal"} : HC!NativeReturns(ch, answer)
    PROVE  ChannelInv' /\ SettledStay
  <1>1. UNCHANGED <<calls, callQueue, begun, pending, worker, failure, closed, result, cleanup>>
    BY DEF HC!WorkerStarts, HC!NativeReturns
  <1>2. /\ inbox \in [HC!Channels -> Seq(HC!Ids)]
        /\ executing \in [HC!Channels -> SUBSET HC!Ids]
        /\ outbox \in [HC!Channels -> Seq(Replies)] /\ inbox[ch] \in Seq(HC!Ids)
        /\ outbox[ch] \in Seq(Replies) /\ executing[ch] \in SUBSET HC!Ids
        /\ "wmi" \in HC!Channels /\ "cpuoc" \in HC!Channels
    BY DEF ChannelInv, ChannelTypes, HC!Channels
  <1>3. QueuedOnce' /\ PendingIsBegun' /\ CleanupInOrder' /\ FailureIsLatched' /\ SettledStay
    BY <1>1 DEF ChannelInv, QueuedOnce, PendingIsBegun, CleanupInOrder, FailureIsLatched,
                SettledStay
  <1>4. CASE HC!WorkerStarts(ch)
    <2> DEFINE id == Head(inbox[ch])
    <2>1. /\ inbox[ch] # <<>> /\ executing[ch] = {} /\ worker[ch] = "alive" /\ outbox' = outbox
          /\ executing' = [executing EXCEPT ![ch] = {id}]
          /\ inbox' = [inbox EXCEPT ![ch] = Tail(@)]
      BY <1>4 DEF HC!WorkerStarts
    <2>2. /\ id \in HC!Ids /\ Tail(inbox[ch]) \in Seq(HC!Ids)
          /\ \A i \in DOMAIN Tail(inbox[ch]) :
                i + 1 \in DOMAIN inbox[ch] /\ Tail(inbox[ch])[i] = inbox[ch][i + 1]
      BY <1>2, <2>1, TailPlaces
    <2>3. /\ inbox' \in [HC!Channels -> Seq(HC!Ids)]
          /\ executing' \in [HC!Channels -> SUBSET HC!Ids]
          /\ inbox'[ch] = Tail(inbox[ch]) /\ executing'[ch] = {id}
          /\ \A d \in HC!Channels :
                d # ch => inbox'[d] = inbox[d] /\ executing'[d] = executing[d]
      BY <1>2, <2>1, <2>2
    <2>4. ChannelTypes'
      BY <1>1, <2>1, <2>3 DEF ChannelInv, ChannelTypes
    <2>5. GivenUp'
      <3>1. CASE ch = "cpuoc"
        <4> SUFFICES ASSUME NEW i \in DOMAIN inbox'["cpuoc"]
                     PROVE  \/ inbox'["cpuoc"][i] \in pending["cpuoc"]
                            \/ result[inbox'["cpuoc"][i]] # "none"
          BY <1>1 DEF GivenUp
        <4>1. i + 1 \in DOMAIN inbox["cpuoc"] /\ inbox'["cpuoc"][i] = inbox["cpuoc"][i + 1]
          BY <2>2, <2>3, <3>1
        <4> QED
          BY <4>1 DEF ChannelInv, GivenUp
      <3>2. CASE ch # "cpuoc"
        <4>1. inbox'["cpuoc"] = inbox["cpuoc"]
          BY <1>2, <2>3, <3>2
        <4> QED
          BY <1>1, <4>1 DEF ChannelInv, GivenUp
      <3> QED
        BY <3>1, <3>2
    <2>6. OneAtATime'
      <3>1. CASE ch = "wmi"
        <4>1. PICK i \in pending["wmi"] :
                inbox["wmi"] = <<i>> /\ outbox["wmi"] = <<>>
          BY <2>1, <3>1 DEF ChannelInv, OneAtATime
        <4>2. id = i /\ Tail(inbox["wmi"]) = <<>>
          BY <3>1, <4>1
        <4>3. inbox'["wmi"] = <<>> /\ executing'["wmi"] = {i} /\ outbox'["wmi"] = <<>>
          BY <2>1, <2>3, <3>1, <4>1, <4>2
        <4>4. worker'["wmi"] = "alive" /\ pending' = pending
          BY <1>1, <2>1, <3>1
        <4> QED
          BY <4>1, <4>3, <4>4 DEF OneAtATime
      <3>2. CASE ch # "wmi"
        <4>1. inbox'["wmi"] = inbox["wmi"] /\ executing'["wmi"] = executing["wmi"]
          BY <1>2, <2>3, <3>2
        <4> QED
          BY <1>1, <2>1, <4>1 DEF ChannelInv, OneAtATime
      <3> QED
        BY <3>1, <3>2
    <2> QED
      BY <1>3, <2>4, <2>5, <2>6 DEF ChannelInv
  <1>5. ASSUME NEW answer \in {"ok", "error", "fatal"}, HC!NativeReturns(ch, answer)
        PROVE  ChannelInv'
    <2> DEFINE reply == [id |-> CHOOSE id \in executing[ch] : TRUE, answer |-> answer]
    <2>1. /\ executing[ch] # {} /\ executing' = [executing EXCEPT ![ch] = {}] /\ inbox' = inbox
          /\ outbox' = [outbox EXCEPT ![ch] =
                IF worker[ch] = "alive" THEN Append(@, reply) ELSE @]
      BY <1>5 DEF HC!NativeReturns
    <2>2. /\ reply \in Replies /\ reply.id \in executing[ch]
          /\ Append(outbox[ch], reply) \in Seq(Replies)
      <3>1. (CHOOSE id \in executing[ch] : TRUE) \in executing[ch]
        BY <2>1
      <3>2. reply \in Replies
        BY <1>2, <3>1 DEF Replies
      <3> QED
        BY <1>2, <3>1, <3>2
    <2> HIDE DEF reply
    <2>3. /\ executing' \in [HC!Channels -> SUBSET HC!Ids] /\ executing'[ch] = {}
          /\ \A d \in HC!Channels : d # ch => executing'[d] = executing[d]
      BY <1>2, <2>1
    <2>4. /\ outbox' \in [HC!Channels -> Seq(Replies)]
          /\ outbox'[ch] =
                IF worker[ch] = "alive" THEN Append(outbox[ch], reply) ELSE outbox[ch]
          /\ \A d \in HC!Channels : d # ch => outbox'[d] = outbox[d]
      BY <1>2, <2>1, <2>2
    <2>5. ChannelTypes'
      BY <1>1, <2>1, <2>3, <2>4 DEF ChannelInv, ChannelTypes
    <2>6. GivenUp'
      BY <1>1, <2>1 DEF ChannelInv, GivenUp
    <2>7. OneAtATime'
      <3>1. CASE ch = "wmi" /\ worker["wmi"] # "terminated"
        <4>1. PICK i \in pending["wmi"] :
                inbox["wmi"] = <<>> /\ executing["wmi"] = {i} /\ outbox["wmi"] = <<>>
          BY <2>1, <3>1 DEF ChannelInv, OneAtATime
        <4>2. reply.id = i
          BY <2>2, <3>1, <4>1
        <4>3. worker["wmi"] = "alive"
          BY <1>2, <3>1, <4>1 DEF ChannelInv, OneAtATime, ChannelTypes
        <4>4. outbox'["wmi"] = <<reply>>
          BY <2>4, <3>1, <4>1, <4>3
        <4>5. /\ inbox'["wmi"] = <<>> /\ executing'["wmi"] = {} /\ worker'["wmi"] = "alive"
              /\ pending' = pending
          BY <1>1, <2>1, <2>3, <3>1, <4>1, <4>3
        <4> QED
          BY <2>2, <4>1, <4>2, <4>4, <4>5 DEF OneAtATime
      <3>2. CASE ch = "wmi" /\ worker["wmi"] = "terminated"
        BY <1>1, <3>2 DEF ChannelInv, OneAtATime
      <3>3. CASE ch # "wmi"
        <4>1. outbox'["wmi"] = outbox["wmi"] /\ executing'["wmi"] = executing["wmi"]
          BY <1>2, <2>3, <2>4, <3>3
        <4> QED
          BY <1>1, <2>1, <4>1 DEF ChannelInv, OneAtATime
      <3> QED
        BY <3>1, <3>2, <3>3
    <2> QED
      BY <1>3, <2>5, <2>6, <2>7 DEF ChannelInv
  <1> QED
    BY <1>3, <1>4, <1>5

\* A reply settles the request that waits for it, once, or fails the channel.
LEMMA ReceiveKeeps ==
    ASSUME ChannelInv, NEW ch \in HC!Channels, HC!Receive(ch)
    PROVE  ChannelInv' /\ SettledStay
  <1> DEFINE reply == Head(outbox[ch])
             rest == [outbox EXCEPT ![ch] = Tail(@)]
  <1>1. outbox[ch] # <<>> /\ UNCHANGED <<calls, closed, cleanup>>
    BY DEF HC!Receive
  <1>2. /\ outbox \in [HC!Channels -> Seq(Replies)] /\ outbox[ch] \in Seq(Replies)
        /\ "wmi" \in HC!Channels /\ "cpuoc" \in HC!Channels /\ HC!CleanupCall \in HC!Ids
    BY DEF ChannelInv, ChannelTypes, HC!Channels, HC!Ids
  <1>3. reply \in Replies /\ Tail(outbox[ch]) \in Seq(Replies)
    BY <1>1, <1>2
  <1>4. /\ rest \in [HC!Channels -> Seq(Replies)] /\ rest[ch] = Tail(outbox[ch])
        /\ \A d \in HC!Channels : d # ch => rest[d] = outbox[d]
    BY <1>2, <1>3
  <1>5. CASE ~HC!Awaited(ch, reply.id)
    <2>1. /\ outbox' = rest
          /\ UNCHANGED <<callQueue, begun, pending, inbox, executing, worker, failure, result>>
      BY <1>5 DEF HC!Receive
    <2> HIDE DEF rest
    <2>2. ChannelTypes'
      BY <1>1, <1>4, <2>1 DEF ChannelInv, ChannelTypes
    <2>3. /\ QueuedOnce' /\ PendingIsBegun' /\ CleanupInOrder' /\ FailureIsLatched' /\ GivenUp'
          /\ SettledStay
      BY <1>1, <2>1 DEF ChannelInv, QueuedOnce, PendingIsBegun, CleanupInOrder,
                        FailureIsLatched, GivenUp, SettledStay
    <2>4. OneAtATime'
      <3>1. CASE ch = "wmi"
        <4>1. worker["wmi"] = "terminated"
          <5> SUFFICES ASSUME worker["wmi"] # "terminated" PROVE FALSE
            OBVIOUS
          <5>1. PICK i \in pending["wmi"], r \in Replies : r.id = i /\ outbox["wmi"] = <<r>>
            BY <1>1, <3>1 DEF ChannelInv, OneAtATime
          <5>2. reply = r
            BY <3>1, <5>1
          <5> QED
            BY <1>5, <3>1, <5>1, <5>2 DEF HC!Awaited
        <4>2. worker["wmi"] # "none"
          BY <4>1
        <4> QED
          BY <2>1, <4>1, <4>2 DEF OneAtATime
      <3>2. CASE ch # "wmi"
        <4>1. outbox'["wmi"] = outbox["wmi"]
          BY <1>2, <1>4, <2>1, <3>2
        <4> QED
          BY <2>1, <4>1 DEF ChannelInv, OneAtATime
      <3> QED
        BY <3>1, <3>2
    <2> QED
      BY <2>2, <2>3, <2>4 DEF ChannelInv
  <1>6. CASE HC!Awaited(ch, reply.id) /\ reply.answer = "fatal"
    <2>1. HC!Fail(ch)
      BY <1>6 DEF HC!Receive
    <2> QED
      BY <1>1, <2>1, FailKeeps
  <1>7. CASE HC!Awaited(ch, reply.id) /\ reply.answer # "fatal"
    <2> DEFINE ids == {reply.id}
    <2>1. /\ outbox' = rest /\ pending' = [pending EXCEPT ![ch] = @ \ ids]
          /\ HC!Settle(ids, reply.answer) /\ HC!Advances(ch, ids)
          /\ UNCHANGED <<inbox, executing, worker, failure>>
      BY <1>7 DEF HC!Receive
    <2>2. ids \in SUBSET pending[ch] /\ reply.answer \in {"ok", "error", "restart"}
      BY <1>3, <1>7 DEF HC!Awaited, Replies
    <2>3. reply.id \in ids
      OBVIOUS
    <2> HIDE DEF ids, rest
    <2>4. /\ callQueue' \in [HC!Channels -> Seq(HC!CallIds)]
          /\ begun' \in [HC!Channels -> BOOLEAN]
          /\ pending' \in [HC!Channels -> SUBSET HC!Ids]
          /\ \A d \in HC!Channels :
            pending'[d] = IF d = ch THEN pending[ch] \ ids ELSE pending[d]
          /\ result' \in [HC!Ids -> {"none", "ok", "error", "restart"}]
          /\ QueuedOnce' /\ PendingIsBegun' /\ SettledStay
          /\ callQueue["wmi"] = <<>> => callQueue'["wmi"] = <<>>
          /\ \A id \in ids : result'[id] # "none"
          /\ \A id \in HC!Ids : id \notin ids => result'[id] = result[id]
      <3>1. PICK outcome \in {"ok", "error", "restart"} : HC!Settle(ids, outcome)
        BY <2>1, <2>2
      <3>2. /\ calls' = calls /\ pending' = [pending EXCEPT ![ch] = @ \ ids]
            /\ HC!Advances(ch, ids)
        BY <1>1, <2>1
      <3> QED
        BY <2>2, <3>1, <3>2, RequestsSettle, ZenonT(40)
    <2>5. ChannelTypes'
      BY <1>1, <1>4, <2>1, <2>4 DEF ChannelInv, ChannelTypes
    <2>6. CleanupInOrder'
      <3>1. CASE HC!CleanupCall \in ids
        <4>1. ch = "wmi"
          <5>1. callQueue[ch] # <<>> => Head(callQueue[ch]) # HC!CleanupCall
            BY HeadIsUnsettled
          <5> QED
            BY <2>2, <3>1, <5>1 DEF ChannelInv, PendingIsBegun
        <4>2. cleanup \notin {"no", "drain"}
          BY <2>2, <3>1, <4>1 DEF ChannelInv, CleanupInOrder
        <4>3. HC!CleanupCall \notin pending'["wmi"]
          BY <1>2, <2>4, <3>1, <4>1
        <4> QED
          BY <1>1, <2>4, <4>2, <4>3 DEF ChannelInv, CleanupInOrder
      <3>2. CASE HC!CleanupCall \notin ids
        <4>1. result'[HC!CleanupCall] = result[HC!CleanupCall]
          BY <1>2, <2>4, <3>2
        <4>2. HC!CleanupCall \in pending'["wmi"] => HC!CleanupCall \in pending["wmi"]
          BY <1>2, <2>4
        <4> QED
          BY <1>1, <2>4, <4>1, <4>2 DEF ChannelInv, CleanupInOrder
      <3> QED
        BY <3>1, <3>2
    <2>7. FailureIsLatched'
      <3>1. pending["cpuoc"] = {} => pending'["cpuoc"] = {}
        BY <1>2, <2>4
      <3> QED
        BY <1>1, <2>1, <3>1 DEF ChannelInv, FailureIsLatched
    <2>8. GivenUp'
      <3>1. \A i \in DOMAIN inbox["cpuoc"] : inbox["cpuoc"][i] \in HC!Ids
        BY <1>2 DEF ChannelInv, ChannelTypes
      <3>2. \A id \in HC!Ids : result[id] # "none" => result'[id] # "none"
        BY <2>4 DEF SettledStay
      <3>3. \A id \in pending["cpuoc"] : id \in pending'["cpuoc"] \/ result'[id] # "none"
        BY <1>2, <2>4
      <3> QED
        BY <2>1, <3>1, <3>2, <3>3 DEF ChannelInv, GivenUp
    <2>9. OneAtATime'
      <3>1. CASE ch = "wmi" /\ worker["wmi"] # "terminated"
        <4>1. PICK r \in Replies :
                inbox["wmi"] = <<>> /\ executing["wmi"] = {} /\ outbox["wmi"] = <<r>>
          BY <1>1, <3>1 DEF ChannelInv, OneAtATime
        <4>2. Tail(outbox["wmi"]) = <<>>
          BY <4>1
        <4>3. inbox'["wmi"] = <<>> /\ executing'["wmi"] = {} /\ outbox'["wmi"] = <<>>
          BY <1>4, <2>1, <3>1, <4>1, <4>2
        <4>4. worker["wmi"] # "none"
          BY <2>2, <2>3, <3>1 DEF ChannelInv, OneAtATime
        <4> QED
          BY <2>1, <4>3, <4>4 DEF OneAtATime
      <3>2. CASE ch = "wmi" /\ worker["wmi"] = "terminated"
        <4>1. worker'["wmi"] = "terminated"
          BY <2>1, <3>2
        <4>2. worker'["wmi"] # "none"
          BY <4>1
        <4> QED
          BY <4>1, <4>2 DEF OneAtATime
      <3>3. CASE ch # "wmi"
        <4>1. outbox'["wmi"] = outbox["wmi"] /\ pending'["wmi"] = pending["wmi"]
          BY <1>2, <1>4, <2>1, <2>4, <3>3
        <4> QED
          BY <2>1, <4>1 DEF ChannelInv, OneAtATime
      <3> QED
        BY <3>1, <3>2, <3>3
    <2> QED
      BY <2>4, <2>5, <2>6, <2>7, <2>8, <2>9 DEF ChannelInv
  <1> QED
    BY <1>5, <1>6, <1>7

\* The cleanup waits for the WMI queue and for its own request, and closes the
\* channels one after the other.
LEMMA CleanupKeeps ==
    ASSUME ChannelInv, HC!Cleanup
    PROVE  ChannelInv' /\ SettledStay
  <1>1. "wmi" \in HC!Channels /\ "cpuoc" \in HC!Channels /\ HC!CleanupCall \in HC!Ids
        /\ \A ch \in HC!Channels : ch = "wmi" \/ ch = "cpuoc"
    BY DEF HC!Channels, HC!Ids
  <1>2. CASE HC!CleanupStarts
    <2>1. /\ cleanup = "no" /\ cleanup' = "drain"
          /\ UNCHANGED <<calls, callQueue, begun, pending, inbox, executing, outbox, worker,
                         failure, closed, result>>
      BY <1>2 DEF HC!CleanupStarts, HC!thread
    <2>2. ChannelTypes'
      BY <2>1 DEF ChannelInv, ChannelTypes
    <2>3. CleanupInOrder'
      BY <2>1 DEF ChannelInv, CleanupInOrder
    <2> QED
      BY <2>1, <2>2, <2>3 DEF ChannelInv, QueuedOnce, PendingIsBegun, FailureIsLatched, GivenUp,
                              OneAtATime, SettledStay
  <1>3. CASE HC!WmiCleanup
    <2>1. /\ cleanup = "drain" /\ callQueue["wmi"] = <<>> /\ cleanup' = "wmi"
          /\ UNCHANGED <<calls, callQueue, begun, failure, closed>>
      BY <1>3 DEF HC!WmiCleanup
    <2>2. pending["wmi"] = {} /\ ~closed["wmi"] /\ result[HC!CleanupCall] = "none"
      BY <1>1, <2>1 DEF ChannelInv, PendingIsBegun, CleanupInOrder
    <2>3. CASE worker["wmi"] # "none" /\ ~failure["wmi"]
      <3>1. HC!Post("wmi", HC!CleanupCall) /\ result' = result
        BY <1>3, <2>3 DEF HC!WmiCleanup
      <3>2. /\ pending' \in [HC!Channels -> SUBSET HC!Ids]
            /\ \A d \in HC!Channels :
                pending'[d] = IF d = "wmi" THEN {HC!CleanupCall} ELSE pending[d]
            /\ inbox' \in [HC!Channels -> Seq(HC!Ids)]
            /\ worker' \in [HC!Channels -> {"none", "alive", "terminated"}]
            /\ executing' = executing /\ outbox' = outbox
            /\ \A d \in HC!Channels : d # "wmi" => worker'[d] = worker[d]
            /\ worker'["cpuoc"] # "terminated" /\ GivenUp' /\ OneAtATime'
        BY <1>1, <2>2, <2>3, <3>1, PostKeeps, ZenonT(40)
      <3>3. ChannelTypes'
        BY <2>1, <3>1, <3>2 DEF ChannelInv, ChannelTypes
      <3>4. PendingIsBegun'
        <4> SUFFICES ASSUME NEW d \in HC!Channels
                     PROVE  /\ begun[d] => callQueue[d] # <<>>
                            /\ \A i \in pending'[d] :
                                  \/ begun[d] /\ i = Head(callQueue[d])
                                  \/ d = "wmi" /\ i = HC!CleanupCall
          BY <2>1 DEF PendingIsBegun
        <4>1. begun[d] => callQueue[d] # <<>>
          BY DEF ChannelInv, PendingIsBegun
        <4>2. CASE d = "wmi"
          BY <1>1, <3>2, <4>1, <4>2
        <4>3. CASE d # "wmi"
          BY <3>2, <4>1, <4>3 DEF ChannelInv, PendingIsBegun
        <4> QED
          BY <4>2, <4>3
      <3>5. CleanupInOrder'
        BY <2>1, <2>2, <3>1 DEF ChannelInv, CleanupInOrder
      <3>6. FailureIsLatched'
        BY <1>1, <2>1, <2>2, <2>3, <3>2 DEF ChannelInv, FailureIsLatched
      <3>7. QueuedOnce' /\ SettledStay
        BY <2>1, <3>1 DEF ChannelInv, QueuedOnce, SettledStay
      <3> QED
        BY <3>2, <3>3, <3>4, <3>5, <3>6, <3>7 DEF ChannelInv
    <2>4. CASE ~(worker["wmi"] # "none" /\ ~failure["wmi"])
      <3> DEFINE own == {HC!CleanupCall}
      <3>1. HC!Settle(own, "ok") /\ UNCHANGED <<pending, worker, inbox, executing, outbox>>
        BY <1>3, <2>4 DEF HC!WmiCleanup, HC!thread
      <3>2. \A id \in own : id = HC!CleanupCall
        OBVIOUS
      <3> HIDE DEF own
      <3>3. /\ result' \in [HC!Ids -> {"none", "ok", "error", "restart"}] /\ SettledStay
            /\ \A id \in HC!Ids : result[id] # "none" => result'[id] # "none"
            /\ \A id \in HC!Ids : id # HC!CleanupCall => result'[id] = result[id]
        BY <2>2, <3>1, <3>2, SettleKeeps
      <3>4. ChannelTypes'
        BY <2>1, <3>1, <3>3 DEF ChannelInv, ChannelTypes
      <3>5. QueuedOnce'
        <4>1. \A id \in HC!CallIds : id \in HC!Ids /\ id # HC!CleanupCall
          BY DEF HC!CallIds, HC!Ids, HC!CleanupCall
        <4>2. \A id \in HC!CallIds : result'[id] = result[id]
          BY <3>3, <4>1
        <4>3. \A d \in HC!Channels : \A i \in DOMAIN callQueue[d] :
                callQueue[d][i] \in HC!CallIds
          BY DEF ChannelInv, ChannelTypes
        <4> QED
          BY <2>1, <4>2, <4>3 DEF ChannelInv, QueuedOnce
      <3>6. CleanupInOrder'
        BY <2>1, <2>2, <3>1 DEF ChannelInv, CleanupInOrder
      <3>7. GivenUp'
        <4>1. \A i \in DOMAIN inbox["cpuoc"] : inbox["cpuoc"][i] \in HC!Ids
          BY <1>1 DEF ChannelInv, ChannelTypes
        <4> QED
          BY <3>1, <3>3, <4>1 DEF ChannelInv, GivenUp
      <3>8. PendingIsBegun' /\ FailureIsLatched' /\ OneAtATime'
        BY <2>1, <3>1 DEF ChannelInv, PendingIsBegun, FailureIsLatched, OneAtATime
      <3> QED
        BY <3>3, <3>4, <3>5, <3>6, <3>7, <3>8 DEF ChannelInv
    <2> QED
      BY <2>3, <2>4
  <1>4. CASE HC!WmiCleanupEnds
    <2>1. /\ cleanup = "wmi" /\ cleanup' = "cpuoc" /\ result[HC!CleanupCall] # "none"
          /\ closed' = [closed EXCEPT !["wmi"] = TRUE]
          /\ worker' = [worker EXCEPT !["wmi"] = IF @ = "none" THEN @ ELSE "terminated"]
          /\ inbox' = [inbox EXCEPT !["wmi"] = <<>>]
          /\ outbox' = [outbox EXCEPT !["wmi"] = <<>>]
          /\ UNCHANGED <<executing, calls, callQueue, begun, pending, failure, result>>
      BY <1>4 DEF HC!WmiCleanupEnds, HC!Terminate
    <2>2. /\ closed' \in [HC!Channels -> BOOLEAN] /\ closed'["cpuoc"] = closed["cpuoc"]
          /\ worker' \in [HC!Channels -> {"none", "alive", "terminated"}]
          /\ worker'["wmi"] # "alive" /\ worker'["cpuoc"] = worker["cpuoc"]
          /\ worker'["wmi"] # "terminated" => worker["wmi"] = "none"
      BY <1>1, <2>1 DEF ChannelInv, ChannelTypes
    <2>3. /\ inbox' \in [HC!Channels -> Seq(HC!Ids)]
          /\ outbox' \in [HC!Channels -> Seq(Replies)]
          /\ inbox'["cpuoc"] = inbox["cpuoc"] /\ inbox'["wmi"] = <<>> /\ outbox'["wmi"] = <<>>
      <3>1. <<>> \in Seq(HC!Ids) /\ <<>> \in Seq(Replies)
        OBVIOUS
      <3>2. inbox \in [HC!Channels -> Seq(HC!Ids)] /\ outbox \in [HC!Channels -> Seq(Replies)]
        BY DEF ChannelInv, ChannelTypes
      <3> QED
        BY <1>1, <2>1, <3>1, <3>2
    <2>4. ChannelTypes'
      BY <2>1, <2>2, <2>3 DEF ChannelInv, ChannelTypes
    <2>5. CleanupInOrder'
      BY <2>1 DEF ChannelInv, CleanupInOrder
    <2>6. FailureIsLatched'
      BY <2>1, <2>2 DEF ChannelInv, FailureIsLatched
    <2>7. QueuedOnce' /\ PendingIsBegun' /\ SettledStay
      BY <2>1 DEF ChannelInv, QueuedOnce, PendingIsBegun, SettledStay
    <2>8. GivenUp'
      BY <2>1, <2>3 DEF ChannelInv, GivenUp
    <2>9. OneAtATime'
      <3>1. CASE worker["wmi"] = "none"
        <4>1. pending["wmi"] = {} /\ executing["wmi"] = {}
          BY <3>1 DEF ChannelInv, OneAtATime
        <4> QED
          BY <2>1, <2>3, <4>1 DEF OneAtATime
      <3>2. CASE worker'["wmi"] = "terminated"
        <4>1. worker'["wmi"] # "none"
          BY <3>2
        <4> QED
          BY <3>2, <4>1 DEF OneAtATime
      <3> QED
        BY <2>2, <3>1, <3>2
    <2> QED
      BY <2>4, <2>5, <2>6, <2>7, <2>8, <2>9 DEF ChannelInv
  <1>5. CASE HC!CpuCleanup
    <2>1. /\ cleanup = "cpuoc" /\ cleanup' = "done"
          /\ closed' = [closed EXCEPT !["cpuoc"] = TRUE]
          /\ pending' = [pending EXCEPT !["cpuoc"] = @ \ pending["cpuoc"]]
          /\ HC!Settle(pending["cpuoc"], "error") /\ HC!Advances("cpuoc", pending["cpuoc"])
          /\ UNCHANGED <<calls, inbox, executing, outbox, worker, failure>>
      BY <1>1, <1>5 DEF HC!CpuCleanup, HC!thread, ChannelInv, ChannelTypes
    <2>2. /\ callQueue' \in [HC!Channels -> Seq(HC!CallIds)]
          /\ begun' \in [HC!Channels -> BOOLEAN]
          /\ pending' \in [HC!Channels -> SUBSET HC!Ids]
          /\ \A d \in HC!Channels : pending'[d] = IF d = "cpuoc" THEN {} ELSE pending[d]
          /\ result' \in [HC!Ids -> {"none", "ok", "error", "restart"}]
          /\ QueuedOnce' /\ PendingIsBegun' /\ SettledStay
          /\ callQueue["wmi"] = <<>> => callQueue'["wmi"] = <<>>
          /\ \A id \in pending["cpuoc"] : result'[id] # "none"
          /\ \A id \in HC!Ids : id \notin pending["cpuoc"] => result'[id] = result[id]
      BY <1>1, <2>1, RequestsSettle
    <2>3. closed' \in [HC!Channels -> BOOLEAN] /\ closed'["wmi"] = closed["wmi"]
      BY <1>1, <2>1 DEF ChannelInv, ChannelTypes
    <2>4. ChannelTypes'
      BY <2>1, <2>2, <2>3 DEF ChannelInv, ChannelTypes
    <2>5. CleanupInOrder'
      <3>1. HC!CleanupCall \notin pending["cpuoc"]
        <4>1. callQueue["cpuoc"] # <<>> => Head(callQueue["cpuoc"]) # HC!CleanupCall
          BY <1>1, HeadIsUnsettled
        <4> QED
          BY <1>1, <4>1 DEF ChannelInv, PendingIsBegun
      <3> QED
        BY <1>1, <2>1, <2>2, <3>1 DEF ChannelInv, CleanupInOrder
    <2>6. FailureIsLatched'
      BY <1>1, <2>1, <2>2, <2>3 DEF ChannelInv, FailureIsLatched
    <2>7. GivenUp'
      <3>1. \A i \in DOMAIN inbox["cpuoc"] : inbox["cpuoc"][i] \in HC!Ids
        BY <1>1 DEF ChannelInv, ChannelTypes
      <3>2. \A id \in HC!Ids : result[id] # "none" => result'[id] # "none"
        BY <2>2 DEF SettledStay
      <3> QED
        BY <2>1, <2>2, <3>1, <3>2 DEF ChannelInv, GivenUp
    <2>8. OneAtATime'
      <3>1. pending'["wmi"] = pending["wmi"]
        BY <1>1, <2>2
      <3> QED
        BY <2>1, <3>1 DEF ChannelInv, OneAtATime
    <2> QED
      BY <2>2, <2>4, <2>5, <2>6, <2>7, <2>8 DEF ChannelInv
  <1> QED
    BY <1>2, <1>3, <1>4, <1>5 DEF HC!Cleanup

\* Nothing is called at first.
LEMMA ChannelsBegin ==
    ASSUME HC!Init
    PROVE  ChannelInv
  <1>1. /\ calls = 0 /\ cleanup = "no"
        /\ \A ch \in HC!Channels :
            /\ callQueue[ch] = <<>> /\ ~begun[ch] /\ pending[ch] = {}
            /\ inbox[ch] = <<>> /\ executing[ch] = {} /\ outbox[ch] = <<>>
            /\ worker[ch] = "none" /\ ~failure[ch] /\ ~closed[ch]
    BY DEF HC!Init
  <1>2. /\ "wmi" \in HC!Channels /\ "cpuoc" \in HC!Channels /\ HC!CallIds \subseteq HC!Ids
        /\ HC!CleanupCall \in HC!Ids
        /\ \A id \in HC!Ids : result[id] = "none"
    BY DEF HC!Channels, HC!Ids, HC!Init
  <1>3. ChannelTypes
    <2>1. <<>> \in Seq(HC!CallIds) /\ <<>> \in Seq(HC!Ids) /\ <<>> \in Seq(Replies)
      OBVIOUS
    <2> QED
      BY <2>1 DEF HC!Init, ChannelTypes
  <1>4. QueuedOnce
    BY <1>1, <1>2 DEF QueuedOnce
  <1>5. PendingIsBegun /\ CleanupInOrder /\ FailureIsLatched /\ GivenUp /\ OneAtATime
    BY <1>1, <1>2 DEF PendingIsBegun, CleanupInOrder, FailureIsLatched, GivenUp, OneAtATime
  <1> QED
    BY <1>3, <1>4, <1>5 DEF ChannelInv

\* One step per action of the channels.
LEMMA ChannelStep ==
    ASSUME ChannelInv, [HC!Next]_HC!vars
    PROVE  ChannelInv' /\ SettledStay
  <1>1. ASSUME NEW ch \in HC!Channels, HC!Call(ch) PROVE ChannelInv' /\ SettledStay
    BY <1>1, CallKeeps
  <1>2. ASSUME NEW ch \in HC!Channels, HC!Begin(ch) PROVE ChannelInv' /\ SettledStay
    BY <1>2, BeginKeeps
  <1>3. ASSUME NEW ch \in HC!Channels,
               \/ HC!WorkerStarts(ch)
               \/ \E answer \in {"ok", "error", "fatal"} : HC!NativeReturns(ch, answer)
        PROVE  ChannelInv' /\ SettledStay
    BY <1>3, ThreadKeeps
  <1>4. ASSUME NEW ch \in HC!Channels, HC!Receive(ch) PROVE ChannelInv' /\ SettledStay
    BY <1>4, ReceiveKeeps
  <1>5. ASSUME NEW ch \in HC!Channels,
               HC!TimerFires(ch) \/ HC!WorkerDies(ch) PROVE ChannelInv' /\ SettledStay
    <2>1. HC!Fail(ch) /\ UNCHANGED <<calls, closed, cleanup>>
      BY <1>5 DEF HC!TimerFires, HC!WorkerDies
    <2> QED
      BY <2>1, FailKeeps
  <1>6. CASE HC!Cleanup
    BY <1>6, CleanupKeeps
  <1>7. CASE UNCHANGED HC!vars
    <2>1. UNCHANGED <<calls, callQueue, begun, pending, inbox, executing, outbox, worker,
                      failure, closed, result, cleanup>>
      BY <1>7 DEF HC!vars
    <2>2. ChannelTypes' /\ QueuedOnce' /\ PendingIsBegun'
      BY <2>1 DEF ChannelInv, ChannelTypes, QueuedOnce, PendingIsBegun
    <2>3. CleanupInOrder' /\ FailureIsLatched' /\ GivenUp' /\ OneAtATime' /\ SettledStay
      BY <2>1 DEF ChannelInv, CleanupInOrder, FailureIsLatched, GivenUp, OneAtATime, SettledStay
    <2> QED
      BY <2>2, <2>3 DEF ChannelInv
  <1> QED
    BY <1>1, <1>2, <1>3, <1>4, <1>5, <1>6, <1>7 DEF HC!Next

-----------------------------------------------------------------------------
\* However timeouts, replies, worker deaths and the cleanup fall: a call is in
\* at most one place of one queue until it settles, what a worker was sent and
\* waits for is the running call or the cleanup request, and the WMI worker has
\* at most one request, which waits for its reply.
THEOREM ChannelsHold == HC!Spec => []ChannelInv
  <1>1. HC!Init => ChannelInv
    BY ChannelsBegin
  <1>2. ChannelInv /\ [HC!Next]_HC!vars => ChannelInv'
    BY ChannelStep
  <1> QED
    BY <1>1, <1>2, PTL DEF HC!Spec

\* A promise settles once: no late reply, timeout, worker death or cleanup
\* changes how a call of native/index.ts settled.
THEOREM CallsSettleOnce == HC!Spec => [][SettledStay]_HC!vars
  <1>1. ChannelInv /\ [HC!Next]_HC!vars => [SettledStay]_HC!vars
    BY ChannelStep
  <1> QED
    BY <1>1, ChannelsHold, PTL DEF HC!Spec

\* Only the worker's own queue starts a native call.
LEMMA OnlyWorkersStart ==
    ASSUME ChannelInv, [HC!Next]_HC!vars, NEW ch \in HC!Channels, executing[ch] = {},
           executing'[ch] # {}
    PROVE  HC!WorkerStarts(ch)
  <1>1. executing \in [HC!Channels -> SUBSET HC!Ids]
    BY DEF ChannelInv, ChannelTypes
  <1>2. ASSUME NEW d \in HC!Channels, HC!WorkerStarts(d) PROVE d = ch
    BY <1>1, <1>2 DEF HC!WorkerStarts
  <1>3. ASSUME NEW d \in HC!Channels, NEW answer \in {"ok", "error", "fatal"},
               HC!NativeReturns(d, answer)
        PROVE  FALSE
    BY <1>1, <1>3 DEF HC!NativeReturns
  <1>4. ASSUME NEW d \in HC!Channels,
               HC!Call(d) \/ HC!Begin(d) \/ HC!Receive(d) \/ HC!TimerFires(d) \/ HC!WorkerDies(d)
        PROVE  FALSE
    BY <1>4 DEF HC!Call, HC!Begin, HC!Receive, HC!TimerFires, HC!WorkerDies, HC!Fail,
                HC!Terminate, HC!Post, HC!thread
  <1>5. ~HC!Cleanup
    BY DEF HC!Cleanup, HC!CleanupStarts, HC!WmiCleanup, HC!WmiCleanupEnds, HC!CpuCleanup,
           HC!Terminate, HC!Post, HC!thread
  <1> QED
    BY <1>2, <1>3, <1>4, <1>5 DEF HC!Next, HC!vars

\* Once a channel has failed or is closed, the WMI thread starts no native
\* call, and the CPU thread only one whose request was given up before.
THEOREM FailuresStopCalls == HC!Spec => FailureStopsCalls
  <1> DEFINE Stopped == \A ch \in HC!Channels :
        (failure[ch] \/ closed[ch]) /\ executing[ch] = {} /\ executing'[ch] # {}
            => ch = "cpuoc" /\ \A id \in executing'[ch] : result[id] # "none"
  <1>1. ChannelInv /\ [HC!Next]_HC!vars => Stopped
    <2> SUFFICES ASSUME ChannelInv, [HC!Next]_HC!vars, NEW ch \in HC!Channels,
                        failure[ch] \/ closed[ch], executing[ch] = {}, executing'[ch] # {}
                 PROVE  ch = "cpuoc" /\ \A id \in executing'[ch] : result[id] # "none"
      OBVIOUS
    <2>1. HC!WorkerStarts(ch)
      BY OnlyWorkersStart
    <2>2. worker[ch] = "alive" /\ inbox[ch] # <<>> /\ executing'[ch] = {Head(inbox[ch])}
      BY <2>1 DEF HC!WorkerStarts, ChannelInv, ChannelTypes
    <2>3. ch = "cpuoc"
      BY <2>2 DEF ChannelInv, FailureIsLatched, HC!Channels
    <2>4. 1 \in DOMAIN inbox[ch] /\ Head(inbox[ch]) = inbox[ch][1]
      BY <2>2, TailPlaces DEF ChannelInv, ChannelTypes
    <2>5. pending["cpuoc"] = {}
      BY <2>3 DEF ChannelInv, FailureIsLatched
    <2> QED
      BY <2>2, <2>3, <2>4, <2>5 DEF ChannelInv, GivenUp
  <1>2. ChannelInv /\ [HC!Next]_HC!vars => [Stopped]_HC!vars
    BY <1>1
  <1> QED
    BY <1>2, ChannelsHold, PTL DEF HC!Spec, FailureStopsCalls, HC!FailureStopsCalls

\* The cleanup never terminates a worker in the middle of a native call; only
\* a failure of the WMI channel does, and the CPU worker is never terminated.
THEOREM WorkersStopQuietly == HC!Spec => WorkersEndQuietly
  <1> DEFINE Quiet == \A ch \in HC!Channels :
        worker[ch] = "alive" /\ worker'[ch] = "terminated"
            => ch = "wmi" /\ (failure'[ch] \/ executing[ch] = {})
  <1>1. ChannelInv /\ [HC!Next]_HC!vars => Quiet
    <2> SUFFICES ASSUME ChannelInv, [HC!Next]_HC!vars, NEW ch \in HC!Channels,
                        worker[ch] = "alive", worker'[ch] = "terminated"
                 PROVE  ch = "wmi" /\ (failure'[ch] \/ executing[ch] = {})
      OBVIOUS
    <2>1. ChannelInv'
      BY ChannelStep
    <2>2. ch = "wmi"
      BY <2>1 DEF ChannelInv, FailureIsLatched, HC!Channels
    <2>3. /\ failure \in [HC!Channels -> BOOLEAN]
          /\ worker \in [HC!Channels -> {"none", "alive", "terminated"}]
      BY DEF ChannelInv, ChannelTypes
    <2>4. ASSUME NEW d \in HC!Channels, HC!Fail(d) PROVE failure'["wmi"]
      <3>1. CASE d = "wmi"
        BY <2>2, <2>3, <2>4, <3>1 DEF HC!Fail
      <3>2. CASE d # "wmi"
        BY <2>2, <2>4, <3>2 DEF HC!Fail
      <3> QED
        BY <3>1, <3>2
    <2>5. ASSUME NEW d \in HC!Channels, HC!Receive(d) \/ HC!TimerFires(d) \/ HC!WorkerDies(d)
          PROVE  failure'["wmi"]
      BY <2>2, <2>4, <2>5 DEF HC!Receive, HC!TimerFires, HC!WorkerDies
    <2>6. ASSUME NEW d \in HC!Channels, NEW id, HC!Post(d, id) PROVE FALSE
      BY <2>2, <2>3, <2>6 DEF HC!Post, HC!WithWorker
    <2>7. ASSUME NEW d \in HC!Channels,
                 \/ HC!Call(d) \/ HC!Begin(d) \/ HC!WorkerStarts(d)
                 \/ \E answer \in {"ok", "error", "fatal"} : HC!NativeReturns(d, answer)
          PROVE  FALSE
      <3>1. ~HC!Begin(d)
        BY <2>6 DEF HC!Begin
      <3> QED
        BY <2>7, <3>1 DEF HC!Call, HC!WorkerStarts, HC!NativeReturns
    <2>8. ~HC!CleanupStarts /\ ~HC!WmiCleanup /\ ~HC!CpuCleanup /\ ~UNCHANGED HC!vars
      <3>1. ~HC!WmiCleanup
        BY <2>2, <2>6 DEF HC!WmiCleanup
      <3> QED
        BY <3>1 DEF HC!CleanupStarts, HC!CpuCleanup, HC!vars
    <2>9. CASE HC!WmiCleanupEnds
      <3>1. cleanup = "wmi" /\ result[HC!CleanupCall] # "none"
        BY <2>9 DEF HC!WmiCleanupEnds
      <3>2. callQueue["wmi"] = <<>> /\ HC!CleanupCall \notin pending["wmi"]
        BY <3>1 DEF ChannelInv, CleanupInOrder
      <3>3. pending["wmi"] = {}
        BY <2>2, <3>2 DEF ChannelInv, PendingIsBegun
      <3> QED
        BY <2>2, <3>3 DEF ChannelInv, OneAtATime
    <2> QED
      BY <2>2, <2>5, <2>7, <2>8, <2>9 DEF HC!Next, HC!Cleanup
  <1>2. ChannelInv /\ [HC!Next]_HC!vars => [Quiet]_HC!vars
    BY <1>1
  <1> QED
    BY <1>2, ChannelsHold, PTL DEF HC!Spec, WorkersEndQuietly, HC!WorkersEndQuietly

-----------------------------------------------------------------------------
\* A call that was made is queued until it settles, and the running call of a
\* queue and the cleanup's request wait for a reply, so that a timer covers them.
QueuedIn(ch, id) == \E i \in DOMAIN callQueue[ch] : callQueue[ch][i] = id
CallsAreHeld ==
    /\ \A id \in HC!CallIds :
        id <= calls /\ result[id] = "none" => \E ch \in HC!Channels : QueuedIn(ch, id)
    /\ \A ch \in HC!Channels : begun[ch] => Head(callQueue[ch]) \in pending[ch]
    /\ cleanup = "wmi" /\ result[HC!CleanupCall] = "none" => HC!CleanupCall \in pending["wmi"]

\* No call hangs: the queue that holds it begins its next one, or the running
\* one has a timer; and so has the cleanup.
NoCallHangs ==
    /\ \A id \in HC!CallIds : id <= calls /\ result[id] = "none" =>
        \E ch \in HC!Channels : QueuedIn(ch, id) /\ (begun[ch] => HC!TimersOf(ch) # {})
    /\ cleanup = "wmi" /\ result[HC!CleanupCall] = "none" => HC!TimersOf("wmi") # {}

\* A shortened queue holds all but the call it lost.
LEMMA OthersStayQueued ==
    ASSUME ChannelInv, NEW ch \in HC!Channels, callQueue[ch] # <<>>,
           callQueue' = [callQueue EXCEPT ![ch] = Tail(@)], NEW d \in HC!Channels, NEW id,
           QueuedIn(d, id), id # Head(callQueue[ch])
    PROVE  QueuedIn(d, id)'
  <1>1. callQueue \in [HC!Channels -> Seq(HC!CallIds)]
    BY DEF ChannelInv, ChannelTypes
  <1>2. CASE d # ch
    BY <1>1, <1>2 DEF QueuedIn
  <1>3. CASE d = ch
    <2>1. PICK i \in DOMAIN callQueue[ch] : callQueue[ch][i] = id
      BY <1>3 DEF QueuedIn
    <2>2. callQueue[ch] \in Seq(HC!CallIds) /\ callQueue'[ch] = Tail(callQueue[ch])
      BY <1>1
    <2>3. i # 1
      BY <2>1, <2>2
    <2>4. i - 1 \in DOMAIN Tail(callQueue[ch]) /\ Tail(callQueue[ch])[i - 1] = callQueue[ch][i]
      BY <2>1, <2>2, <2>3
    <2>5. \E j \in DOMAIN callQueue'[ch] : callQueue'[ch][j] = id
      BY <2>1, <2>2, <2>4
    <2> QED
      BY <1>3, <2>5 DEF QueuedIn
  <1> QED
    BY <1>2, <1>3

\* Requests of a channel settle.
LEMMA SettlingHolds ==
    ASSUME ChannelInv, CallsAreHeld, NEW ch \in HC!Channels, NEW ids \in SUBSET pending[ch],
           NEW outcome \in {"ok", "error", "restart"},
           HC!Settle(ids, outcome), HC!Advances(ch, ids),
           pending' = [pending EXCEPT ![ch] = @ \ ids], calls' = calls,
           cleanup' = cleanup \/ cleanup' # "wmi"
    PROVE  CallsAreHeld'
  <1>1. /\ \A d \in HC!Channels : pending'[d] = IF d = ch THEN pending[ch] \ ids ELSE pending[d]
        /\ SettledStay /\ \A id \in ids : result'[id] # "none"
    <2>1. pending \in [HC!Channels -> SUBSET HC!Ids]
      BY DEF ChannelInv, ChannelTypes
    <2>2. \A id \in ids : id \in HC!Ids /\ result[id] = "none"
      BY PendingIsUnsettled
    <2>3. SettledStay
      BY <2>2, SettleKeeps
    <2>4. \A id \in ids : result'[id] # "none"
      BY <2>2 DEF HC!Settle
    <2> QED
      BY <2>1, <2>3, <2>4
  <1>2. /\ HC!CallIds \subseteq HC!Ids /\ HC!CleanupCall \in HC!Ids /\ "wmi" \in HC!Channels
        /\ callQueue \in [HC!Channels -> Seq(HC!CallIds)] /\ begun \in [HC!Channels -> BOOLEAN]
    BY DEF HC!Ids, HC!Channels, ChannelInv, ChannelTypes
  <1>3. ASSUME NEW id \in HC!CallIds, id <= calls, result'[id] = "none"
        PROVE  \E d \in HC!Channels : QueuedIn(d, id)'
    <2>1. result[id] = "none" /\ id \notin ids
      BY <1>1, <1>2, <1>3 DEF SettledStay
    <2>2. PICK d \in HC!Channels : QueuedIn(d, id)
      BY <1>3, <2>1 DEF CallsAreHeld
    <2>3. CASE begun[ch] /\ Head(callQueue[ch]) \in ids
      <3>1. callQueue[ch] # <<>> /\ callQueue' = [callQueue EXCEPT ![ch] = Tail(@)]
        BY <2>3 DEF HC!Advances, ChannelInv, PendingIsBegun
      <3> QED
        BY <2>1, <2>2, <2>3, <3>1, OthersStayQueued
    <2>4. CASE ~(begun[ch] /\ Head(callQueue[ch]) \in ids)
      BY <2>2, <2>4 DEF HC!Advances, QueuedIn
    <2> QED
      BY <2>3, <2>4
  <1>4. ASSUME NEW d \in HC!Channels, begun'[d] PROVE Head(callQueue'[d]) \in pending'[d]
    <2>1. CASE begun[ch] /\ Head(callQueue[ch]) \in ids
      <3>1. /\ begun' = [begun EXCEPT ![ch] = FALSE]
            /\ callQueue' = [callQueue EXCEPT ![ch] = Tail(@)]
        BY <2>1 DEF HC!Advances
      <3>2. d # ch
        BY <1>2, <1>4, <3>1
      <3>3. begun[d] /\ callQueue'[d] = callQueue[d] /\ pending'[d] = pending[d]
        BY <1>1, <1>2, <1>4, <3>1, <3>2
      <3> QED
        BY <3>3 DEF CallsAreHeld
    <2>2. CASE ~(begun[ch] /\ Head(callQueue[ch]) \in ids)
      <3>1. UNCHANGED <<callQueue, begun>>
        BY <2>2 DEF HC!Advances
      <3>2. begun[d] /\ Head(callQueue[d]) \in pending[d]
        BY <1>4, <3>1 DEF CallsAreHeld
      <3>3. d = ch => Head(callQueue[d]) \notin ids
        BY <2>2, <3>2
      <3>4. pending'[d] = IF d = ch THEN pending[ch] \ ids ELSE pending[d]
        BY <1>1
      <3>5. CASE d = ch
        BY <3>1, <3>2, <3>3, <3>4, <3>5
      <3>6. CASE d # ch
        BY <3>1, <3>2, <3>4, <3>6
      <3> QED
        BY <3>5, <3>6
    <2> QED
      BY <2>1, <2>2
  <1>5. cleanup' = "wmi" /\ result'[HC!CleanupCall] = "none" => HC!CleanupCall \in pending'["wmi"]
    BY <1>1, <1>2 DEF SettledStay, CallsAreHeld
  <1> QED
    BY <1>3, <1>4, <1>5 DEF CallsAreHeld

LEMMA FailHolds ==
    ASSUME ChannelInv, CallsAreHeld, NEW ch \in HC!Channels, HC!Fail(ch), UNCHANGED <<calls, cleanup>>
    PROVE  CallsAreHeld'
  <1>1. /\ pending' = [pending EXCEPT ![ch] = @ \ pending[ch]]
        /\ HC!Settle(pending[ch], "restart") /\ HC!Advances(ch, pending[ch])
    BY DEF HC!Fail, ChannelInv, ChannelTypes
  <1> QED
    BY <1>1, SettlingHolds

LEMMA CallHolds ==
    ASSUME ChannelInv, CallsAreHeld, NEW ch \in HC!Channels, HC!Call(ch)
    PROVE  CallsAreHeld'
  <1>1. /\ calls \in Nat /\ calls' = calls + 1 /\ calls + 1 \in HC!CallIds
        /\ UNCHANGED <<begun, pending, cleanup>>
    <2>1. calls \in Nat /\ MaxCalls \in Nat
      BY ChannelsAssumption DEF ChannelInv, ChannelTypes
    <2>2. /\ calls < MaxCalls /\ calls' = calls + 1
          /\ UNCHANGED <<begun, pending, cleanup>>
      BY DEF HC!Call
    <2> QED
      BY <2>1, <2>2 DEF HC!CallIds
  <1>2. /\ HC!CallIds \subseteq HC!Ids /\ HC!CleanupCall \in HC!Ids /\ calls + 1 # HC!CleanupCall
        /\ callQueue \in [HC!Channels -> Seq(HC!CallIds)] /\ HC!CallIds \subseteq Nat
        /\ result \in [HC!Ids -> {"none", "ok", "error", "restart"}]
    BY <1>1 DEF HC!Ids, HC!CallIds, HC!CleanupCall, ChannelInv, ChannelTypes
  <1>3. CASE HC!ServicesClosed
    <2>1. HC!Settle({calls + 1}, "error") /\ UNCHANGED callQueue
      BY <1>3 DEF HC!Call
    <2>2. /\ result'[calls + 1] # "none"
          /\ \A id \in HC!Ids : id # calls + 1 => result'[id] = result[id]
      BY <1>1, <1>2, <2>1 DEF HC!Settle
    <2>3. \A id \in HC!CallIds : id <= calls' /\ id # calls + 1 => id <= calls
      BY <1>1, <1>2
    <2> QED
      BY <1>1, <1>2, <2>1, <2>2, <2>3 DEF CallsAreHeld, QueuedIn
  <1>4. CASE ~HC!ServicesClosed
    <2>1. /\ callQueue' = [callQueue EXCEPT ![ch] = Append(@, calls + 1)] /\ UNCHANGED result
      BY <1>4 DEF HC!Call
    <2>2. ASSUME NEW d \in HC!Channels
          PROVE  /\ \A i \in DOMAIN callQueue[d] :
                      i \in DOMAIN callQueue'[d] /\ callQueue'[d][i] = callQueue[d][i]
                 /\ callQueue[d] # <<>> => Head(callQueue'[d]) = Head(callQueue[d])
      <3>1. callQueue[d] \in Seq(HC!CallIds)
            /\ callQueue'[d] = IF d = ch THEN Append(callQueue[d], calls + 1) ELSE callQueue[d]
        BY <1>2, <2>1
      <3> QED
        BY <1>1, <3>1
    <2>3. \E i \in DOMAIN callQueue'[ch] : callQueue'[ch][i] = calls + 1
      <3>1. callQueue[ch] \in Seq(HC!CallIds) /\ callQueue'[ch] = Append(callQueue[ch], calls + 1)
        BY <1>2, <2>1
      <3>2. Len(callQueue[ch]) + 1 \in DOMAIN callQueue'[ch]
            /\ callQueue'[ch][Len(callQueue[ch]) + 1] = calls + 1
        BY <1>1, <3>1
      <3> QED
        BY <3>2
    <2>4. ASSUME NEW id \in HC!CallIds, id <= calls', result'[id] = "none"
          PROVE  \E d \in HC!Channels : QueuedIn(d, id)'
      <3>1. CASE id = calls + 1
        BY <2>3, <3>1 DEF QueuedIn
      <3>2. CASE id # calls + 1
        <4>1. id <= calls
          BY <1>1, <1>2, <2>4, <3>2
        <4>2. PICK d \in HC!Channels : QueuedIn(d, id)
          BY <2>1, <2>4, <4>1 DEF CallsAreHeld
        <4> QED
          BY <2>2, <4>2 DEF QueuedIn
      <3> QED
        BY <3>1, <3>2
    <2>5. \A d \in HC!Channels : begun'[d] => Head(callQueue'[d]) \in pending'[d]
      BY <1>1, <2>2 DEF CallsAreHeld, ChannelInv, PendingIsBegun
    <2> QED
      BY <1>1, <2>1, <2>4, <2>5 DEF CallsAreHeld
  <1> QED
    BY <1>3, <1>4

LEMMA BeginHolds ==
    ASSUME ChannelInv, CallsAreHeld, NEW ch \in HC!Channels, HC!Begin(ch)
    PROVE  CallsAreHeld'
  <1> DEFINE id == Head(callQueue[ch])
  <1>1. callQueue[ch] # <<>> /\ ~begun[ch] /\ UNCHANGED <<calls, cleanup>>
    BY DEF HC!Begin
  <1>2. /\ id \in HC!CallIds /\ id # HC!CleanupCall /\ HC!CallIds \subseteq HC!Ids /\ HC!CleanupCall \in HC!Ids
        /\ "wmi" \in HC!Channels
        /\ begun \in [HC!Channels -> BOOLEAN] /\ pending \in [HC!Channels -> SUBSET HC!Ids]
        /\ callQueue \in [HC!Channels -> Seq(HC!CallIds)]
        /\ result \in [HC!Ids -> {"none", "ok", "error", "restart"}]
    BY <1>1, HeadIsUnsettled DEF HC!Ids, HC!Channels, ChannelInv, ChannelTypes
  <1>3. CASE HC!Refused(ch)
    <2>1. PICK outcome \in {"error", "restart"} : HC!Settle({id}, outcome)
      BY <1>3 DEF HC!Begin
    <2>2. /\ callQueue' = [callQueue EXCEPT ![ch] = Tail(@)] /\ UNCHANGED <<begun, pending>>
      BY <1>3 DEF HC!Begin
    <2>3. result'[id] # "none" /\ \A other \in HC!Ids : other # id => result'[other] = result[other]
      BY <1>2, <2>1 DEF HC!Settle
    <2> HIDE DEF id
    <2>4. ASSUME NEW other \in HC!CallIds, other <= calls, result'[other] = "none"
          PROVE  \E d \in HC!Channels : QueuedIn(d, other)'
      <3>1. other # id /\ result[other] = "none"
        BY <1>2, <2>3, <2>4
      <3>2. PICK d \in HC!Channels : QueuedIn(d, other)
        BY <2>4, <3>1 DEF CallsAreHeld
      <3> QED
        BY <1>1, <2>2, <3>1, <3>2, OthersStayQueued DEF id
    <2>5. \A d \in HC!Channels : begun'[d] => Head(callQueue'[d]) \in pending'[d]
      BY <1>1, <1>2, <2>2 DEF CallsAreHeld
    <2>6. cleanup' = "wmi" /\ result'[HC!CleanupCall] = "none" => HC!CleanupCall \in pending'["wmi"]
      BY <1>1, <1>2, <2>2, <2>3 DEF CallsAreHeld
    <2> QED
      BY <1>1, <2>4, <2>5, <2>6 DEF CallsAreHeld
  <1>4. CASE ~HC!Refused(ch)
    <2>1. /\ begun' = [begun EXCEPT ![ch] = TRUE] /\ pending' = [pending EXCEPT ![ch] = @ \cup {id}]
          /\ UNCHANGED <<callQueue, result>>
      BY <1>4 DEF HC!Begin, HC!Post
    <2>2. \A d \in HC!Channels : begun'[d] => Head(callQueue'[d]) \in pending'[d]
      BY <1>2, <2>1 DEF CallsAreHeld
    <2>3. pending["wmi"] \subseteq pending'["wmi"]
      BY <1>2, <2>1
    <2> QED
      BY <1>1, <2>1, <2>2, <2>3 DEF CallsAreHeld, QueuedIn
  <1> QED
    BY <1>3, <1>4

LEMMA CleanupHolds ==
    ASSUME ChannelInv, CallsAreHeld, HC!Cleanup
    PROVE  CallsAreHeld'
  <1>1. CASE HC!CleanupStarts \/ HC!WmiCleanupEnds
    BY <1>1 DEF HC!CleanupStarts, HC!WmiCleanupEnds, CallsAreHeld, QueuedIn
  <1>2. CASE HC!WmiCleanup
    <2>1. UNCHANGED <<calls, callQueue, begun>>
      BY <1>2 DEF HC!WmiCleanup
    <2>2. /\ HC!CallIds \subseteq HC!Ids /\ HC!CleanupCall \in HC!Ids /\ "wmi" \in HC!Channels
          /\ \A id \in HC!CallIds : id # HC!CleanupCall
          /\ pending \in [HC!Channels -> SUBSET HC!Ids]
          /\ result \in [HC!Ids -> {"none", "ok", "error", "restart"}]
      BY DEF HC!Ids, HC!CallIds, HC!CleanupCall, HC!Channels, ChannelInv, ChannelTypes
    <2>3. CASE HC!Post("wmi", HC!CleanupCall) /\ UNCHANGED result
      <3>1. /\ HC!CleanupCall \in pending'["wmi"]
            /\ \A ch \in HC!Channels : pending[ch] \subseteq pending'[ch]
        BY <2>2, <2>3 DEF HC!Post
      <3> QED
        BY <2>1, <2>3, <3>1 DEF CallsAreHeld, QueuedIn
    <2>4. CASE HC!Settle({HC!CleanupCall}, "ok") /\ UNCHANGED pending
      <3>1. /\ result'[HC!CleanupCall] # "none"
            /\ \A id \in HC!CallIds : result'[id] = result[id]
        BY <2>2, <2>4 DEF HC!Settle
      <3> QED
        BY <2>1, <2>4, <3>1 DEF CallsAreHeld, QueuedIn
    <2> QED
      BY <1>2, <2>3, <2>4 DEF HC!WmiCleanup
  <1>3. CASE HC!CpuCleanup
    <2>1. "cpuoc" \in HC!Channels
      BY DEF HC!Channels
    <2>2. /\ HC!Settle(pending["cpuoc"], "error") /\ HC!Advances("cpuoc", pending["cpuoc"])
          /\ pending' = [pending EXCEPT !["cpuoc"] = @ \ pending["cpuoc"]]
          /\ calls' = calls /\ cleanup' # "wmi"
      BY <1>3, <2>1 DEF HC!CpuCleanup, ChannelInv, ChannelTypes
    <2> QED
      BY <2>1, <2>2, SettlingHolds
  <1> QED
    BY <1>1, <1>2, <1>3 DEF HC!Cleanup

LEMMA HoldingStep ==
    ASSUME ChannelInv, CallsAreHeld, [HC!Next]_HC!vars
    PROVE  CallsAreHeld'
  <1>1. ASSUME NEW ch \in HC!Channels, HC!Receive(ch) PROVE CallsAreHeld'
    <2> DEFINE reply == Head(outbox[ch])
    <2>1. UNCHANGED <<calls, cleanup>>
      BY <1>1 DEF HC!Receive
    <2>2. CASE ~HC!Awaited(ch, reply.id)
      BY <1>1, <2>1, <2>2 DEF HC!Receive, CallsAreHeld, QueuedIn
    <2>3. CASE HC!Awaited(ch, reply.id) /\ reply.answer = "fatal"
      BY <1>1, <2>1, <2>3, FailHolds DEF HC!Receive
    <2>4. CASE HC!Awaited(ch, reply.id) /\ reply.answer # "fatal"
      <3>1. /\ pending' = [pending EXCEPT ![ch] = @ \ {reply.id}]
            /\ HC!Settle({reply.id}, reply.answer) /\ HC!Advances(ch, {reply.id})
        BY <1>1, <2>4 DEF HC!Receive
      <3>2. reply \in Replies /\ {reply.id} \in SUBSET pending[ch]
        BY <1>1, <2>4 DEF HC!Receive, HC!Awaited, ChannelInv, ChannelTypes
      <3>3. reply.answer \in {"ok", "error", "restart"}
        BY <2>4, <3>2 DEF Replies
      <3> HIDE DEF reply
      <3> QED
        BY <2>1, <3>1, <3>2, <3>3, SettlingHolds
    <2> QED
      BY <2>2, <2>3, <2>4
  <1>2. ASSUME NEW ch \in HC!Channels, HC!TimerFires(ch) \/ HC!WorkerDies(ch) PROVE CallsAreHeld'
    BY <1>2, FailHolds DEF HC!TimerFires, HC!WorkerDies
  <1>3. ASSUME NEW ch \in HC!Channels,
               \/ HC!WorkerStarts(ch)
               \/ \E answer \in {"ok", "error", "fatal"} : HC!NativeReturns(ch, answer)
        PROVE  CallsAreHeld'
    BY <1>3 DEF HC!WorkerStarts, HC!NativeReturns, CallsAreHeld, QueuedIn
  <1>4. CASE UNCHANGED HC!vars
    BY <1>4 DEF HC!vars, CallsAreHeld, QueuedIn
  <1> QED
    BY <1>1, <1>2, <1>3, <1>4, CallHolds, BeginHolds, CleanupHolds DEF HC!Next

\* The safety half of EveryCallSettles: no reply, timeout, worker death or
\* cleanup leaves a call that has not settled outside its queue, or the running
\* call or the cleanup's request without the timer that ends its wait.
THEOREM CallsDoNotHang == HC!Spec => [](CallsAreHeld /\ NoCallHangs)
  <1>1. HC!Init => CallsAreHeld
    BY DEF HC!Init, CallsAreHeld, HC!CallIds, HC!Ids
  <1>2. ChannelInv /\ CallsAreHeld /\ [HC!Next]_HC!vars => CallsAreHeld'
    BY HoldingStep
  <1>3. CallsAreHeld => NoCallHangs
    BY DEF CallsAreHeld, NoCallHangs, HC!TimersOf
  <1> QED
    BY <1>1, <1>2, <1>3, ChannelsHold, PTL DEF HC!Spec
=============================================================================
