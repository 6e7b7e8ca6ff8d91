--------------------------- MODULE FanCurveProofs ---------------------------
(***************************************************************************)
(* What the curve arithmetic returns, for every valid curve and every      *)
(* measured temperature.                                                   *)
(***************************************************************************)
EXTENDS FanCurve, WellFoundedInduction, TLAPS

-----------------------------------------------------------------------------
(* A set of natural numbers with an upper bound has a largest element: the *)
(* least distance to the bound, by well-foundedness of < on Nat.           *)

LEMMA LeastNatural ==
    ASSUME NEW T \in SUBSET Nat, T # {}
    PROVE  \E x \in T : \A y \in T : x <= y
  <1>1. \E x \in T : \A y \in T : ~ (<<y, x>> \in OpToRel(<, Nat))
    BY WFMin, NatLessThanWellFounded
  <1>2. PICK x \in T : \A y \in T : ~ (<<y, x>> \in OpToRel(<, Nat))
    BY <1>1
  <1>3. \A y \in T : ~ (y < x)
    BY <1>2 DEF OpToRel
  <1> QED
    BY <1>3

LEMMA LargestNatural ==
    ASSUME NEW n \in Nat, NEW T \in SUBSET (0 .. n), T # {}
    PROVE  \E x \in T : \A y \in T : y <= x
  <1> DEFINE D == {n - x : x \in T}
  <1>1. D \in SUBSET Nat /\ D # {}
    <2>1. \A x \in T : n - x \in Nat
      OBVIOUS
    <2> QED
      BY <2>1
  <1>2. PICK d \in D : \A e \in D : d <= e
    BY <1>1, LeastNatural
  <1>3. PICK x \in T : d = n - x
    BY <1>2
  <1>4. ASSUME NEW y \in T PROVE y <= x
    <2>1. d <= n - y
      BY <1>2
    <2> QED
      BY <2>1, <1>3
  <1> QED
    BY <1>4

-----------------------------------------------------------------------------
(* findHighestMatch returns an entry of the table. *)

LEMMA MatchIsAnEntry ==
    ASSUME NEW temperature \in Temperature, NEW table, ValidFanTable(table)
    PROVE  \E i \in 1 .. Len(table) : FindHighestMatch(temperature, table) = table[i]
  <1> DEFINE matched == Matched(temperature, table)
  <1>1. table \in Seq(Temperature \X Percent) /\ table # <<>>
    BY DEF ValidFanTable
  <1>2. Len(table) \in Nat /\ Len(table) # 0
    BY <1>1
  <1>3. CASE matched = {}
    BY <1>2, <1>3 DEF FindHighestMatch
  <1>4. CASE matched # {}
    <2>1. matched \in SUBSET (0 .. Len(table)) /\ matched \in SUBSET (1 .. Len(table))
      BY <1>2 DEF Matched
    <2>2. \E i \in matched : \A j \in matched : j <= i
      BY <2>1, <1>2, <1>4, LargestNatural
    <2> HIDE DEF matched
    <2>3. (CHOOSE i \in matched : \A j \in matched : j <= i) \in matched
      BY <2>2
    <2>4. FindHighestMatch(temperature, table)
            = table[CHOOSE i \in matched : \A j \in matched : j <= i]
      BY <1>4 DEF FindHighestMatch, matched
    <2> QED
      BY <2>1, <2>3, <2>4
  <1> QED
    BY <1>3, <1>4

LEMMA EntrySpeed ==
    ASSUME NEW table, ValidFanTable(table), NEW i \in 1 .. Len(table)
    PROVE  table[i][1] \in Temperature /\ table[i][2] \in Percent
  BY DEF ValidFanTable

\* The largest configured speed: a percentage, one of the speeds, none larger.
LEMMA HighestSpeed ==
    ASSUME NEW curve, ValidCurve(curve)
    PROVE  /\ HighestFanTarget(curve) \in Speeds(curve)
           /\ HighestFanTarget(curve) \in Percent
           /\ \A s \in Speeds(curve) : s <= HighestFanTarget(curve)
  <1>1. Speeds(curve) \in SUBSET (0 .. 100)
    <2>1. \A i \in 1 .. Len(curve.cpu) : curve.cpu[i][2] \in Percent
      BY EntrySpeed DEF ValidCurve
    <2>2. \A i \in 1 .. Len(curve.gpu) : curve.gpu[i][2] \in Percent
      BY EntrySpeed DEF ValidCurve
    <2>3. ASSUME NEW s \in Speeds(curve) PROVE s \in 0 .. 100
      <3>1. \/ s = 0
            \/ \E i \in 1 .. Len(curve.cpu) : s = curve.cpu[i][2]
            \/ \E i \in 1 .. Len(curve.gpu) : s = curve.gpu[i][2]
        BY Zenon DEF Speeds
      <3>2. s = 0 \/ s \in Percent
        BY <2>1, <2>2, <3>1, Zenon
      <3> QED
        BY <3>2 DEF Percent
    <2> QED
      BY <2>3
  <1>2. Speeds(curve) # {}
    BY DEF Speeds
  <1>3. \E max \in Speeds(curve) : \A s \in Speeds(curve) : s <= max
    BY <1>1, <1>2, LargestNatural
  <1> QED
    BY <1>1, <1>3 DEF HighestFanTarget, Percent

\* The shared target is a percentage and never above the fail-hot target.
THEOREM TargetBelowHighest ==
    ASSUME NEW curve, ValidCurve(curve),
           NEW temps \in [cpu : Temperature, gpu : Temperature]
    PROVE  /\ CurveTarget(curve, temps) \in Percent
           /\ CurveTarget(curve, temps) <= HighestFanTarget(curve)
  <1>1. PICK i \in 1 .. Len(curve.cpu) :
            FindHighestMatch(temps.cpu, curve.cpu) = curve.cpu[i]
    BY MatchIsAnEntry DEF ValidCurve
  <1>2. PICK j \in 1 .. Len(curve.gpu) :
            FindHighestMatch(temps.gpu, curve.gpu) = curve.gpu[j]
    BY MatchIsAnEntry DEF ValidCurve
  <1>3. curve.cpu[i][2] \in Percent /\ curve.gpu[j][2] \in Percent
    BY EntrySpeed DEF ValidCurve
  <1>4. curve.cpu[i][2] \in Speeds(curve) /\ curve.gpu[j][2] \in Speeds(curve)
    BY DEF Speeds
  <1>5. CurveTarget(curve, temps) \in {curve.cpu[i][2], curve.gpu[j][2]}
    BY <1>1, <1>2 DEF CurveTarget, Larger
  <1> QED
    BY <1>3, <1>4, <1>5, HighestSpeed

\* Later entries have higher temperatures: the first that has not would follow
\* one that has.
LEMMA TableAscends ==
    ASSUME NEW table, ValidFanTable(table),
           NEW i \in 1 .. Len(table), NEW j \in i + 1 .. Len(table)
    PROVE  table[i][1] < table[j][1]
  <1> DEFINE bad == {k \in i + 1 .. Len(table) : ~(table[i][1] < table[k][1])}
  <1>1. table \in Seq(Temperature \X Percent) /\ Len(table) \in Nat
    BY DEF ValidFanTable
  <1>2. \A k \in 1 .. Len(table) : table[k][1] \in Nat
    <2>1. \A k \in 1 .. Len(table) : table[k][1] \in Temperature
      BY EntrySpeed
    <2>2. Temperature \subseteq Nat
      BY DEF Temperature
    <2> QED
      BY <2>1, <2>2
  <1>3. ASSUME bad # {} PROVE FALSE
    <2>1. bad \in SUBSET Nat
      BY <1>1
    <2>2. PICK k \in bad : \A m \in bad : k <= m
      BY <1>3, <2>1, LeastNatural
    <2>3. k \in i + 1 .. Len(table) /\ ~(table[i][1] < table[k][1])
      BY <2>2
    <2>4. k - 1 \in 1 .. Len(table) - 1 /\ table[k - 1][1] < table[k][1]
      <3>1. k - 1 \in 1 .. Len(table) - 1 /\ (k - 1) + 1 = k
        BY <1>1, <2>3
      <3> QED
        BY <3>1 DEF ValidFanTable
    <2>5. k # i + 1
      BY <2>3, <2>4
    <2>6. k - 1 \in i + 1 .. Len(table) /\ k - 1 \notin bad
      BY <1>1, <2>2, <2>3, <2>5
    <2>7. table[i][1] < table[k - 1][1]
      BY <2>6
    <2>8. table[i][1] \in Nat /\ table[k - 1][1] \in Nat /\ table[k][1] \in Nat
      BY <1>1, <1>2, <2>3, <2>4
    <2> QED
      BY <2>3, <2>4, <2>7, <2>8
  <1> QED
    BY <1>3

\* A threshold step: an entry is found from its own temperature up to the next
\* entry's, and the first also below its own.
THEOREM ThresholdStep ==
    ASSUME NEW temperature \in Temperature, NEW table, ValidFanTable(table),
           NEW i \in 1 .. Len(table),
           i = 1 \/ table[i][1] <= temperature,
           i = Len(table) \/ temperature < table[i + 1][1]
    PROVE  FindHighestMatch(temperature, table) = table[i]
  <1> DEFINE matched == Matched(temperature, table)
  <1>1. table \in Seq(Temperature \X Percent) /\ Len(table) \in Nat
    BY DEF ValidFanTable
  <1>2. \A k \in 1 .. Len(table) : table[k][1] \in Nat
    <2>1. \A k \in 1 .. Len(table) : table[k][1] \in Temperature
      BY EntrySpeed
    <2>2. Temperature \subseteq Nat
      BY DEF Temperature
    <2> QED
      BY <2>1, <2>2
  <1>3. CASE table[i][1] <= temperature
    <2>1. i \in matched
      <3>1. ASSUME NEW j \in 1 .. i PROVE table[j][1] <= temperature
        <4>1. CASE j = i
          BY <1>3, <4>1
        <4>2. CASE j # i
          <5>1. j \in 1 .. Len(table) /\ i \in j + 1 .. Len(table)
            BY <1>1, <4>2
          <5>2. table[j][1] < table[i][1]
            BY <5>1, TableAscends
          <5> QED
            BY <1>2, <1>3, <5>1, <5>2 DEF Temperature
        <4> QED
          BY <4>1, <4>2
      <3> QED
        BY <3>1 DEF Matched
    <2>2. ASSUME NEW k \in matched PROVE k <= i
      <3>1. k \in 1 .. Len(table) /\ \A j \in 1 .. k : table[j][1] <= temperature
        BY DEF Matched
      <3>2. ASSUME k > i PROVE FALSE
        <4>1. i + 1 \in 1 .. k /\ i # Len(table)
          BY <1>1, <3>1, <3>2
        <4>2. table[i + 1][1] <= temperature /\ temperature < table[i + 1][1]
          BY <3>1, <4>1
        <4>3. i + 1 \in 1 .. Len(table)
          BY <1>1, <3>1, <4>1
        <4>4. table[i + 1][1] \in Nat /\ temperature \in Nat
          BY <1>2, <4>3 DEF Temperature
        <4> QED
          BY <4>2, <4>4
      <3> QED
        BY <3>1, <3>2
    <2>3. matched \subseteq Int
      BY DEF Matched
    <2>4. FindHighestMatch(temperature, table)
            = table[CHOOSE k \in matched : \A j \in matched : j <= k]
      BY <2>1 DEF FindHighestMatch
    <2> HIDE DEF matched
    <2>5. (CHOOSE k \in matched : \A j \in matched : j <= k) = i
      <3> DEFINE IsTop(k) == k \in matched /\ \A j \in matched : j <= k
      <3>1. IsTop(i)
        BY <2>1, <2>2
      <3>2. ASSUME NEW k, IsTop(k) PROVE k = i
        <4>1. k \in Int /\ i \in Int /\ k <= i /\ i <= k
          BY <2>1, <2>2, <2>3, <3>2
        <4> QED
          BY <4>1
      <3> HIDE DEF IsTop
      <3>3. (CHOOSE k : IsTop(k)) = i
        <4>1. IsTop(CHOOSE k : IsTop(k))
          BY <3>1, Zenon
        <4> QED
          BY <3>2, <4>1
      <3> QED
        BY <3>3, Zenon DEF IsTop
    <2> QED
      BY <2>4, <2>5
  <1>4. CASE ~(table[i][1] <= temperature)
    <2>1. i = 1 /\ matched = {}
      BY <1>4 DEF Matched
    <2> QED
      BY <2>1 DEF FindHighestMatch
  <1> QED
    BY <1>3, <1>4

-----------------------------------------------------------------------------
(* A ramp step. *)

THEOREM GradientBetween ==
    ASSUME NEW last \in Percent, NEW target \in Percent
    PROVE  /\ GetGradientTarget(last, target) \in Percent
           /\ last < target => /\ last < GetGradientTarget(last, target)
                               /\ GetGradientTarget(last, target) <= target
           /\ target < last => /\ GetGradientTarget(last, target) < last
                               /\ target <= GetGradientTarget(last, target)
  BY DEF GetGradientTarget, HalfGap, Percent

LEMMA SpeedIsDuty ==
    ASSUME NEW percent \in Percent
    PROVE  FanPercentToSpeed(percent) \in Duty
  BY DEF FanPercentToSpeed, Percent, Duty

\* A larger percentage is a larger duty: no ramp step is lost by rounding.
THEOREM DutyIncreasing ==
    ASSUME NEW p \in Percent, NEW q \in Percent, p < q
    PROVE  FanPercentToSpeed(p) < FanPercentToSpeed(q)
  BY DEF FanPercentToSpeed, Percent
=============================================================================
