------------------------------ MODULE FanCurve ------------------------------
(***************************************************************************)
(* The arithmetic of the fan curves: what a stored table commands at a     *)
(* measured temperature, how a ramp step is chosen, and how a percentage   *)
(* becomes a firmware duty.  These are the pure functions of               *)
(* server/fan-control/index.ts and the table rules of                      *)
(* common/validation.ts; no definition here has state.                     *)
(*                                                                         *)
(* A table is a sequence of <<temperature, speed>> entries and a curve is  *)
(* the pair of tables the server stores.  The program accepts any finite   *)
(* number in a table; the model keeps the integers.                        *)
(***************************************************************************)
EXTENDS Integers, Sequences

Percent == 0 .. 100
Temperature == 0 .. 110
Duty == 0 .. 229

\* What validateFanTable accepts: at least one entry, both numbers in range,
\* temperatures strictly ascending.
ValidFanTable(table) ==
    /\ table \in Seq(Temperature \X Percent)
    /\ table # <<>>
    /\ \A i \in 1 .. Len(table) - 1 : table[i][1] < table[i + 1][1]

ValidCurve(curve) ==
    /\ curve = [cpu |-> curve.cpu, gpu |-> curve.gpu]
    /\ ValidFanTable(curve.cpu)
    /\ ValidFanTable(curve.gpu)

Larger(a, b) == IF a >= b THEN a ELSE b

\* Math.ceil((percent / 100) * 229).  229 is prime, so the product is whole
\* only at 0 and 100, and no rounding of the division reaches another integer.
FanPercentToSpeed(percent) == (percent * 229 + 99) \div 100

\* The entries the loop of findHighestMatch passes: a prefix of the table
\* that stops before the first entry above the temperature.
MatchedBelow(temperature, table) ==
    {i \in 1 .. Len(table) : \A j \in 1 .. i : table[j][1] < temperature}
Matched(temperature, table) ==
    {i \in 1 .. Len(table) : \A j \in 1 .. i : table[j][1] <= temperature}

\* The last entry the loop accepted; below every threshold, the first entry.
FindHighestMatch(temperature, table) ==
    LET matched == Matched(temperature, table)
    IN  IF matched = {}
        THEN table[1]
        ELSE table[CHOOSE i \in matched : \A j \in matched : j <= i]

\* The shared target: the higher of the two curves' speeds, because the fans
\* cool one heat pipe.
CurveTarget(curve, temps) ==
    Larger(FindHighestMatch(temps.cpu, curve.cpu)[2],
           FindHighestMatch(temps.gpu, curve.gpu)[2])

Speeds(curve) ==
    {0} \cup {curve.cpu[i][2] : i \in 1 .. Len(curve.cpu)}
        \cup {curve.gpu[i][2] : i \in 1 .. Len(curve.gpu)}

\* The fail-hot target: the largest speed anywhere in either table.
HighestFanTarget(curve) ==
    CHOOSE max \in Speeds(curve) : \A s \in Speeds(curve) : s <= max

\* Math.round(gap / 2) of a gap that is not negative.
HalfGap(gap) == (gap + 1) \div 2

\* One ramp step: half of the gap, and all of it when less than five
\* percentage points would remain.
GetGradientTarget(last, target) ==
    LET up   == last + HalfGap(target - last)
        down == last - HalfGap(last - target)
        step == IF target > last THEN up ELSE IF target < last THEN down ELSE target
        left == IF target >= step THEN target - step ELSE step - target
    IN  IF left < 5 THEN target ELSE step
=============================================================================
