----------------------------- MODULE MCFanCurve -----------------------------
(***************************************************************************)
(* FanCurve over bounded inputs: every pair of small valid tables at every *)
(* temperature, and the ramp of every applied percentage toward every      *)
(* target, one ramp step per behaviour step.  FanTableEditor from every    *)
(* table the server may send, with some cells typed.                       *)
(***************************************************************************)
EXTENDS FanTableEditor, FiniteSets

CONSTANTS MaxEntries,      \* longest table enumerated
          SomeTemperatures, SomeSpeeds,
          MaxEdits
ASSUME SomeAssumption == SomeTemperatures \subseteq Temperature /\ SomeSpeeds \subseteq Percent

VARIABLES curve, temps,            \* a lookup
          applied, target,      \* a ramp
          steps                 \* of the ramp, or of the editing

lookup == <<curve, temps>>
ramp == <<applied, target>>
vars == <<lookup, ramp, steps, rows>>

SomeCells == {-1, 0, 41, 109, 111, Blank}

Tables ==
    {table \in UNION {[1 .. n -> SomeTemperatures \X SomeSpeeds] : n \in 1 .. MaxEntries} :
        ValidFanTable(table)}

Curves == {[cpu |-> c, gpu |-> g] : c \in Tables, g \in Tables}
NoCurve == [cpu |-> <<>>, gpu |-> <<>>]

Init ==
    /\ \/ /\ curve \in Curves
          /\ temps \in [cpu : SomeTemperatures, gpu : SomeTemperatures]
          /\ applied = 0 /\ target = 0 /\ rows = <<>>
       \/ /\ curve = NoCurve /\ temps = [cpu |-> 0, gpu |-> 0]
          /\ applied \in Percent /\ target \in Percent /\ rows = <<>>
       \/ /\ curve = NoCurve /\ temps = [cpu |-> 0, gpu |-> 0] /\ applied = 0 /\ target = 0
          /\ \E table \in Tables : Shows(table)
    /\ steps = 0

RampStep ==
    /\ applied # target
    /\ applied' = GetGradientTarget(applied, target)
    /\ steps' = steps + 1
    /\ UNCHANGED <<lookup, target, rows>>

Edits == steps < MaxEdits /\ steps' = steps + 1 /\ UNCHANGED <<lookup, ramp>>

Presses == Edits /\ Buttons
Typing == Edits /\ Types

Next == RampStep \/ Presses \/ Typing

Spec == Init /\ [][Next]_vars

-----------------------------------------------------------------------------
\* Curves are threshold steps: a point commands its speed from its own
\* temperature up to the next point, and the first point also below it.
CommandedAt(temperature, table, i) ==
    /\ i = 1 \/ table[i][1] <= temperature
    /\ i = Len(table) \/ temperature < table[i + 1][1]

CurveIsThresholdSteps ==
    curve # NoCurve => \A i \in 1 .. Len(curve.cpu), j \in 1 .. Len(curve.gpu) :
        CommandedAt(temps.cpu, curve.cpu, i) /\ CommandedAt(temps.gpu, curve.gpu, j)
        => /\ CurveTarget(curve, temps) \in {curve.cpu[i][2], curve.gpu[j][2]}
           /\ CurveTarget(curve, temps) >= curve.cpu[i][2]
           /\ CurveTarget(curve, temps) >= curve.gpu[j][2]

\* The fail-hot speed is one the user configured, and no temperature, known
\* or not, has a higher target: a controller that lost its sensors is never
\* slower than one that has them.
FailHotCoversEveryTarget ==
    curve # NoCurve =>
    /\ \/ \E i \in 1 .. Len(curve.cpu) : HighestFanTarget(curve) = curve.cpu[i][2]
       \/ \E i \in 1 .. Len(curve.gpu) : HighestFanTarget(curve) = curve.gpu[i][2]
    /\ \A c \in SomeTemperatures, g \in SomeTemperatures :
        CurveTarget(curve, [cpu |-> c, gpu |-> g]) <= HighestFanTarget(curve)

\* From any output to any target, a ramp is over after five steps.
RampIsShort == steps >= 5 => applied = target

\* What the controller aims for, falls back to and ramps through is the curve.
CurveIsFollowed == CurveIsThresholdSteps /\ FailHotCoversEveryTarget /\ RampIsShort
=============================================================================
