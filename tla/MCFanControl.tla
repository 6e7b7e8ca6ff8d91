---------------------------- MODULE MCFanControl ----------------------------
(***************************************************************************)
(* FanControl with two small curves.  The percentages are nine points      *)
(* apart, so a ramp takes one intermediate step over eighteen points.      *)
(***************************************************************************)
EXTENDS FanControlHandoff

Steep == [cpu |-> <<<<40, 20>>, <<80, 38>>>>, gpu |-> <<<<40, 20>>>>]
Flat  == [cpu |-> <<<<40, 20>>>>, gpu |-> <<<<40, 29>>, <<70, 20>>>>]
Cool  == [cpu |-> 35, gpu |-> 35]
Hot   == [cpu |-> 90, gpu |-> 50]

MCCurves == {Steep, Flat}
OneCurve == {Steep}
MCMeasurements == {Cool, Hot}
OneMeasurement == {Cool}

\* A server that starts in fixed mode and has left it or not; the way into the
\* mode is in the runs of Spec and HistorySpec.
FixedInit == Init /\ doFixedSpeed
FixedSpec == FixedInit /\ [][Next]_vars /\ Fairness
=============================================================================
