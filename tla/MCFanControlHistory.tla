------------------------ MODULE MCFanControlHistory ------------------------
(***************************************************************************)
(* FanControlHistory with the curves and measurements of MCFanControl.     *)
(***************************************************************************)
EXTENDS FanControlHistory, MCFanControl
=============================================================================
