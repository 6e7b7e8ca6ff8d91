--------------------------- MODULE MCConfigStore ---------------------------
(* Bounds for model-checking ConfigStore. *)
EXTENDS ConfigStore, TLC
CONSTANTS s1, s2
TwoSnapshots == {s1, s2}
=============================================================================
