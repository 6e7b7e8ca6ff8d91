------------------------- MODULE MCServerLifecycle -------------------------
(***************************************************************************)
(* Two processes on a host with both loopback families: a server and a     *)
(* second start, or a restart.                                             *)
(***************************************************************************)
EXTENDS ServerLifecycle, TLC

CONSTANTS p1, p2

TwoProcesses == {p1, p2}
Symmetry == Permutations(TwoProcesses)
BothFamilies == {"ipv4", "ipv6"}
=============================================================================
