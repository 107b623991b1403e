------------------------- MODULE MCShutdownClusters -------------------------
(* Instances of ShutdownClusters for TLC.                                  *)
EXTENDS ShutdownClusters, TLC

CONSTANTS r1, r2

TwoRunners == {r1, r2}
Both == {"old", "new"}
Symmetry == Permutations(Runners)
=============================================================================
