------------------------- MODULE MCConvertPrimaries -------------------------
(* Instances of ConvertPrimaries for TLC: one host with two primaries and   *)
(* the master, or the two primaries on a host beside the master's.          *)
EXTENDS ConvertPrimaries, TLC

CONSTANTS c1, c2, h1, h2, s1, s2, f1, f2

OnlyConverter == {c1}
TwoCallers == {c1, c2}
OneHost == {h1}
TwoHosts == {h1, h2}
TwoSegments == {s1, s2}
OneFile == {f1}
TwoFiles == {f1, f2}
OnFirst == [s \in Segments |-> h1]
OnSecond == [s \in Segments |-> h2]

\* The primaries are alike, and so are the files.
Alike == Permutations({s1, s2}) \cup Permutations({f1, f2})
=============================================================================
