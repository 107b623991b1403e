-------------------------- MODULE MCClusterConfig --------------------------
(* Instances of ClusterConfig for TLC: an old cluster that is found with    *)
(* one or two primaries, and a new one with one, on the same or another     *)
(* host.                                                                    *)
EXTENDS ClusterConfig, TLC

CONSTANTS c1, c2, h1, h2

Seg(k, content, host) ==
  [cluster |-> k, content |-> content, dbid |-> content + 2, host |-> host, pref |-> "p"]

AllSegments == {Seg(k, content, h) : k \in Kinds, content \in -1..1, h \in {h1, h2}}

AllAnswers == [k \in Kinds |->
  IF k = "old"
  THEN {{Seg(k, -1, h1), Seg(k, 0, h1)}, {Seg(k, -1, h1), Seg(k, 0, h1), Seg(k, 1, h2)}}
  ELSE {{Seg(k, -1, h1), Seg(k, 0, h1)}, {Seg(k, -1, h1), Seg(k, 0, h2)}}]

Length(d) == 1 + Cardinality(d)

OneCaller == {c1}
TwoCallers == {c1, c2}

\* The handlers are alike.
Alike == Permutations(TwoCallers)
=============================================================================
