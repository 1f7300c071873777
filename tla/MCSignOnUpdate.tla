--------------------------- MODULE MCSignOnUpdate ---------------------------
(* SignOnUpdate on small instances.                                        *)
EXTENDS SignOnUpdate, TLC

CONSTANTS r1, s1, s2

(* The first request goes to one server, the others to another.            *)
MCHome == [r \in Request |-> IF r = r1 \/ s2 \notin Server THEN s1 ELSE s2]

MCSymmetry ==
  UNION {Permutations(S) : S \in {Index, Client, Instance, Url,
                                  Request \ {r1}}}
=============================================================================
