------------------------------ MODULE MCStats ------------------------------
(* Stats.tla for TLC: two callers, two ids, and enough samples for a ring  *)
(* of four, the smallest in which the two percentiles have different ranks,*)
(* to go round.  The callers do the same.                                  *)
EXTENDS Stats

CONSTANTS c1, c2, u1, u2

TwoCallers == {c1, c2}
TwoUpstreams == {u1, u2}
OneAndTwo == {1, 2}
SameCallers == Permutations(TwoCallers)
============================================================================
