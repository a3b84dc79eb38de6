-------------------------- MODULE MCSlidingWindow --------------------------
(* SlidingWindow.tla behind the gate of TpmGate.tla for TLC: two requests  *)
(* and a ring of three slots that wraps.                                   *)
EXTENDS TpmGate, TLC

CONSTANTS p1, p2

TwoAdders == {p1, p2}

Interchangeable == Permutations(Adders)
============================================================================
