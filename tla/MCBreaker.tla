----------------------------- MODULE MCBreaker -----------------------------
(* Breaker.tla for TLC: a threshold of two failures, or half of at least   *)
(* MinSamples results within RateWindow ticks, and requests enough for two *)
(* failures, a stray result and two probes.  One of them streams.          *)
EXTENDS Breaker

CONSTANTS r1, r2, r3, r4, r5

FiveRequests == {r1, r2, r3, r4, r5}
OneStream == {r5}
============================================================================
