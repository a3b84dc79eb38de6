----------------------------- MODULE MCRouter ------------------------------
(* Router.tla for TLC: two upstreams of equal weight.                      *)
EXTENDS Router, TLC

CONSTANTS u1, u2, r1, r2

TwoUpstreams == {u1, u2}
TwoRequests == {r1, r2}
OneRequest == {r1}

EqualWeights == [u \in Upstreams |-> 1]

AllAble == {Upstreams}
AnyShape == {Upstreams, {u2}, {}}

Both == {TRUE, FALSE}
Streams == {TRUE}
Plain == {FALSE}

AllEndings == {"expired", "gone"}
Expiry == {"expired"}
NoEnding == {}

Nobody == {}
OnlyU1 == {u1}

OneStalls == {r1}

Interchangeable == Permutations(Requests)
============================================================================
