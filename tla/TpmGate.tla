------------------------------ MODULE TpmGate ------------------------------
(***************************************************************************)
(* The tokens-per-minute limit of one upstream: HasTPMCapacity, asked when *)
(* a request gates its candidates (internal/router/gate.go), and           *)
(* ReserveTPM, called when it is dispatched (internal/proxy/proxy.go), on  *)
(* the window Upstream.tpmWindow.                                          *)
(*                                                                         *)
(* Nothing is held between the two: a request that passed may be selected  *)
(* and admitted at any later time, even in another minute, or never.       *)
(* HasTPMCapacity itself loads the stamp of the minute's slot and then its *)
(* bucket, while the Adds of other requests go through their three steps.  *)
(*                                                                         *)
(* A goroutine of SlidingWindow.tla is here a request in progress, which   *)
(* asks for room before each Add, and every estimate is one token.         *)
(***************************************************************************)
EXTENDS SlidingWindow

CONSTANT TPMLimit  \* Upstream.TPMLimit, in requests; without one, no gate

ASSUME LimitAssumption == TPMLimit \in Nat \ {0}

VARIABLE gate      \* each request: where it is before its Add, and the
                   \* minute it asks for

gateVars == <<now, stamp, bucket, add, added, overtaken, gate>>

Outside == [pc |-> "outside", minute |-> 0]

GateInit ==
    /\ Init
    /\ gate = [p \in Adders |-> Outside]

----------------------------------------------------------------------------
(* HasTPMCapacity(1).  A slot without this minute's stamp sums up to 0.    *)

Look(p) ==
    /\ gate[p].pc = "outside"
    /\ add[p].pc = "idle"
    /\ gate' = [gate EXCEPT ![p] =
           [pc |-> IF stamp[Slot(now)] # now THEN "passed" ELSE "load",
            minute |-> now]]
    /\ UNCHANGED vars

(* Mutant: the request's own estimate is left out of the check.            *)
LoadUncounted(p) ==
    /\ gate[p].pc = "load"
    /\ gate' = [gate EXCEPT ![p] =
           IF bucket[Slot(gate[p].minute)] <= TPMLimit
           THEN [@ EXCEPT !.pc = "passed"] ELSE Outside]
    /\ UNCHANGED vars

Load(p) ==
    /\ gate[p].pc = "load"
    /\ gate' = [gate EXCEPT ![p] =
           IF bucket[Slot(gate[p].minute)] + 1 <= TPMLimit
           THEN [@ EXCEPT !.pc = "passed"] ELSE Outside]
    /\ UNCHANGED vars

(* Another candidate is selected, or the breaker denies this one.          *)
PassedOver(p) ==
    /\ gate[p].pc = "passed"
    /\ gate' = [gate EXCEPT ![p] = Outside]
    /\ UNCHANGED vars

(* Admitted: ReserveTPM(1) begins.                                         *)
Reserve(p) ==
    /\ gate[p].pc = "passed"
    /\ Begin(p)
    /\ gate' = [gate EXCEPT ![p] = Outside]

GateNext ==
    \/ Tick /\ UNCHANGED gate
    \/ \E p \in Adders :
          \/ Look(p) \/ Load(p) \/ PassedOver(p) \/ Reserve(p)
          \/ (Swap(p) \/ Reset(p) \/ AddDelta(p)) /\ UNCHANGED gate

GateSpec == GateInit /\ [][GateNext]_gateVars

----------------------------------------------------------------------------
(* Properties                                                              *)

(* What is charged between check and charge is bounded by who is there: a  *)
(* minute's reservations exceed the limit by at most the other requests in *)
(* progress.  That holds for a minute whose first Add reset the bucket     *)
(* undisturbed.  An Add that overtook the reset was wiped out of what the  *)
(* gate reads, and then the limit may be filled, and exceeded, twice: once *)
(* before the reset by all but the request that resets, and once after.    *)
OvershootBounded ==
    LET others == Cardinality(Adders) - 1 IN
    \A m \in Trailing(Slots) :
        added[m] <= IF m \in overtaken
                    THEN (TPMLimit + others - 1) + (TPMLimit + others)
                    ELSE TPMLimit + others

============================================================================
