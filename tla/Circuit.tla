------------------------------ MODULE Circuit ------------------------------
(***************************************************************************)
(* What the circuit breaker of one upstream promises its callers, without  *)
(* clocks, counters or windows (README.md "Package layout", the doc        *)
(* comment of type Breaker in internal/upstream/breaker.go):               *)
(*                                                                         *)
(*   - a closed circuit admits every caller;                               *)
(*   - an open circuit refuses everyone until its cooldown has elapsed,    *)
(*     then admits one caller and becomes half open;                       *)
(*   - a half-open circuit refuses everyone, and the next result reported  *)
(*     closes it (success) or opens it again (failure);                    *)
(*   - a failure reported to a closed circuit may open it: whether it does *)
(*     depends on the failure accounting that Breaker.tla has in full.     *)
(*                                                                         *)
(* Breaker.tla implements this module, and Router.tla puts one such        *)
(* circuit in front of every upstream.                                     *)
(***************************************************************************)
CONSTANT Callers    \* the requests that may consult this breaker

VARIABLES
    state,          \* "closed", "open" or "half_open"
    cooled,         \* open, and the cooldown has elapsed
    running         \* callers admitted that have not reported a result

cvars == <<state, cooled, running>>

TypeOK ==
    /\ state \in {"closed", "open", "half_open"}
    /\ cooled \in BOOLEAN
    /\ running \subseteq Callers

Init ==
    /\ state = "closed"
    /\ cooled = FALSE
    /\ running = {}

----------------------------------------------------------------------------
(* Admission.  A refusal changes nothing and is a stuttering step.         *)

Admit(r) ==
    /\ state = "closed"
    /\ r \notin running
    /\ running' = running \cup {r}
    /\ UNCHANGED <<state, cooled>>

Probe(r) ==
    /\ state = "open"
    /\ cooled
    /\ r \notin running
    /\ state' = "half_open"
    /\ cooled' = FALSE
    /\ running' = running \cup {r}

----------------------------------------------------------------------------
(* Results.  Whoever reports first to a half-open circuit decides it.      *)

Succeed(r) ==
    /\ r \in running
    /\ running' = running \ {r}
    /\ state' = IF state = "half_open" THEN "closed" ELSE state
    /\ UNCHANGED cooled

StayOnFailure(r) ==
    /\ r \in running
    /\ state # "half_open"
    /\ running' = running \ {r}
    /\ UNCHANGED <<state, cooled>>

OpenOnFailure(r) ==
    /\ r \in running
    /\ state # "open"
    /\ running' = running \ {r}
    /\ state' = "open"
    /\ cooled' = FALSE

CoolDown ==
    /\ state = "open"
    /\ ~cooled
    /\ cooled' = TRUE
    /\ UNCHANGED <<state, running>>

----------------------------------------------------------------------------

Report(r) == Succeed(r) \/ StayOnFailure(r) \/ OpenOnFailure(r)

Next ==
    \/ \E r \in Callers : Admit(r) \/ Probe(r) \/ Report(r)
    \/ CoolDown

Spec == Init /\ [][Next]_cvars
============================================================================
