------------------------------ MODULE Breaker ------------------------------
(***************************************************************************)
(* The circuit breaker of one upstream: internal/upstream/breaker.go.      *)
(*                                                                         *)
(* Allow and RecordResult each run under b.mu from first to last read, so  *)
(* each is one atomic action; the concurrency is between requests, which   *)
(* call Allow once and, if admitted, RecordResult once, after a dispatch   *)
(* of any length.  A request admitted while the breaker was closed may     *)
(* therefore report when it is open or half open.                          *)
(*                                                                         *)
(* The callback onClose runs after the unlock and touches the upstream's   *)
(* debt, not the breaker: it is modelled in Router.tla.                    *)
(***************************************************************************)
EXTENDS Integers, FiniteSets

CONSTANTS
    Requests,                  \* requests dispatched to this upstream
    Streaming,                 \* those that stream their answer
    ConsecutiveFailThreshold,  \* BreakerConfig.ConsecutiveFailThreshold
    RateNum, RateDen,          \* FailureRateThreshold = RateNum / RateDen
    MinSamples,                \* the literal 5 of shouldOpenLocked
    RateWindow,                \* BreakerConfig.RateWindow, in ticks
    Cooldown,                  \* BreakerConfig.Cooldown, in ticks
    MaxTime                    \* bound on the clock

ASSUME BreakerAssumption ==
    /\ Streaming \subseteq Requests
    /\ ConsecutiveFailThreshold \in Nat \ {0}
    /\ RateNum \in Nat /\ RateDen \in Nat \ {0}
    /\ MinSamples \in Nat
    /\ RateWindow \in Nat \ {0}
    /\ Cooldown \in Nat \ {0}
    /\ MaxTime \in Nat

VARIABLES
    now,               \* nowFunc()
    state,             \* Breaker.state
    consecutiveFail,   \* Breaker.consecutiveFail
    openedAt,          \* Breaker.openedAt
    halfOpenInFlight,  \* Breaker.halfOpenInFlight
    events,            \* Breaker.events
    rq,                \* where each request stands
    probes             \* history: which requests were probes, admitted when

breakerVars == <<state, consecutiveFail, openedAt, halfOpenInFlight, events>>
vars == <<now, state, consecutiveFail, openedAt, halfOpenInFlight, events,
          rq, probes>>

Time == 0..MaxTime

(* One result in the trailing window.  The code keeps a slice; its order   *)
(* is never read, only how many there are and how many failed.  Naming the *)
(* request that reported each one keeps equal results apart in a set.      *)
Event == [req : Requests, at : Time, success : BOOLEAN]

Probe == [req : Requests, at : Time]

RequestState == {"new", "admitted", "probing", "refused", "done"}

Running(r) == rq[r] \in {"admitted", "probing"}

----------------------------------------------------------------------------

Init ==
    /\ now = 0
    /\ state = "closed"
    /\ consecutiveFail = 0
    /\ openedAt = 0
    /\ halfOpenInFlight = FALSE
    /\ events = {}
    /\ rq = [r \in Requests |-> "new"]
    /\ probes = {}

Tick ==
    /\ now < MaxTime
    /\ now' = now + 1
    /\ UNCHANGED <<breakerVars, rq, probes>>

----------------------------------------------------------------------------
(* Allow                                                                   *)

CooldownElapsed == now - openedAt >= Cooldown

(* Mutant: the half-open arm of Allow does not look at halfOpenInFlight.   *)
MayProbeUnguarded ==
    \/ state = "open" /\ CooldownElapsed
    \/ state = "half_open"

MayProbe ==
    \/ state = "open" /\ CooldownElapsed
    \/ state = "half_open" /\ ~halfOpenInFlight

AllowClosed(r) ==
    /\ rq[r] = "new"
    /\ state = "closed"
    /\ rq' = [rq EXCEPT ![r] = "admitted"]
    /\ UNCHANGED <<now, breakerVars, probes>>

(* Mutant: Allow half-opens without claiming the probe.                    *)
AllowProbeUnclaimed(r) ==
    /\ rq[r] = "new"
    /\ MayProbe
    /\ state' = "half_open"
    /\ rq' = [rq EXCEPT ![r] = "probing"]
    /\ probes' = probes \cup {[req |-> r, at |-> now]}
    /\ UNCHANGED <<now, consecutiveFail, openedAt, halfOpenInFlight, events>>

AllowProbe(r) ==
    /\ rq[r] = "new"
    /\ MayProbe
    /\ state' = "half_open"
    /\ halfOpenInFlight' = TRUE
    /\ rq' = [rq EXCEPT ![r] = "probing"]
    /\ probes' = probes \cup {[req |-> r, at |-> now]}
    /\ UNCHANGED <<now, consecutiveFail, openedAt, events>>

Refuse(r) ==
    /\ rq[r] = "new"
    /\ state # "closed"
    /\ ~MayProbe
    /\ rq' = [rq EXCEPT ![r] = "refused"]
    /\ UNCHANGED <<now, breakerVars, probes>>

----------------------------------------------------------------------------
(* RecordResult                                                            *)

(* appendPruned: the window with r's result added and everything at or     *)
(* before the cutoff dropped.                                              *)
Window(r, ok) ==
    {e \in events \cup {[req |-> r, at |-> now, success |-> ok]} :
        e.at > now - RateWindow}

(* shouldOpenLocked, evaluated on the counter and window just updated.     *)
ShouldOpen(fails, window) ==
    \/ fails >= ConsecutiveFailThreshold
    \/ /\ Cardinality(window) >= MinSamples
       /\ Cardinality({e \in window : ~e.success}) * RateDen
            >= RateNum * Cardinality(window)

Report(r) ==
    /\ Running(r)
    /\ rq' = [rq EXCEPT ![r] = "done"]
    /\ UNCHANGED <<now, probes>>

(* Mutant: closing does not reset the failure count.                       *)
HalfOpenSuccessKeepsCount(r) ==
    /\ Report(r)
    /\ state = "half_open"
    /\ state' = "closed"
    /\ halfOpenInFlight' = FALSE
    /\ events' = {}
    /\ UNCHANGED <<consecutiveFail, openedAt>>

HalfOpenSuccess(r) ==
    /\ Report(r)
    /\ state = "half_open"
    /\ state' = "closed"
    /\ halfOpenInFlight' = FALSE
    /\ consecutiveFail' = 0
    /\ events' = {}
    /\ UNCHANGED openedAt

(* Mutants: a failed probe frees the slot without reopening; reopens       *)
(* without restarting the cooldown; stores the deadline for the start.     *)
HalfOpenFailureStays(r) ==
    /\ Report(r)
    /\ state = "half_open"
    /\ halfOpenInFlight' = FALSE
    /\ consecutiveFail' = 0
    /\ events' = Window(r, FALSE)
    /\ UNCHANGED <<state, openedAt>>

HalfOpenFailureOpenedAt(r, at) ==
    /\ Report(r)
    /\ state = "half_open"
    /\ state' = "open"
    /\ halfOpenInFlight' = FALSE
    /\ openedAt' = at
    /\ consecutiveFail' = 0
    /\ events' = Window(r, FALSE)

HalfOpenFailureOldCooldown(r) == HalfOpenFailureOpenedAt(r, openedAt)

HalfOpenFailureDeadline(r) == HalfOpenFailureOpenedAt(r, now + Cooldown)

HalfOpenFailure(r) ==
    /\ Report(r)
    /\ state = "half_open"
    /\ state' = "open"
    /\ halfOpenInFlight' = FALSE
    /\ openedAt' = now
    /\ consecutiveFail' = 0
    /\ events' = Window(r, FALSE)

Success(r) ==
    /\ Report(r)
    /\ state # "half_open"
    /\ consecutiveFail' = 0
    /\ events' = Window(r, TRUE)
    /\ UNCHANGED <<state, openedAt, halfOpenInFlight>>

Failure(r) ==
    LET opens == state = "closed"
                   /\ ShouldOpen(consecutiveFail + 1, Window(r, FALSE))
    IN  /\ Report(r)
        /\ state # "half_open"
        /\ consecutiveFail' = consecutiveFail + 1
        /\ events' = Window(r, FALSE)
        /\ state' = IF opens THEN "open" ELSE state
        /\ openedAt' = IF opens THEN now ELSE openedAt
        /\ UNCHANGED halfOpenInFlight

RecordResult(r) ==
    \/ HalfOpenSuccess(r)
    \/ HalfOpenFailure(r)
    \/ Success(r)
    \/ Failure(r)

----------------------------------------------------------------------------

Next ==
    \/ Tick
    \/ \E r \in Requests :
          \/ AllowClosed(r)
          \/ AllowProbe(r)
          \/ Refuse(r)
          \/ RecordResult(r)

Spec == Init /\ [][Next]_vars

(* A dispatch that does not stream ends: the request budget cancels its    *)
(* context, and each way out of serveNonStream calls RecordResult, before  *)
(* anything is written to the client.  serveStream writes to its client    *)
(* first (stream.go:128-136), the server has no write timeout              *)
(* (main.go:64-67), and a write is not ended by the context: nothing       *)
(* obliges a stream to report whose client stays but stops reading.        *)
Fairness == \A r \in Requests \ Streaming : WF_vars(RecordResult(r))

FairSpec == Spec /\ Fairness

----------------------------------------------------------------------------
(* Properties                                                              *)

TypeOK ==
    /\ now \in Time
    /\ state \in {"closed", "open", "half_open"}
    /\ consecutiveFail \in Nat
    /\ openedAt \in Time
    /\ halfOpenInFlight \in BOOLEAN
    /\ events \subseteq Event
    /\ rq \in [Requests -> RequestState]
    /\ probes \subseteq Probe

(* A closed breaker has failures left before it opens.  Results of         *)
(* requests admitted earlier still raise consecutiveFail while the breaker *)
(* is open, past the threshold: RecordResult must not let the breaker      *)
(* close with such a count, or the next single failure would reopen it.    *)
ClosedBelowThreshold ==
    state = "closed" => consecutiveFail < ConsecutiveFailThreshold

(* A half-open breaker refuses everyone, so it must never be left to       *)
(* itself: whatever stray results did before, the probe admitted last is   *)
(* still running and will decide.  halfOpenInFlight says so.               *)
HalfOpenOccupied ==
    /\ halfOpenInFlight = (state = "half_open")
    /\ state = "half_open" =>
          \E p \in probes :
             /\ rq[p.req] = "probing"
             /\ \A q \in probes : q.at <= p.at

(* The recovering upstream is spared: two probes are always a full         *)
(* cooldown apart.  Stray results may reopen or close the breaker under a  *)
(* running probe, and it may fail and reopen later; none of it brings the  *)
(* next probe forward.                                                     *)
ProbesSpaced ==
    \A p, q \in probes :
        p = q \/ p.at - q.at >= Cooldown \/ q.at - p.at >= Cooldown

(* A breaker does not stay half open while a request runs that is bound to *)
(* end: RecordResult, called by a probe or by whoever was admitted before, *)
(* takes it out, so admission resumes or the cooldown starts again.  There *)
(* is no such promise for a probe that streams: see Fairness.              *)
HalfOpenResolves ==
    \A r \in Requests \ Streaming :
        state = "half_open" /\ Running(r) ~> state # "half_open"

(* The breaker keeps the promise stated in Circuit.tla.                    *)
Contract == INSTANCE Circuit WITH
    Callers <- Requests,
    cooled  <- state = "open" /\ CooldownElapsed,
    running <- {r \in Requests : Running(r)}

ImplementsCircuit == Contract!Spec

============================================================================
