--------------------------- MODULE BreakerProofs ---------------------------
(***************************************************************************)
(* What TLC checks of Breaker.tla for five requests and a short clock,     *)
(* proved for any set of requests, any thresholds, window and cooldown.    *)
(*                                                                         *)
(* Safety rests on one inductive invariant, IInv: the three safety         *)
(* properties are not inductive on their own.  That two probes are a       *)
(* cooldown apart needs to know that no probe is later than the opening    *)
(* the next one waits for (OpenedAfterProbes), and that a half-open        *)
(* breaker never admits another (HalfOpenOccupied).                        *)
(***************************************************************************)
EXTENDS Breaker, TLAPS

(* Nothing is dated in the future, and an open breaker was opened no       *)
(* earlier than its last probe was admitted.                               *)
PastProbes == \A p \in probes : p.at <= now

OpenedAfterProbes ==
    state = "open" => \A p \in probes : p.at <= openedAt

IInv ==
    /\ TypeOK
    /\ ClosedBelowThreshold
    /\ HalfOpenOccupied
    /\ ProbesSpaced
    /\ PastProbes
    /\ OpenedAfterProbes

USE DEF Time

----------------------------------------------------------------------------

(* Pruning keeps the window a set of events: appendPruned drops, it never  *)
(* invents.                                                                *)
LEMMA WindowType ==
    ASSUME TypeOK, NEW r \in Requests, NEW ok \in BOOLEAN
    PROVE  Window(r, ok) \subseteq Event
  BY DEF TypeOK, Window, Event

LEMMA TypeInit == Init => TypeOK
<1> SUFFICES ASSUME Init PROVE TypeOK
  OBVIOUS
<1>1. now \in Time /\ openedAt \in Time /\ consecutiveFail \in Nat
  BY BreakerAssumption DEF BreakerAssumption, Init
<1>2. halfOpenInFlight \in BOOLEAN
  BY Zenon DEF Init
<1>3. QED
  BY <1>1, <1>2 DEF Init, TypeOK, RequestState

LEMMA TypeStep == TypeOK /\ [Next]_vars => TypeOK'
<1> SUFFICES ASSUME TypeOK, [Next]_vars PROVE TypeOK'
  OBVIOUS
<1> USE BreakerAssumption DEF BreakerAssumption, TypeOK, RequestState
<1>1. CASE Tick
  BY <1>1 DEF Tick, breakerVars
<1>2. CASE \E r \in Requests : AllowClosed(r)
  BY <1>2 DEF AllowClosed, breakerVars
<1>3. CASE \E r \in Requests : AllowProbe(r)
  BY <1>3 DEF AllowProbe, Probe
<1>4. CASE \E r \in Requests : Refuse(r)
  BY <1>4 DEF Refuse, breakerVars
<1>5. ASSUME NEW r \in Requests, HalfOpenSuccess(r) PROVE TypeOK'
  BY <1>5 DEF HalfOpenSuccess, Report
<1>6. ASSUME NEW r \in Requests, HalfOpenFailure(r) PROVE TypeOK'
  BY <1>6, WindowType DEF HalfOpenFailure, Report
<1>7. ASSUME NEW r \in Requests, Success(r) PROVE TypeOK'
  BY <1>7, WindowType DEF Success, Report
<1>8. ASSUME NEW r \in Requests, Failure(r) PROVE TypeOK'
  <2>1. (state' = "open" /\ openedAt' = now)
          \/ (state' = state /\ openedAt' = openedAt)
    BY <1>8 DEF Failure
  <2>2. events' \subseteq Event
    BY <1>8, WindowType DEF Failure
  <2>3. now' = now /\ consecutiveFail' = consecutiveFail + 1
          /\ halfOpenInFlight' = halfOpenInFlight /\ probes' = probes
          /\ rq' = [rq EXCEPT ![r] = "done"]
    BY <1>8 DEF Failure, Report
  <2>4. QED
    BY <2>1, <2>2, <2>3
<1>9. CASE UNCHANGED vars
  BY <1>9 DEF vars
<1>10. QED
  BY <1>1, <1>2, <1>3, <1>4, <1>5, <1>6, <1>7, <1>8, <1>9
     DEF Next, RecordResult

(* Every variable keeps its type, whatever results come in which order.    *)
THEOREM TypeCorrect == Spec => []TypeOK
  BY TypeInit, TypeStep, PTL DEF Spec

----------------------------------------------------------------------------
(* The inductive invariant.                                                *)

LEMMA InvInit == Init => IInv
<1> SUFFICES ASSUME Init PROVE IInv
  OBVIOUS
<1>1. TypeOK
  BY TypeInit
<1>2. ClosedBelowThreshold
  BY BreakerAssumption DEF BreakerAssumption, Init, ClosedBelowThreshold
<1>3. HalfOpenOccupied
  BY Zenon DEF Init, HalfOpenOccupied
<1>4. ProbesSpaced /\ PastProbes /\ OpenedAfterProbes
  BY DEF Init, ProbesSpaced, PastProbes, OpenedAfterProbes
<1>5. QED
  BY <1>1, <1>2, <1>3, <1>4 DEF IInv

(* A report that leaves the half-open state, or comes outside it, and      *)
(* admits nobody, cannot disturb the spacing of the probes.                *)
LEMMA ReportKeepsSpacing ==
    ASSUME ProbesSpaced, PastProbes, NEW r \in Requests, Report(r)
    PROVE  ProbesSpaced' /\ PastProbes'
  BY DEF Report, ProbesSpaced, PastProbes

LEMMA InvStep == IInv /\ [Next]_vars => IInv'
<1> SUFFICES ASSUME IInv, [Next]_vars PROVE IInv'
  OBVIOUS
<1> USE DEF IInv
<1>0. TypeOK'
  BY TypeStep
<1>1. CASE Tick
  <2>1. ClosedBelowThreshold' /\ ProbesSpaced' /\ OpenedAfterProbes'
    BY <1>1 DEF Tick, breakerVars, ClosedBelowThreshold, ProbesSpaced,
                OpenedAfterProbes
  <2>2. HalfOpenOccupied'
    BY <1>1, Zenon DEF Tick, breakerVars, HalfOpenOccupied
  <2>3. PastProbes'
    BY <1>1 DEF Tick, PastProbes, TypeOK, Probe
  <2>4. QED
    BY <1>0, <2>1, <2>2, <2>3
<1>2. ASSUME NEW r \in Requests, AllowClosed(r) PROVE IInv'
  <2>1. ClosedBelowThreshold' /\ ProbesSpaced' /\ PastProbes'
          /\ OpenedAfterProbes'
    BY <1>2 DEF AllowClosed, breakerVars, ClosedBelowThreshold, ProbesSpaced,
                PastProbes, OpenedAfterProbes
  <2>2. HalfOpenOccupied'
    BY <1>2, Zenon DEF AllowClosed, breakerVars, HalfOpenOccupied
  <2>3. QED
    BY <1>0, <2>1, <2>2
<1>3. ASSUME NEW r \in Requests, AllowProbe(r) PROVE IInv'
  <2> DEFINE p == [req |-> r, at |-> now]
  <2>1. state = "open" /\ CooldownElapsed
    BY <1>3 DEF AllowProbe, MayProbe, HalfOpenOccupied
  <2>2. probes' = probes \cup {p} /\ now' = now
    BY <1>3 DEF AllowProbe
  <2>3. \A q \in probes : now - q.at >= Cooldown
    BY <2>1, BreakerAssumption
       DEF CooldownElapsed, OpenedAfterProbes, TypeOK, Probe, BreakerAssumption
  <2>4. ProbesSpaced'
    BY <2>2, <2>3 DEF ProbesSpaced
  <2>5. PastProbes'
    BY <2>2 DEF PastProbes, TypeOK
  <2>6. HalfOpenOccupied'
    <3>1. state' = "half_open" /\ halfOpenInFlight' = TRUE
            /\ rq'[p.req] = "probing"
      BY <1>3 DEF AllowProbe, TypeOK
    <3>2. \A q \in probes' : q.at <= p.at
      BY <2>2 DEF PastProbes, TypeOK
    <3>3. QED
      BY <2>2, <3>1, <3>2, Zenon DEF HalfOpenOccupied
  <2>7. ClosedBelowThreshold' /\ OpenedAfterProbes'
    BY <1>3 DEF AllowProbe, ClosedBelowThreshold, OpenedAfterProbes
  <2>8. QED
    BY <1>0, <2>4, <2>5, <2>6, <2>7
<1>4. ASSUME NEW r \in Requests, Refuse(r) PROVE IInv'
  <2>1. ClosedBelowThreshold' /\ ProbesSpaced' /\ PastProbes'
          /\ OpenedAfterProbes'
    BY <1>4 DEF Refuse, breakerVars, ClosedBelowThreshold, ProbesSpaced,
                PastProbes, OpenedAfterProbes
  <2>2. \A q \in Requests : rq[q] = "probing" => rq'[q] = "probing"
    BY <1>4 DEF Refuse, TypeOK
  <2>3. \A p \in probes : p.req \in Requests
    BY DEF TypeOK, Probe
  <2>4. HalfOpenOccupied'
    BY <1>4, <2>2, <2>3, Zenon DEF Refuse, breakerVars, HalfOpenOccupied
  <2>5. QED
    BY <1>0, <2>1, <2>4
<1>5. ASSUME NEW r \in Requests, HalfOpenSuccess(r) PROVE IInv'
  <2>1. ProbesSpaced' /\ PastProbes'
    BY <1>5, ReportKeepsSpacing DEF HalfOpenSuccess
  <2>2. ClosedBelowThreshold' /\ OpenedAfterProbes'
    BY <1>5, BreakerAssumption
       DEF HalfOpenSuccess, ClosedBelowThreshold, OpenedAfterProbes,
           BreakerAssumption
  <2>3. HalfOpenOccupied'
    BY <1>5, Zenon DEF HalfOpenSuccess, HalfOpenOccupied
  <2>4. QED
    BY <1>0, <2>1, <2>2, <2>3
<1>6. ASSUME NEW r \in Requests, HalfOpenFailure(r) PROVE IInv'
  <2>1. ProbesSpaced' /\ PastProbes'
    BY <1>6, ReportKeepsSpacing DEF HalfOpenFailure
  <2>2. ClosedBelowThreshold' /\ OpenedAfterProbes'
    BY <1>6 DEF HalfOpenFailure, Report, ClosedBelowThreshold,
                OpenedAfterProbes, PastProbes
  <2>3. HalfOpenOccupied'
    BY <1>6, Zenon DEF HalfOpenFailure, HalfOpenOccupied
  <2>4. QED
    BY <1>0, <2>1, <2>2, <2>3
<1>7. ASSUME NEW r \in Requests, Success(r) PROVE IInv'
  <2>1. ProbesSpaced' /\ PastProbes'
    BY <1>7, ReportKeepsSpacing DEF Success
  <2>2. ClosedBelowThreshold' /\ OpenedAfterProbes'
    BY <1>7, BreakerAssumption
       DEF Success, Report, ClosedBelowThreshold, OpenedAfterProbes,
           BreakerAssumption
  <2>3. HalfOpenOccupied'
    BY <1>7, Zenon DEF Success, HalfOpenOccupied
  <2>4. QED
    BY <1>0, <2>1, <2>2, <2>3
<1>8. ASSUME NEW r \in Requests, Failure(r) PROVE IInv'
  <2>1. ProbesSpaced' /\ PastProbes'
    BY <1>8, ReportKeepsSpacing DEF Failure
  <2>2. ClosedBelowThreshold'
    <3> SUFFICES ASSUME state' = "closed"
                 PROVE  consecutiveFail' < ConsecutiveFailThreshold
      BY DEF ClosedBelowThreshold
    <3>1. state = "closed"
            /\ ~ ShouldOpen(consecutiveFail + 1, Window(r, FALSE))
      BY <1>8 DEF Failure
    <3>2. ~ (consecutiveFail + 1 >= ConsecutiveFailThreshold)
      BY <3>1 DEF ShouldOpen
    <3>3. consecutiveFail' = consecutiveFail + 1
      BY <1>8 DEF Failure
    <3>4. QED
      BY <3>2, <3>3, BreakerAssumption DEF TypeOK, BreakerAssumption
  <2>3. OpenedAfterProbes'
    BY <1>8 DEF Failure, Report, OpenedAfterProbes, PastProbes
  <2>4. state # "half_open" /\ state' # "half_open"
          /\ halfOpenInFlight' = halfOpenInFlight
    BY <1>8 DEF Failure
  <2>5. HalfOpenOccupied'
    BY <2>4, Zenon DEF HalfOpenOccupied
  <2>6. QED
    BY <1>0, <2>1, <2>2, <2>3, <2>5
<1>9. CASE UNCHANGED vars
  <2>1. ClosedBelowThreshold' /\ ProbesSpaced' /\ PastProbes'
          /\ OpenedAfterProbes'
    BY <1>9 DEF vars, ClosedBelowThreshold, ProbesSpaced, PastProbes,
                OpenedAfterProbes
  <2>2. HalfOpenOccupied'
    BY <1>9, Zenon DEF vars, HalfOpenOccupied
  <2>3. QED
    BY <1>0, <2>1, <2>2
<1>10. QED
  BY <1>1, <1>2, <1>3, <1>4, <1>5, <1>6, <1>7, <1>8, <1>9
     DEF Next, RecordResult

(* IInv is an invariant of the breaker.                                     *)
THEOREM Inductive == Spec => []IInv
  BY InvInit, InvStep, PTL DEF Spec

----------------------------------------------------------------------------
(* The safety properties.                                                  *)

(* A closed breaker always has failures left before it opens.              *)
THEOREM ClosedIsBelowThreshold == Spec => []ClosedBelowThreshold
<1>1. IInv => ClosedBelowThreshold
  BY DEF IInv
<1>2. QED
  BY <1>1, Inductive, PTL

(* A half-open breaker has a probe running that will decide it.            *)
THEOREM HalfOpenIsOccupied == Spec => []HalfOpenOccupied
<1>1. IInv => HalfOpenOccupied
  BY DEF IInv
<1>2. QED
  BY <1>1, Inductive, PTL

(* Two probes of an upstream are a full cooldown apart.                    *)
THEOREM ProbesAreSpaced == Spec => []ProbesSpaced
<1>1. IInv => ProbesSpaced
  BY DEF IInv
<1>2. QED
  BY <1>1, Inductive, PTL

----------------------------------------------------------------------------
(* Breaker implements Circuit.                                             *)

LEMMA ContractInit == Init => Contract!Init
  BY DEF Init, Contract!Init, Running

LEMMA ContractStep ==
    IInv /\ [Next]_vars => [Contract!Next]_(Contract!cvars)
<1> SUFFICES ASSUME IInv, [Next]_vars
             PROVE  [Contract!Next]_(Contract!cvars)
  OBVIOUS
<1> DEFINE run == {r \in Requests : Running(r)}
           cool == state = "open" /\ CooldownElapsed
<1>0. now \in Int /\ openedAt \in Int /\ rq \in [Requests -> RequestState]
  BY BreakerAssumption DEF IInv, TypeOK, BreakerAssumption
<1>1. ASSUME NEW r \in Requests, AllowClosed(r) PROVE Contract!Admit(r)
  <2>1. run' = run \cup {r} /\ r \notin run
    BY <1>0, <1>1 DEF AllowClosed, Running
  <2>2. QED
    BY <1>1, <2>1 DEF AllowClosed, breakerVars, Contract!Admit, CooldownElapsed
<1>2. ASSUME NEW r \in Requests, AllowProbe(r) PROVE Contract!Probe(r)
  <2>1. run' = run \cup {r} /\ r \notin run
    BY <1>0, <1>2 DEF AllowProbe, Running
  <2>2. cool /\ state' = "half_open"
    BY <1>2 DEF AllowProbe, MayProbe, IInv, HalfOpenOccupied
  <2>3. QED
    BY <1>2, <2>1, <2>2 DEF Contract!Probe
<1>3. ASSUME NEW r \in Requests, Report(r)
      PROVE  r \in run /\ run' = run \ {r}
  BY <1>0, <1>3 DEF Report, Running
<1>4. ASSUME NEW r \in Requests, HalfOpenSuccess(r) PROVE Contract!Succeed(r)
  BY <1>3, <1>4 DEF HalfOpenSuccess, Contract!Succeed
<1>5. ASSUME NEW at \in Int, now' = at, openedAt' = at PROVE ~ cool'
  BY <1>5, BreakerAssumption DEF CooldownElapsed, BreakerAssumption
<1>6. ASSUME NEW r \in Requests, HalfOpenFailure(r)
      PROVE  Contract!OpenOnFailure(r)
  <2>1. now' = now /\ openedAt' = now
    BY <1>6 DEF HalfOpenFailure, Report
  <2>2. ~ cool'
    BY <1>0, <1>5, <2>1
  <2>3. QED
    BY <1>3, <1>6, <2>2 DEF HalfOpenFailure, Contract!OpenOnFailure
<1>7. ASSUME NEW r \in Requests, Success(r) PROVE Contract!Succeed(r)
  <2>1. cool' = cool
    BY <1>7 DEF Success, Report, CooldownElapsed
  <2>2. QED
    BY <1>3, <1>7, <2>1 DEF Success, Contract!Succeed
<1>8. ASSUME NEW r \in Requests, Failure(r) PROVE Contract!Report(r)
  <2>0. state # "half_open" /\ now' = now
    BY <1>8 DEF Failure, Report
  <2>r. r \in run /\ run' = run \ {r}
    BY <1>3, <1>8 DEF Failure
  <2>1. CASE state' = state /\ openedAt' = openedAt
    <3>1. cool' = cool
      BY <2>0, <2>1 DEF CooldownElapsed
    <3>2. QED
      BY <2>0, <2>r, <2>1, <3>1 DEF Contract!StayOnFailure, Contract!Report
  <2>2. CASE state = "closed" /\ state' = "open" /\ openedAt' = now
    <3>1. ~ cool'
      BY <1>0, <1>5, <2>0, <2>2
    <3>2. QED
      BY <2>r, <2>2, <3>1 DEF Contract!OpenOnFailure, Contract!Report
  <2>3. QED
    BY <1>8, <2>1, <2>2 DEF Failure
<1>9. ASSUME NEW r \in Requests, Refuse(r) PROVE UNCHANGED Contract!cvars
  <2>1. run' = run
    BY <1>0, <1>9 DEF Refuse, Running
  <2>2. QED
    BY <1>9, <2>1 DEF Refuse, breakerVars, CooldownElapsed, Contract!cvars
<1>10. ASSUME Tick PROVE Contract!CoolDown \/ UNCHANGED Contract!cvars
  <2>1. state' = state /\ run' = run
    BY <1>10 DEF Tick, breakerVars, Running
  <2>2. cool => cool'
    BY <1>0, <1>10, BreakerAssumption
       DEF Tick, breakerVars, CooldownElapsed, BreakerAssumption
  <2>3. cool' => state = "open"
    BY <2>1
  <2>4. CASE cool' /\ ~ cool
    BY <2>1, <2>3, <2>4 DEF Contract!CoolDown
  <2>5. CASE cool' = cool
    BY <2>1, <2>5 DEF Contract!cvars
  <2>6. QED
    BY <2>2, <2>4, <2>5, Zenon
<1>11. ASSUME UNCHANGED vars PROVE UNCHANGED Contract!cvars
  BY <1>11 DEF vars, Running, CooldownElapsed, Contract!cvars
<1>12. QED
  BY <1>1, <1>2, <1>4, <1>6, <1>7, <1>8, <1>9, <1>10, <1>11
     DEF Next, RecordResult, Contract!Next, Contract!Report

(* Allow and RecordResult, with their clock, counter and window, refine    *)
(* the circuit that Router.tla puts in front of every upstream.            *)
THEOREM BreakerRefinesCircuit == Spec => ImplementsCircuit
  BY ContractInit, ContractStep, Inductive, PTL
     DEF Spec, ImplementsCircuit, Contract!Spec

============================================================================
