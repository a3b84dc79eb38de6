------------------------------- MODULE Router -------------------------------
(***************************************************************************)
(* The life of chat requests in the proxy: internal/proxy/proxy.go's retry *)
(* loop around router.Candidates and router.Select, one dispatch at a time *)
(* (nonstream.go, stream.go), and the debt accounting that follows a       *)
(* delivered response (router/select.go).                                  *)
(*                                                                         *)
(* Requests run concurrently and share, per upstream, the circuit breaker, *)
(* the in-flight counter and the debt.  Only the breaker has a lock; the   *)
(* others are single atomic operations, and nothing is held between them:  *)
(* gating, selection, admission, the report to the breaker, the callback   *)
(* it invokes after unlocking and the credits to each candidate are        *)
(* separate steps here.                                                    *)
(*                                                                         *)
(* The breaker is the circuit of Circuit.tla, which Breaker.tla implements:*)
(* a failure may trip it, and once open it cools down.  A request's        *)
(* modality, tools, structured output and context window only select which *)
(* upstreams are able to serve it, for good.  The TPM bucket is not a      *)
(* single atomic operation; TpmGate.tla models it, at the grain of its     *)
(* steps.  All this module says of it is that it may turn a request away.  *)
(***************************************************************************)
EXTENDS Integers, FiniteSets, FiniteSetsExt

CONSTANTS
    Upstreams,      \* the pool of the one public model
    Requests,       \* slots: how many requests may be in progress at once
    MaxAttempts,    \* server.max_attempts
    Weight,         \* PublicModel.Upstreams[i].Weight
    Metered,        \* upstreams with a TPM limit that may be exhausted
    Tokens,         \* usage.total_tokens of a response that reports it
    MaxSent,        \* bound on the tokens delivered in a behaviour
    Shapes,         \* the sets of able upstreams that requests come with
    Modes,          \* values of "stream" that requests come with
    Endings,        \* how a context may end: "expired", "gone"
    Fragile,        \* upstreams whose failures may trip the breaker
    Stallers,       \* slots whose client may stop reading its answer
    None            \* no upstream selected

Total(C) == SumFunctionOnSet(Weight, C)

(* The credits of a delivery are whole numbers of tokens: the floats of    *)
(* ApplyDelivery are then exact.                                           *)
ASSUME RouterAssumption ==
    /\ IsFiniteSet(Upstreams)
    /\ IsFiniteSet(Requests) /\ Requests # {}
    /\ MaxAttempts \in Nat \ {0}
    /\ Weight \in [Upstreams -> Nat]
    /\ Metered \subseteq Upstreams
    /\ Tokens \in Nat /\ MaxSent \in Nat
    /\ Shapes \subseteq SUBSET Upstreams
    /\ Modes \subseteq BOOLEAN
    /\ Endings \subseteq {"expired", "gone"}
    /\ Fragile \subseteq Upstreams
    /\ Stallers \subseteq Requests
    /\ None \notin Upstreams

ASSUME WholeCredits ==
    \A C \in SUBSET Upstreams : \A u \in C :
        Total(C) > 0 => (Tokens * Weight[u]) % Total(C) = 0

VARIABLES
    req,        \* the local state of each request's handler
    circuit,    \* Upstream.Breaker
    inFlight,   \* Upstream.InFlight
    debt,       \* Upstream.Debt
    sent,       \* Upstream.TokensSent
    forgiven    \* history: debt dropped by resets

shared == <<circuit, inFlight, debt, sent, forgiven>>
vars == <<req, circuit, inFlight, debt, sent, forgiven>>

(* A handler: where it is, the upstreams able to serve its request, its    *)
(* context, the locals of ChatCompletions, the upstreams the loop at hand  *)
(* has still to visit, the tokens it delivered, what the client received.  *)
Handler == [
    pc      : {"idle", "gate", "select", "admit", "dispatched", "streaming", "forgive",
               "leave", "credit", "giveup", "return"},
    able    : SUBSET Upstreams,
    stream  : BOOLEAN,
    ctx     : {"live", "expired", "gone"},
    attempt : 0..MaxAttempts,
    tried   : SUBSET Upstreams,
    todo    : SUBSET Upstreams,
    cands   : SUBSET Upstreams,
    sel     : Upstreams \cup {None},
    best    : Int,
    owed    : {0, Tokens},
    reply   : {"none", "ok", "committed", "done", "broken", "400", "502", "504"}]

Idle == [pc |-> "idle", able |-> {}, stream |-> FALSE, ctx |-> "live",
         attempt |-> 0, tried |-> {}, todo |-> {}, cands |-> {}, sel |-> None,
         best |-> 0, owed |-> 0, reply |-> "none"]

Sum(f) == SumFunctionOnSet(f, Upstreams)

Zero == [u \in Upstreams |-> 0]

Init ==
    /\ req = [r \in Requests |-> Idle]
    /\ circuit = [u \in Upstreams |-> "closed"]
    /\ inFlight = Zero
    /\ debt = Zero
    /\ sent = Zero
    /\ forgiven = 0

At(r, pc) == req[r].pc = pc

----------------------------------------------------------------------------
(* The circuit breaker.  An open circuit whose cooldown has elapsed is     *)
(* "cooled"; State() reports both as open.                                 *)

IsOpen(u) == circuit[u] \in {"open", "cooled"}

(* Mutant: a half-open circuit admits further requests.                    *)
AdmitsHalfOpen(u) == circuit[u] # "open"

Admits(u) == circuit[u] \in {"closed", "cooled"}

Allow(u) ==
    /\ Admits(u)
    /\ circuit' = [circuit EXCEPT
           ![u] = IF @ = "cooled" THEN "half_open" ELSE @]

RecordFailure(u) ==
    \/ /\ circuit[u] # "half_open"
       /\ UNCHANGED circuit
    \/ /\ circuit[u] = "half_open" \/ (circuit[u] = "closed" /\ u \in Fragile)
       /\ circuit' = [circuit EXCEPT ![u] = "open"]

RecordSuccess(u) ==
    circuit' = [circuit EXCEPT ![u] = IF @ = "half_open" THEN "closed" ELSE @]

(* onClose runs when the circuit closes.                                   *)
AfterSuccess(u) == IF circuit[u] = "half_open" THEN "forgive" ELSE "leave"

CoolDown(u) ==
    /\ circuit[u] = "open"
    /\ circuit' = [circuit EXCEPT ![u] = "cooled"]
    /\ UNCHANGED <<req, inFlight, debt, sent, forgiven>>

----------------------------------------------------------------------------
(* A request arrives; the loop head gates every upstream able to serve it  *)
(* and not yet tried, one after the other, reading breaker and TPM bucket: *)
(* an open breaker fails the gates, and so may an exhausted bucket.        *)

NewRequest(r) ==
    /\ At(r, "idle")
    /\ \E able \in Shapes, stream \in Modes :
          req' = [req EXCEPT ![r] = [Idle EXCEPT
                     !.pc = "gate", !.able = able, !.stream = stream,
                     !.todo = able]]
    /\ UNCHANGED shared

Examine(r, u) ==
    /\ At(r, "gate")
    /\ u \in req[r].todo
    /\ \/ /\ ~ IsOpen(u)
          /\ req' = [req EXCEPT ![r].todo = @ \ {u}, ![r].cands = @ \cup {u}]
       \/ /\ IsOpen(u) \/ u \in Metered
          /\ req' = [req EXCEPT ![r].todo = @ \ {u}]
    /\ UNCHANGED shared

Gated(r) == At(r, "gate") /\ req[r].todo = {}

Choose(r) ==
    /\ Gated(r)
    /\ req[r].cands # {}
    /\ req' = [req EXCEPT ![r].pc = "select", ![r].todo = req[r].cands]
    /\ UNCHANGED shared

(* Select reads the debts one by one and keeps the highest so far; debts   *)
(* are whole, so its jitter only decides between equal ones.               *)
(* Mutant: selection does not look at the debts.                           *)
ScoreBlind(u) == 0

Score(u) == debt[u]

Takes(q, u) == q.sel = None \/ Score(u) >= q.best

Keeps(q, u) == q.sel # None /\ Score(u) <= q.best

Consider(r, u) ==
    LET q == [req[r] EXCEPT !.todo = @ \ {u},
                             !.pc = IF req[r].todo = {u} THEN "admit" ELSE @]
    IN
    /\ At(r, "select")
    /\ u \in req[r].todo
    /\ \/ /\ Takes(req[r], u)
          /\ req' = [req EXCEPT ![r] = [q EXCEPT !.sel = u, !.best = Score(u)]]
       \/ /\ Keeps(req[r], u)
          /\ req' = [req EXCEPT ![r] = q]
    /\ UNCHANGED shared

(* gatedEver is attempt # 0: whatever ends an iteration, it had candidates.*)
NoUpstream(r) ==
    /\ Gated(r)
    /\ req[r].cands = {}
    /\ req' = IF req[r].attempt = 0
              THEN [req EXCEPT ![r].reply = "400", ![r].pc = "return"]
              ELSE [req EXCEPT ![r].pc = "giveup"]
    /\ UNCHANGED shared

(* The next iteration of the loop.                                         *)
NextAttempt(q) ==
    [q EXCEPT !.pc = IF q.attempt + 1 < MaxAttempts THEN "gate" ELSE "giveup",
              !.attempt = @ + 1,
              !.todo = q.able \ q.tried,
              !.cands = {},
              !.sel = None,
              !.best = 0]

(* After the loop.                                                         *)
GiveUp(r) ==
    /\ At(r, "giveup")
    /\ req' = [req EXCEPT
           ![r].reply = CASE req[r].ctx = "gone"    -> "none"
                          [] req[r].ctx = "expired" -> "504"
                          [] req[r].ctx = "live"    -> "502",
           ![r].pc = "return"]
    /\ UNCHANGED shared

----------------------------------------------------------------------------
(* Admission.  A denied attempt is spent.  An admitted one also charges    *)
(* the TPM bucket, which nothing here reads: TpmGate.tla.                  *)

Tried(r) == [req[r] EXCEPT !.tried = @ \cup {req[r].sel}, !.best = 0]

Admit(r) ==
    LET u == req[r].sel IN
    /\ At(r, "admit")
    /\ Allow(u)
    /\ inFlight' = [inFlight EXCEPT ![u] = @ + 1]
    /\ req' = [req EXCEPT ![r] = [Tried(r) EXCEPT !.pc = "dispatched"]]
    /\ UNCHANGED <<debt, sent, forgiven>>

Deny(r) ==
    /\ At(r, "admit")
    /\ ~ Admits(req[r].sel)
    /\ req' = [req EXCEPT ![r] = NextAttempt(Tried(r))]
    /\ UNCHANGED shared

----------------------------------------------------------------------------
(* A dispatch that delivers nothing: the breaker learns of a failure, then *)
(* the context decides between another attempt and returning.              *)

(* Mutant: a failed dispatch leaves the in-flight counter incremented.     *)
UndeliveredLeaks(r, q) ==
    /\ At(r, "dispatched")
    /\ RecordFailure(req[r].sel)
    /\ req' = [req EXCEPT ![r] = q]
    /\ UNCHANGED <<inFlight, debt, sent, forgiven>>

Undelivered(r, q) ==
    LET u == req[r].sel IN
    /\ At(r, "dispatched")
    /\ RecordFailure(u)
    /\ inFlight' = [inFlight EXCEPT ![u] = @ - 1]
    /\ req' = [req EXCEPT ![r] = q]
    /\ UNCHANGED <<debt, sent, forgiven>>

(* Transport error, or the body (the first event) cannot be read.          *)
DispatchFails(r) ==
    Undelivered(r, IF req[r].ctx = "live" THEN NextAttempt(req[r])
                   ELSE [req[r] EXCEPT !.pc = "return"])

(* Error status, or a body that is not JSON: the context is not asked.     *)
BadAnswer(r) == Undelivered(r, NextAttempt(req[r]))

----------------------------------------------------------------------------
(* A dispatch that delivers.  A response without usage delivers 0 tokens.  *)

Unrecorded(r) ==
    IF req[r].stream /\ req[r].pc \in {"forgive", "leave"} THEN req[r].owed ELSE 0

Delivered ==
    Sum(sent) + SumFunctionOnSet([r \in Requests |-> Unrecorded(r)], Requests)

Usage == {t \in {0, Tokens} : Delivered + t <= MaxSent}

Answered(r) ==
    LET u == req[r].sel IN
    /\ At(r, "dispatched")
    /\ ~ req[r].stream
    /\ \E t \in Usage :
          /\ sent' = [sent EXCEPT ![u] = @ + t]
          /\ req' = [req EXCEPT ![r].owed = t, ![r].pc = AfterSuccess(u)]
    /\ RecordSuccess(u)
    /\ UNCHANGED <<inFlight, debt, forgiven>>

FirstChunk(r) ==
    /\ At(r, "dispatched")
    /\ req[r].stream
    /\ req' = [req EXCEPT ![r].pc = "streaming", ![r].reply = "committed"]
    /\ UNCHANGED shared

(* The stream ended (with or without [DONE]).                              *)
StreamEnds(r) ==
    LET u == req[r].sel IN
    /\ At(r, "streaming")
    /\ \E t \in Usage :
          req' = [req EXCEPT ![r].owed = t, ![r].pc = AfterSuccess(u),
                             ![r].reply = "done"]
    /\ RecordSuccess(u)
    /\ UNCHANGED <<inFlight, debt, sent, forgiven>>

(* A write to the client failed, the first one included: the upstream is   *)
(* not to blame.                                                           *)
(* Mutants: nothing is reported to the breaker; the early return           *)
(* decrements the in-flight counter, which its caller also does.           *)
WriteFailsUnreported(r) ==
    /\ At(r, "streaming")
    /\ req[r].ctx = "gone"
    /\ \E t \in Usage :
          req' = [req EXCEPT ![r].owed = t, ![r].pc = "leave"]
    /\ UNCHANGED <<circuit, inFlight, debt, sent, forgiven>>

WriteFailsDecrements(r) ==
    LET u == req[r].sel IN
    /\ At(r, "streaming")
    /\ req[r].ctx = "gone"
    /\ \E t \in Usage :
          req' = [req EXCEPT ![r].owed = t, ![r].pc = AfterSuccess(u)]
    /\ RecordSuccess(u)
    /\ inFlight' = [inFlight EXCEPT ![u] = @ - 1]
    /\ UNCHANGED <<debt, sent, forgiven>>

WriteFails(r) ==
    LET u == req[r].sel IN
    /\ At(r, "streaming")
    /\ req[r].ctx = "gone"
    /\ \E t \in Usage :
          req' = [req EXCEPT ![r].owed = t, ![r].pc = AfterSuccess(u)]
    /\ RecordSuccess(u)
    /\ UNCHANGED <<inFlight, debt, sent, forgiven>>

(* The upstream broke off: terminal error event, then [DONE].              *)
(* Mutant: a broken stream fails over like a failed dispatch.              *)
StreamBreaksRetried(r) ==
    /\ At(r, "streaming")
    /\ RecordFailure(req[r].sel)
    /\ inFlight' = [inFlight EXCEPT ![req[r].sel] = @ - 1]
    /\ req' = [req EXCEPT ![r] = NextAttempt(req[r])]
    /\ UNCHANGED <<debt, sent, forgiven>>

StreamBreaks(r) ==
    /\ At(r, "streaming")
    /\ RecordFailure(req[r].sel)
    /\ \E t \in Usage :
          req' = [req EXCEPT ![r].owed = t, ![r].pc = "leave",
                             ![r].reply = "broken"]
    /\ UNCHANGED <<inFlight, debt, sent, forgiven>>

(* onClose, called after the breaker's lock is released.                   *)
Forgive(r) ==
    LET u == req[r].sel IN
    /\ At(r, "forgive")
    /\ debt' = [debt EXCEPT ![u] = 0]
    /\ forgiven' = forgiven + debt[u]
    /\ req' = [req EXCEPT ![r].pc = "leave"]
    /\ UNCHANGED <<circuit, inFlight, sent>>

(* serveStream records its tokens here, serveNonStream writes its answer;  *)
(* then ApplyDelivery begins, if it has anything to apply.                 *)
Leave(r) ==
    LET u == req[r].sel
        q == req[r]
    IN
    /\ At(r, "leave")
    /\ inFlight' = [inFlight EXCEPT ![u] = @ - 1]
    /\ sent' = IF q.stream THEN [sent EXCEPT ![u] = @ + q.owed] ELSE sent
    /\ req' = [req EXCEPT
           ![r].reply = IF q.stream THEN @ ELSE "ok",
           ![r].todo = q.cands,
           ![r].pc = IF q.owed > 0 /\ Total(q.cands) > 0 THEN "credit"
                     ELSE "return"]
    /\ UNCHANGED <<circuit, debt, forgiven>>

----------------------------------------------------------------------------
(* ApplyDelivery: one atomic add per candidate, then one for the winner.   *)

(* Mutant: shares of the whole pool instead of the candidates.             *)
ShareOfPool(u, C, t) == (t * Weight[u]) \div Total(Upstreams)

Share(u, C, t) == (t * Weight[u]) \div Total(C)

Credit(r, u) ==
    /\ At(r, "credit")
    /\ u \in req[r].todo
    /\ debt' = [debt EXCEPT ![u] = @ + Share(u, req[r].cands, req[r].owed)]
    /\ req' = [req EXCEPT ![r].todo = @ \ {u}]
    /\ UNCHANGED <<circuit, inFlight, sent, forgiven>>

Debit(r) ==
    /\ At(r, "credit")
    /\ req[r].todo = {}
    /\ debt' = [debt EXCEPT ![req[r].sel] = @ - req[r].owed]
    /\ req' = [req EXCEPT ![r].pc = "return"]
    /\ UNCHANGED <<circuit, inFlight, sent, forgiven>>

(* The handler returns; its slot takes another request.                    *)
Return(r) ==
    /\ At(r, "return")
    /\ req' = [req EXCEPT ![r] = Idle]
    /\ UNCHANGED shared

----------------------------------------------------------------------------
(* The context ends: its timeout fires, or the client goes away.           *)

End(r, how) ==
    /\ how \in Endings
    /\ req[r].pc \in {"gate", "select", "admit", "dispatched", "streaming",
                     "giveup"}
    /\ req' = [req EXCEPT ![r].ctx = how]
    /\ UNCHANGED shared

(* Mutant: the budget no longer covers a stream that has started.          *)
BudgetExpiresUncommitted(r) ==
    ~ At(r, "streaming") /\ req[r].ctx = "live" /\ End(r, "expired")

BudgetExpires(r) == req[r].ctx = "live" /\ End(r, "expired")

ClientLeaves(r) == req[r].ctx # "gone" /\ End(r, "gone")

----------------------------------------------------------------------------

(* What the handler does by itself, without waiting for anyone.            *)
Local(r) ==
    \/ \E u \in Upstreams : Examine(r, u) \/ Consider(r, u) \/ Credit(r, u)
    \/ Choose(r) \/ NoUpstream(r) \/ GiveUp(r)
    \/ Admit(r) \/ Deny(r)
    \/ Forgive(r) \/ Leave(r) \/ Debit(r) \/ Return(r)

(* What the upstream's behaviour decides.                                  *)
Remote(r) ==
    \/ DispatchFails(r) \/ BadAnswer(r) \/ Answered(r) \/ FirstChunk(r)
    \/ StreamEnds(r) \/ WriteFails(r) \/ StreamBreaks(r)

Next ==
    \/ \E r \in Requests :
          NewRequest(r) \/ Local(r) \/ Remote(r)
             \/ BudgetExpires(r) \/ ClientLeaves(r)
    \/ \E u \in Upstreams : CoolDown(u)

Spec == Init /\ [][Next]_vars

----------------------------------------------------------------------------
(* Fairness.  Handlers are goroutines: they are scheduled.  Nothing obliges*)
(* an upstream to answer, but the timeout of the request's context fires,  *)
(* and then the http client makes the dispatch fail.  Nothing obliges a    *)
(* client to read either, and there nothing times out: the server has no   *)
(* write timeout (main.go:64-67), and a write to a client that stays and   *)
(* stops reading is not ended by the context.  A handler is then stuck     *)
(* where it writes, until the client goes away.                            *)

Writing(r) ==
    \/ At(r, "streaming")
    \/ At(r, "leave") /\ (~ req[r].stream \/ req[r].reply = "broken")

Blocked(r) == r \in Stallers /\ Writing(r) /\ req[r].ctx # "gone"

Proceed(r) == ~ Blocked(r) /\ Local(r)

Cancelled(r) ==
    /\ ~ Blocked(r)
    /\ req[r].ctx # "live"
    /\ DispatchFails(r) \/ StreamBreaks(r) \/ WriteFails(r)

Fairness ==
    \A r \in Requests :
        /\ WF_vars(Proceed(r))
        /\ WF_vars(BudgetExpires(r))
        /\ WF_vars(Cancelled(r))

FairSpec == Spec /\ Fairness

(* Endless traffic, upstreams that always respond one way or the other,    *)
(* clients that read their answers, and cooldowns that elapse.             *)
Busy ==
    /\ \A r \in Requests :
          /\ WF_vars(NewRequest(r))
          /\ WF_vars(Local(r))
          /\ WF_vars(Remote(r))
    /\ \A u \in Upstreams : WF_vars(CoolDown(u))

BusySpec == Spec /\ Busy

----------------------------------------------------------------------------
(* Properties                                                              *)

TypeOK ==
    /\ req \in [Requests -> Handler]
    /\ circuit \in [Upstreams -> {"closed", "open", "cooled", "half_open"}]
    /\ inFlight \in [Upstreams -> Nat]
    /\ debt \in [Upstreams -> Int]
    /\ sent \in [Upstreams -> 0..MaxSent]
    /\ forgiven \in Int

(* Debt is only moved between upstreams: what ApplyDelivery credits to the *)
(* candidates is what it debits the winner, however many deliveries and    *)
(* resets interleave.  Between its steps the books are off by exactly the  *)
(* shares already credited.                                                *)
Credited(r, u) ==
    IF At(r, "credit") /\ u \in req[r].cands \ req[r].todo
    THEN Share(u, req[r].cands, req[r].owed) ELSE 0

Unsettled(u) ==
    SumFunctionOnSet([r \in Requests |-> Credited(r, u)], Requests)

DebtConserved ==
    Sum(debt) + forgiven = Sum([u \in Upstreams |-> Unsettled(u)])

(* README "How the routing engine actually works": the debts are the       *)
(* deficits, and a recovered upstream is not repaid for its outage.  No    *)
(* upstream is further from its target share than what the requests in     *)
(* progress can have picked on the same stale debts, and than what resets  *)
(* have dropped: zero is no neutral debt once the others have moved, but a *)
(* reset puts nobody off by more than the debt it drops.                   *)
Dropped == IF forgiven < 0 THEN -forgiven ELSE forgiven

ShareOnTarget ==
    LET slack == Cardinality(Requests) * Tokens + Dropped
    IN  \A u \in Upstreams :
            /\ debt[u] - Unsettled(u) <= slack
            /\ Unsettled(u) - debt[u] <= slack

(* The in-flight counter of an upstream counts its dispatches: no way out  *)
(* of a dispatch leaves it incremented.                                    *)
Dispatches(u) ==
    {r \in Requests :
        /\ req[r].sel = u
        /\ req[r].pc \in {"dispatched", "streaming", "forgive", "leave"}}

InFlightExact == \A u \in Upstreams : inFlight[u] = Cardinality(Dispatches(u))

(* Once the client has received a byte, the request is never dispatched    *)
(* again, and what follows belongs to the same answer.                     *)
OneAnswer ==
    [][\A r \in Requests :
          req[r].reply # "none" /\ req[r].pc # "return" =>
              /\ req'[r].pc \notin {"gate", "select", "admit", "dispatched",
                                "giveup"}
              /\ req'[r].sel = req[r].sel
              /\ req'[r].reply # req[r].reply =>
                    /\ req[r].reply = "committed"
                    /\ req'[r].reply \in {"done", "broken"}]_vars

(* Every upstream's circuit is used as its contract says: each admission   *)
(* is followed by one report, on every way out of a dispatch.              *)
C(u) == INSTANCE Circuit WITH
    Callers <- Requests,
    state   <- IF circuit[u] = "cooled" THEN "open" ELSE circuit[u],
    cooled  <- circuit[u] = "cooled",
    running <- {r \in Requests :
                   req[r].sel = u /\ req[r].pc \in {"dispatched", "streaming"}}

CircuitContract ==
    /\ \A u \in Upstreams : C(u)!Init
    /\ [][\A u \in Upstreams : C(u)!Next \/ UNCHANGED C(u)!cvars]_vars

(* A half-open circuit is never left without the request that probes it,   *)
(* or it would refuse everyone for good.                                   *)
ProbeAlive ==
    \A u \in Upstreams :
        circuit[u] = "half_open" =>
            \E r \in Requests :
                req[r].sel = u /\ req[r].pc \in {"dispatched", "streaming"}

(* Every request is over eventually, even if no upstream ever answers,     *)
(* unless it writes to a client that stays but does not read.  One such    *)
(* client holds up its own handler only: the others still finish, also     *)
(* when it holds the probe of a half-open breaker.                         *)
RequestTerminates ==
    \A r \in Requests : At(r, "gate") ~> At(r, "return") \/ Blocked(r)

(* breaker.go:27-30: the breaker "half-opens after a cooldown to admit a   *)
(* single probe".  Admission is only asked for candidates, and gating      *)
(* drops an open breaker whether or not its cooldown has elapsed.          *)
Recovers ==
    \A u \in Upstreams : IsOpen(u) ~> ~ IsOpen(u)

(* README "Ambiguities" 3: an upstream's failure "only surfaces to the     *)
(* client as a generic 502", and proxy.go:148-151 answers 504 when the     *)
(* budget ran out: a client that stays connected gets an answer.           *)
AlwaysAnswered ==
    \A r \in Requests :
        At(r, "return") /\ req[r].ctx # "gone" => req[r].reply # "none"

=============================================================================
