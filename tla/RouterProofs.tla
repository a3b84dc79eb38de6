---------------------------- MODULE RouterProofs ----------------------------
(***************************************************************************)
(* The retry loop for any pool of upstreams, any number of concurrent      *)
(* requests, attempts and weights, any metering and any shapes of requests.*)
(***************************************************************************)
EXTENDS Router, DataTheorems

----------------------------------------------------------------------------
(* What is true of each handler by itself.                                 *)

Gating == {"gate", "select", "admit"}
Running == {"dispatched", "streaming"}
Served == {"forgive", "leave"}
Serving == Running \cup Served

Fine(q) ==
    /\ q.pc \in Gating \cup Serving \cup {"credit"} => q.attempt < MaxAttempts
    /\ q.pc = "gate" => q.sel = None
    /\ q.pc = "select" => q.todo \subseteq q.cands /\ q.sel \in q.cands \cup {None}
    /\ q.pc \in {"admit", "credit"} \cup Serving => q.sel \in q.cands
    /\ q.pc = "credit" =>
          q.todo \subseteq q.cands /\ q.owed = Tokens /\ Total(q.cands) > 0
    /\ q.pc \in {"idle", "dispatched", "giveup"} \cup Gating => q.reply = "none"
    /\ q.pc = "streaming" => q.reply = "committed" /\ q.stream
    /\ q.pc \in Served /\ ~ q.stream => q.reply = "none"

Handlers == req \in [Requests -> Handler] /\ \A r \in Requests : Fine(req[r])

(* How a step of a handler from q to n appears to the others: which        *)
(* upstream it is serving, what it has yet to record, which credits are    *)
(* out.                                                                    *)

Withheld(q) == IF q.stream /\ q.pc \in Served THEN q.owed ELSE 0

Out(q, u) ==
    IF q.pc = "credit" /\ u \in q.cands \ q.todo THEN Share(u, q.cands, q.owed) ELSE 0

SameService(q, n) ==
    /\ q.pc \in Serving <=> n.pc \in Serving
    /\ q.pc \in Running <=> n.pc \in Running
    /\ q.pc \in Serving => n.sel = q.sel

SameAccount(q, n) ==
    /\ Withheld(n) = Withheld(q)
    /\ \A u \in Upstreams : Out(n, u) = Out(q, u)

(* The handler of r goes to n, all others stay.                            *)
Goes(r, n) ==
    /\ n \in Handler
    /\ Fine(n)
    /\ req' = [req EXCEPT ![r] = n]

Silently(r) ==
    \E n : /\ Goes(r, n)
           /\ SameService(req[r], n)
           /\ SameAccount(req[r], n)

LEMMA HandlerFields ==
    \A q \in Handler :
        /\ q.pc \in {"idle", "giveup", "credit", "return"} \cup Gating \cup Serving
        /\ q.able \in SUBSET Upstreams /\ q.stream \in BOOLEAN
        /\ q.ctx \in {"live", "expired", "gone"} /\ q.attempt \in 0..MaxAttempts
        /\ q.tried \in SUBSET Upstreams /\ q.todo \in SUBSET Upstreams
        /\ q.cands \in SUBSET Upstreams /\ q.sel \in Upstreams \cup {None}
        /\ q.best \in Int /\ q.owed \in {0, Tokens}
        /\ q.reply \in {"none", "ok", "committed", "done", "broken", "400", "502", "504"}
  BY DEF Handler, Gating, Running, Served, Serving

LEMMA IdleFine == Idle \in Handler /\ Fine(Idle)
  BY RouterAssumption
     DEF RouterAssumption, Idle, Handler, Fine, Gating, Running, Served, Serving

LEMMA NextAttemptFine ==
    ASSUME NEW q \in Handler, q.attempt < MaxAttempts, q.reply = "none"
    PROVE  /\ NextAttempt(q) \in Handler
           /\ Fine(NextAttempt(q))
           /\ NextAttempt(q).pc \in {"gate", "giveup"}
           /\ NextAttempt(q).cands = {}
<1>. DEFINE n == NextAttempt(q)
            a == q.attempt + 1
            t == q.able \ q.tried
            p == IF a < MaxAttempts THEN "gate" ELSE "giveup"
<1>1. /\ p \in {"gate", "giveup"}
      /\ p = "gate" => a < MaxAttempts
      /\ a \in 0..MaxAttempts /\ t \in SUBSET Upstreams
  BY RouterAssumption DEF RouterAssumption, Handler
<1>2. n = [q EXCEPT !.pc = p, !.attempt = a, !.todo = t, !.cands = {},
                    !.sel = None, !.best = 0]
  BY DEF NextAttempt
<1>. HIDE DEF n, a, t, p
<1>3. n = [pc |-> p, able |-> q.able, stream |-> q.stream, ctx |-> q.ctx,
           attempt |-> a, tried |-> q.tried, todo |-> t, cands |-> {},
           sel |-> None, best |-> 0, owed |-> q.owed, reply |-> q.reply]
  BY <1>2 DEF Handler
<1>4. n \in Handler
  BY <1>1, <1>3, HandlerFields DEF Handler
<1>5. Fine(n)
  BY <1>1, <1>3 DEF Fine, Gating, Running, Served, Serving
<1>. QED  BY <1>1, <1>3, <1>4, <1>5 DEF n

LEMMA TriedInHandler ==
    ASSUME NEW q \in Handler, NEW t \in SUBSET Upstreams
    PROVE  [q EXCEPT !.tried = t, !.best = 0] \in Handler
<1>1. [q EXCEPT !.tried = t] \in Handler
  BY DEF Handler
<1>2. \A x \in Handler : [x EXCEPT !.best = 0] \in Handler
  BY DEF Handler
<1>3. [q EXCEPT !.tried = t, !.best = 0] = [[q EXCEPT !.tried = t] EXCEPT !.best = 0]
  OBVIOUS
<1>. QED  BY <1>1, <1>2, <1>3

(* The steps that touch nothing but the handler, Examine apart.            *)
LEMMA SilentSteps ==
    ASSUME Handlers, debt \in [Upstreams -> Int], NEW r \in Requests,
           \/ NewRequest(r) \/ Choose(r) \/ (\E u \in Upstreams : Consider(r, u))
           \/ NoUpstream(r) \/ GiveUp(r) \/ Deny(r) \/ FirstChunk(r)
           \/ Return(r) \/ BudgetExpires(r) \/ ClientLeaves(r)
    PROVE  Silently(r) /\ UNCHANGED shared
<1>. DEFINE q == req[r]
<1>. USE DEF Gating, Running, Served, Serving
<1>q. q \in Handler /\ Fine(q)
  BY DEF Handlers
<1>1. CASE NewRequest(r)
  <2>1. PICK able \in Shapes, stream \in Modes :
           req' = [req EXCEPT ![r] = [Idle EXCEPT !.pc = "gate", !.able = able,
                                             !.stream = stream, !.todo = able]]
    BY <1>1 DEF NewRequest
  <2>. DEFINE n == [Idle EXCEPT !.pc = "gate", !.able = able, !.stream = stream,
                                !.todo = able]
  <2>2. able \in SUBSET Upstreams /\ stream \in BOOLEAN
    BY RouterAssumption DEF RouterAssumption
  <2>3. /\ n.pc = "gate" /\ n.attempt = 0 /\ n.sel = None /\ n.cands = {}
        /\ n.reply = "none"
    BY DEF Idle
  <2>4. n \in Handler
    BY <2>2, IdleFine DEF Handler
  <2>. HIDE DEF n
  <2>5. Fine(n)
    BY <2>3, RouterAssumption DEF Fine, RouterAssumption
  <2>6. q.pc = "idle"
    BY <1>1 DEF NewRequest, At
  <2>7. Goes(r, n)
    BY <2>1, <2>4, <2>5 DEF Goes, n
  <2>8. SameService(q, n) /\ SameAccount(q, n)
    BY <2>3, <2>6 DEF SameService, SameAccount, Withheld, Out
  <2>. QED  BY <1>1, <2>7, <2>8 DEF NewRequest, Silently
<1>2. CASE Choose(r)
  <2>. DEFINE n == [q EXCEPT !.pc = "select", !.todo = q.cands]
  <2>1. q.pc = "gate" /\ req' = [req EXCEPT ![r] = n]
    BY <1>2 DEF Choose, Gated, At, Handlers
  <2>2. n \in Handler
    BY <1>q DEF Handler
  <2>3. /\ n.pc = "select" /\ n.todo = q.cands /\ n.cands = q.cands /\ n.sel = q.sel
        /\ n.attempt = q.attempt /\ n.reply = q.reply
    BY <1>q DEF Handler
  <2>. HIDE DEF n
  <2>4. Fine(n)
    BY <1>q, <2>1, <2>3 DEF Fine
  <2>5. SameService(q, n) /\ SameAccount(q, n)
    BY <2>1, <2>3 DEF SameService, SameAccount, Withheld, Out
  <2>. QED  BY <1>2, <2>1, <2>2, <2>4, <2>5 DEF Choose, Silently, Goes
<1>3. ASSUME NEW u \in Upstreams, Consider(r, u) PROVE Silently(r) /\ UNCHANGED shared
  <2>. DEFINE p == IF q.todo = {u} THEN "admit" ELSE q.pc
              m == [q EXCEPT !.todo = @ \ {u}, !.pc = p]
  <2>1. q.pc = "select" /\ u \in q.todo /\ p \in {"select", "admit"}
    BY <1>3 DEF Consider, At
  <2>2. PICK n : /\ req' = [req EXCEPT ![r] = n]
                 /\ \/ n = m /\ q.sel # None
                    \/ n = [m EXCEPT !.sel = u, !.best = debt[u]]
    BY <1>3, Zenon DEF Consider, Takes, Keeps, Score
  <2>3. debt[u] \in Int
    OBVIOUS
  <2>. HIDE DEF p
  <2>4. m \in Handler
    BY <1>q, <2>1 DEF Handler
  <2>5. /\ m.pc = p /\ m.todo = q.todo \ {u} /\ m.cands = q.cands /\ m.sel = q.sel
        /\ m.attempt = q.attempt /\ m.reply = q.reply
    BY <1>q DEF Handler
  <2>. HIDE DEF m
  <2>6. n \in Handler
    <3>1. [m EXCEPT !.sel = u, !.best = debt[u]] \in Handler
      BY <2>3, <2>4 DEF Handler
    <3>. QED  BY <2>2, <2>4, <3>1
  <2>7. /\ n.pc = p /\ n.todo = q.todo \ {u} /\ n.cands = q.cands
        /\ n.attempt = q.attempt /\ n.reply = q.reply
        /\ n.sel = u \/ (n.sel = q.sel /\ q.sel # None)
    BY <2>2, <2>4, <2>5 DEF Handler
  <2>8. Fine(n)
    BY <1>q, <2>1, <2>7 DEF Fine
  <2>9. SameService(q, n) /\ SameAccount(q, n)
    BY <2>1, <2>7 DEF SameService, SameAccount, Withheld, Out
  <2>. QED  BY <1>3, <2>2, <2>6, <2>8, <2>9 DEF Consider, Silently, Goes
<1>4. CASE NoUpstream(r)
  <2>1. PICK n \in {[q EXCEPT !.reply = "400", !.pc = "return"], [q EXCEPT !.pc = "giveup"]} :
           req' = [req EXCEPT ![r] = n]
    BY <1>4 DEF NoUpstream, Handlers
  <2>2. q.pc = "gate"
    BY <1>4 DEF NoUpstream, Gated, At
  <2>3. n \in Handler /\ n.pc \in {"return", "giveup"} /\ (n.pc = "giveup" => n.reply = q.reply)
    <3>1. CASE n = [q EXCEPT !.reply = "400", !.pc = "return"]
      BY <1>q, <3>1 DEF Handler
    <3>2. CASE n = [q EXCEPT !.pc = "giveup"]
      BY <1>q, <3>2 DEF Handler
    <3>. QED  BY <2>1, <3>1, <3>2
  <2>4. Fine(n)
    BY <1>q, <2>2, <2>3 DEF Fine
  <2>5. SameService(q, n) /\ SameAccount(q, n)
    BY <2>2, <2>3 DEF SameService, SameAccount, Withheld, Out
  <2>. QED  BY <1>4, <2>1, <2>3, <2>4, <2>5 DEF NoUpstream, Silently, Goes
<1>5. CASE GiveUp(r)
  <2>. DEFINE a == CASE q.ctx = "gone"    -> "none"
                     [] q.ctx = "expired" -> "504"
                     [] q.ctx = "live"    -> "502"
              n == [q EXCEPT !.reply = a, !.pc = "return"]
  <2>2. a \in {"none", "504", "502"}
    BY <1>q, HandlerFields
  <2>g. q.pc = "giveup" /\ req' = [req EXCEPT ![r].reply = a, ![r].pc = "return"]
    BY <1>5, Zenon DEF GiveUp, At
  <2>. HIDE DEF a
  <2>1. req' = [req EXCEPT ![r] = n]
    BY <2>g DEF Handlers
  <2>3. n \in Handler /\ n.pc = "return"
    BY <1>q, <2>2 DEF Handler
  <2>. HIDE DEF n
  <2>4. Fine(n)
    BY <2>3 DEF Fine
  <2>5. SameService(q, n) /\ SameAccount(q, n)
    BY <2>g, <2>3 DEF SameService, SameAccount, Withheld, Out
  <2>. QED  BY <1>5, <2>1, <2>3, <2>4, <2>5 DEF GiveUp, Silently, Goes
<1>6. CASE Deny(r)
  <2>. DEFINE t == q.tried \cup {q.sel}
              m == [q EXCEPT !.tried = t, !.best = 0]
              n == NextAttempt(m)
  <2>1. q.pc = "admit" /\ req' = [req EXCEPT ![r] = n]
    BY <1>6 DEF Deny, At, Tried
  <2>2. q.sel \in Upstreams
    BY <1>q, <2>1, HandlerFields DEF Fine
  <2>t. t \in SUBSET Upstreams
    BY <1>q, <2>2, HandlerFields
  <2>. HIDE DEF t
  <2>m. m \in Handler
    BY <1>q, <2>t, TriedInHandler
  <2>3. m.attempt = q.attempt /\ m.reply = q.reply
    BY <1>q DEF Handler
  <2>. HIDE DEF m
  <2>4. q.attempt < MaxAttempts /\ q.reply = "none"
    BY <1>q, <2>1 DEF Fine
  <2>5. n \in Handler /\ Fine(n) /\ n.pc \in {"gate", "giveup"} /\ n.cands = {}
    BY <2>m, <2>3, <2>4, NextAttemptFine
  <2>. HIDE DEF n
  <2>6. SameService(q, n) /\ SameAccount(q, n)
    BY <2>1, <2>5 DEF SameService, SameAccount, Withheld, Out
  <2>. QED  BY <1>6, <2>1, <2>5, <2>6 DEF Deny, Silently, Goes
<1>7. CASE FirstChunk(r)
  <2>. DEFINE n == [q EXCEPT !.pc = "streaming", !.reply = "committed"]
  <2>1. q.pc = "dispatched" /\ q.stream /\ req' = [req EXCEPT ![r] = n]
    BY <1>7 DEF FirstChunk, At, Handlers
  <2>2. n \in Handler
    BY <1>q DEF Handler
  <2>3. /\ n.pc = "streaming" /\ n.reply = "committed" /\ n.stream = q.stream
        /\ n.sel = q.sel /\ n.cands = q.cands /\ n.attempt = q.attempt
    BY <1>q DEF Handler
  <2>. HIDE DEF n
  <2>4. Fine(n)
    BY <1>q, <2>1, <2>3 DEF Fine
  <2>5. SameService(q, n) /\ SameAccount(q, n)
    BY <2>1, <2>3 DEF SameService, SameAccount, Withheld, Out
  <2>. QED  BY <1>7, <2>1, <2>2, <2>4, <2>5 DEF FirstChunk, Silently, Goes
<1>8. CASE Return(r)
  <2>1. q.pc = "return" /\ req' = [req EXCEPT ![r] = Idle]
    BY <1>8 DEF Return, At
  <2>2. Idle.pc = "idle"
    BY DEF Idle
  <2>3. SameService(q, Idle) /\ SameAccount(q, Idle)
    BY <2>1, <2>2 DEF SameService, SameAccount, Withheld, Out
  <2>. QED  BY <1>8, <2>1, <2>3, IdleFine DEF Return, Silently, Goes
<1>9. CASE BudgetExpires(r) \/ ClientLeaves(r)
  <2>1. PICK how \in Endings : End(r, how)
    BY <1>9, RouterAssumption DEF BudgetExpires, ClientLeaves, End, RouterAssumption
  <2>. DEFINE n == [q EXCEPT !.ctx = how]
  <2>2. how \in {"expired", "gone"} /\ req' = [req EXCEPT ![r] = n] /\ UNCHANGED shared
    BY <2>1, RouterAssumption DEF End, RouterAssumption, Handlers
  <2>3. n \in Handler
    BY <1>q, <2>2 DEF Handler
  <2>4. /\ n.pc = q.pc /\ n.stream = q.stream /\ n.attempt = q.attempt
        /\ n.todo = q.todo /\ n.cands = q.cands /\ n.sel = q.sel
        /\ n.owed = q.owed /\ n.reply = q.reply
    BY <1>q DEF Handler
  <2>. HIDE DEF n
  <2>5. Fine(n)
    BY <1>q, <2>4 DEF Fine
  <2>6. SameService(q, n) /\ SameAccount(q, n)
    BY <2>4 DEF SameService, SameAccount, Withheld, Out
  <2>. QED  BY <2>2, <2>3, <2>5, <2>6 DEF Silently, Goes
<1>. QED  BY <1>1, <1>2, <1>3, <1>4, <1>5, <1>6, <1>7, <1>8, <1>9

(* Gating may add a candidate.                                             *)
LEMMA ExamineStep ==
    ASSUME Handlers, NEW r \in Requests, NEW u \in Upstreams, Examine(r, u)
    PROVE  \E n : /\ Goes(r, n)
                  /\ SameService(req[r], n)
                  /\ SameAccount(req[r], n)
<1>. DEFINE q == req[r]
            t == q.todo \ {u}
<1>. USE DEF Gating, Running, Served, Serving
<1>1. q \in Handler /\ Fine(q) /\ q.pc = "gate"
  BY DEF Handlers, Examine, At
<1>2. PICK c \in {q.cands, q.cands \cup {u}} :
         req' = [req EXCEPT ![r] = [q EXCEPT !.todo = t, !.cands = c]]
  <2>1. CASE req' = [req EXCEPT ![r].todo = t, ![r].cands = @ \cup {u}]
    BY <2>1 DEF Handlers
  <2>2. CASE req' = [req EXCEPT ![r].todo = t]
    <3>1. [q EXCEPT !.todo = t] = [q EXCEPT !.todo = t, !.cands = q.cands]
      BY <1>1 DEF Handler
    <3>2. req' = [req EXCEPT ![r] = [q EXCEPT !.todo = t]]
      BY <2>2 DEF Handlers
    <3>. QED  BY <3>1, <3>2
  <2>. QED  BY <2>1, <2>2 DEF Examine
<1>. DEFINE n == [q EXCEPT !.todo = t, !.cands = c]
<1>3. c \in SUBSET Upstreams /\ t \in SUBSET Upstreams
  BY <1>1, <1>2, HandlerFields
<1>. HIDE DEF t
<1>4. n \in Handler
  BY <1>1, <1>3 DEF Handler
<1>5. n.pc = "gate" /\ n.sel = q.sel /\ n.attempt = q.attempt /\ n.reply = q.reply
  BY <1>1 DEF Handler
<1>. HIDE DEF n
<1>6. Fine(n)
  BY <1>1, <1>5 DEF Fine
<1>7. SameService(q, n) /\ SameAccount(q, n)
  BY <1>1, <1>5 DEF SameService, SameAccount, Withheld, Out
<1>. QED  BY <1>2, <1>4, <1>6, <1>7 DEF Goes, n

LEMMA AdmitStep ==
    ASSUME Handlers, NEW r \in Requests, Admit(r)
    PROVE  \E n : /\ Goes(r, n)
                  /\ req[r].pc = "admit" /\ req[r].sel \in req[r].cands
                  /\ n.pc = "dispatched" /\ n.sel = req[r].sel
                  /\ SameAccount(req[r], n)
<1>. DEFINE q == req[r]
            t == q.tried \cup {q.sel}
            m == [q EXCEPT !.tried = t, !.best = 0]
            n == [m EXCEPT !.pc = "dispatched"]
<1>. USE DEF Gating, Running, Served, Serving
<1>1. q \in Handler /\ Fine(q) /\ q.pc = "admit"
  BY DEF Handlers, Admit, At
<1>2. req' = [req EXCEPT ![r] = n]
  BY DEF Admit, Tried
<1>3. t \in SUBSET Upstreams
  BY <1>1, HandlerFields DEF Fine
<1>. HIDE DEF t
<1>4. m \in Handler
  BY <1>1, <1>3, TriedInHandler
<1>5. /\ m.sel = q.sel /\ m.attempt = q.attempt /\ m.reply = q.reply
      /\ m.cands = q.cands /\ m.stream = q.stream
  BY <1>1 DEF Handler
<1>. HIDE DEF m
<1>6. n \in Handler
  BY <1>4 DEF Handler
<1>7. /\ n.pc = "dispatched" /\ n.sel = q.sel /\ n.attempt = q.attempt
      /\ n.reply = q.reply /\ n.cands = q.cands /\ n.stream = q.stream
  BY <1>4, <1>5 DEF Handler
<1>. HIDE DEF n
<1>8. Fine(n) /\ q.sel \in q.cands
  BY <1>1, <1>7 DEF Fine
<1>9. SameAccount(q, n)
  BY <1>1, <1>7 DEF SameAccount, Withheld, Out
<1>. QED  BY <1>1, <1>2, <1>6, <1>7, <1>8, <1>9 DEF Goes

LEMMA UndeliveredStep ==
    ASSUME Handlers, NEW r \in Requests, DispatchFails(r) \/ BadAnswer(r)
    PROVE  \E n : /\ Goes(r, n)
                  /\ req[r].pc = "dispatched" /\ n.pc \notin Serving
                  /\ SameAccount(req[r], n)
                  /\ Undelivered(r, n)
<1>. DEFINE q == req[r]
            m == [q EXCEPT !.pc = "return"]
<1>. USE DEF Gating, Running, Served, Serving
<1>1. q \in Handler /\ Fine(q) /\ q.pc = "dispatched"
  BY DEF Handlers, DispatchFails, BadAnswer, Undelivered, At
<1>2. PICK n : n \in {NextAttempt(q), m} /\ Undelivered(r, n)
  BY DEF DispatchFails, BadAnswer
<1>3. /\ NextAttempt(q) \in Handler /\ Fine(NextAttempt(q))
      /\ NextAttempt(q).pc \in {"gate", "giveup"} /\ NextAttempt(q).cands = {}
  BY <1>1, NextAttemptFine DEF Fine
<1>4. m \in Handler /\ m.pc = "return"
  BY <1>1 DEF Handler
<1>. HIDE DEF m
<1>5. Fine(m)
  BY <1>4 DEF Fine
<1>6. /\ n \in Handler /\ Fine(n)
      /\ n.pc = "return" \/ (n.pc \in {"gate", "giveup"} /\ n.cands = {})
  BY <1>2, <1>3, <1>4, <1>5
<1>7. SameAccount(q, n) /\ n.pc \notin Serving
  BY <1>1, <1>6 DEF SameAccount, Withheld, Out
<1>8. req' = [req EXCEPT ![r] = n]
  BY <1>2 DEF Undelivered
<1>. QED  BY <1>1, <1>2, <1>6, <1>7, <1>8 DEF Goes

LEMMA UsageType == \A t \in Usage : t \in {0, Tokens} /\ Delivered + t <= MaxSent
  BY DEF Usage

(* A dispatch that delivers goes on to the bookkeeping, with its tokens.   *)
Delivers(r, n, t) ==
    /\ Goes(r, n)
    /\ req[r].pc \in Running /\ n.pc \in Served /\ n.sel = req[r].sel
    /\ n.stream = req[r].stream /\ n.owed = t
    /\ \A u \in Upstreams : Out(n, u) = Out(req[r], u)

LEMMA DeliverySteps ==
    ASSUME Handlers, NEW r \in Requests
    PROVE  /\ Answered(r) =>
                \E n, t : /\ Delivers(r, n, t) /\ ~ req[r].stream /\ t \in Usage
                          /\ sent' = [sent EXCEPT ![req[r].sel] = @ + t]
           /\ StreamEnds(r) \/ WriteFails(r) \/ StreamBreaks(r) =>
                \E n, t : Delivers(r, n, t) /\ req[r].stream /\ t \in Usage
<1>. DEFINE q == req[r]
<1>. USE DEF Gating, Running, Served, Serving
<1>0. q \in Handler /\ Fine(q)
  BY DEF Handlers
<1>1. AfterSuccess(q.sel) \in Served
  BY DEF AfterSuccess
<1>2. ASSUME NEW p \in Served, NEW t \in Usage,
             q.pc \in Running, NEW a \in {q.reply, "done", "broken"},
             q.stream \/ a = "none",
             NEW n, n = [q EXCEPT !.owed = t, !.pc = p, !.reply = a],
             req' = [req EXCEPT ![r] = n]
      PROVE  Delivers(r, n, t)
  <2>1. t \in {0, Tokens} /\ a \in {"none", "committed", "done", "broken"}
    BY <1>0, <1>2, UsageType DEF Fine
  <2>2. n \in Handler
    BY <1>0, <1>2, <2>1 DEF Handler
  <2>3. /\ n.pc = p /\ n.owed = t /\ n.reply = a /\ n.stream = q.stream
        /\ n.sel = q.sel /\ n.cands = q.cands /\ n.attempt = q.attempt
    BY <1>0, <1>2 DEF Handler
  <2>4. Fine(n)
    BY <1>0, <1>2, <2>3 DEF Fine
  <2>5. \A u \in Upstreams : Out(n, u) = Out(q, u)
    BY <1>2, <2>3 DEF Out
  <2>. QED  BY <1>2, <2>2, <2>3, <2>4, <2>5 DEF Delivers, Goes
<1>3. ASSUME Answered(r)
      PROVE  \E n, t : /\ Delivers(r, n, t) /\ ~ q.stream /\ t \in Usage
                       /\ sent' = [sent EXCEPT ![q.sel] = @ + t]
  <2>1. PICK t \in Usage :
           /\ sent' = [sent EXCEPT ![q.sel] = @ + t]
           /\ req' = [req EXCEPT ![r].owed = t, ![r].pc = AfterSuccess(q.sel)]
    BY <1>3 DEF Answered
  <2>. DEFINE n == [q EXCEPT !.owed = t, !.pc = AfterSuccess(q.sel), !.reply = q.reply]
  <2>2. q.pc = "dispatched" /\ ~ q.stream /\ q.reply = "none"
    BY <1>0, <1>3 DEF Answered, At, Fine
  <2>3. n = [q EXCEPT !.owed = t, !.pc = AfterSuccess(q.sel)]
    BY <1>0 DEF Handler
  <2>4. req' = [req EXCEPT ![r] = n]
    BY <2>1, <2>3 DEF Handlers
  <2>. HIDE DEF n
  <2>. QED  BY <1>1, <1>2, <2>1, <2>2, <2>4 DEF n
<1>4. ASSUME StreamEnds(r) \/ WriteFails(r) \/ StreamBreaks(r)
      PROVE  \E n, t : Delivers(r, n, t) /\ q.stream /\ t \in Usage
  <2>1. q.pc = "streaming" /\ q.stream
    BY <1>0, <1>4 DEF StreamEnds, WriteFails, StreamBreaks, At, Fine
  <2>2. PICK t \in Usage, p \in Served, a \in {q.reply, "done", "broken"} :
           req' = [req EXCEPT ![r] = [q EXCEPT !.owed = t, !.pc = p, !.reply = a]]
    <3>1. CASE StreamEnds(r)
      <4>1. PICK t \in Usage : req' = [req EXCEPT ![r].owed = t,
                     ![r].pc = AfterSuccess(q.sel), ![r].reply = "done"]
        BY <3>1, Zenon DEF StreamEnds
      <4>. HIDE DEF Served
      <4>. QED  BY <1>1, <4>1 DEF Handlers
    <3>2. CASE WriteFails(r)
      <4>1. PICK t \in Usage :
               req' = [req EXCEPT ![r].owed = t, ![r].pc = AfterSuccess(q.sel)]
        BY <3>2, Zenon DEF WriteFails
      <4>2. [q EXCEPT !.owed = t, !.pc = AfterSuccess(q.sel)]
               = [q EXCEPT !.owed = t, !.pc = AfterSuccess(q.sel), !.reply = q.reply]
        BY <1>0 DEF Handler
      <4>3. req' = [req EXCEPT ![r] = [q EXCEPT !.owed = t, !.pc = AfterSuccess(q.sel)]]
        BY <4>1 DEF Handlers
      <4>. HIDE DEF Served
      <4>. QED  BY <1>1, <4>2, <4>3
    <3>3. CASE StreamBreaks(r)
      <4>1. PICK t \in Usage : req' = [req EXCEPT ![r].owed = t,
                     ![r].pc = "leave", ![r].reply = "broken"]
        BY <3>3, Zenon DEF StreamBreaks
      <4>. QED  BY <4>1 DEF Handlers
    <3>. QED  BY <1>4, <3>1, <3>2, <3>3
  <2>. QED  BY <1>2, <2>1, <2>2
<1>. QED  BY <1>3, <1>4

LEMMA ForgiveStep ==
    ASSUME Handlers, NEW r \in Requests, Forgive(r)
    PROVE  \E n : /\ Goes(r, n)
                  /\ req[r].sel \in req[r].cands
                  /\ SameService(req[r], n)
                  /\ SameAccount(req[r], n)
<1>. DEFINE q == req[r]
            n == [q EXCEPT !.pc = "leave"]
<1>. USE DEF Gating, Running, Served, Serving
<1>1. q \in Handler /\ Fine(q) /\ q.pc = "forgive" /\ req' = [req EXCEPT ![r] = n]
  BY DEF Handlers, Forgive, At
<1>2. n \in Handler
  BY <1>1 DEF Handler
<1>3. /\ n.pc = "leave" /\ n.sel = q.sel /\ n.cands = q.cands /\ n.stream = q.stream
      /\ n.owed = q.owed /\ n.reply = q.reply /\ n.attempt = q.attempt
  BY <1>1 DEF Handler
<1>. HIDE DEF n
<1>4. Fine(n) /\ q.sel \in q.cands
  BY <1>1, <1>3 DEF Fine
<1>5. SameService(q, n) /\ SameAccount(q, n)
  BY <1>1, <1>3 DEF SameService, SameAccount, Withheld, Out
<1>. QED  BY <1>1, <1>2, <1>4, <1>5 DEF Goes

LEMMA LeaveStep ==
    ASSUME Handlers, NEW r \in Requests, Leave(r)
    PROVE  \E n : /\ Goes(r, n)
                  /\ req[r].pc = "leave" /\ req[r].sel \in Upstreams
                  /\ req[r].owed \in {0, Tokens}
                  /\ n.pc \in {"credit", "return"}
                  /\ Withheld(n) = 0
                  /\ \A u \in Upstreams : Out(n, u) = Out(req[r], u)
                  /\ sent' = [sent EXCEPT ![req[r].sel] = @ + Withheld(req[r])]
                        \/ (sent' = sent /\ Withheld(req[r]) = 0)
<1>. DEFINE q == req[r]
            p == IF q.owed > 0 /\ Total(q.cands) > 0 THEN "credit" ELSE "return"
            a == IF q.stream THEN q.reply ELSE "ok"
            n == [q EXCEPT !.reply = a, !.todo = q.cands, !.pc = p]
<1>. USE DEF Gating, Running, Served, Serving
<1>1. q \in Handler /\ Fine(q) /\ q.pc = "leave"
  BY DEF Handlers, Leave, At
<1>2. req' = [req EXCEPT ![r].reply = a, ![r].todo = q.cands, ![r].pc = p]
  BY Zenon DEF Leave
<1>3. /\ p \in {"credit", "return"} /\ a \in {q.reply, "ok"}
      /\ p = "credit" => q.owed > 0 /\ Total(q.cands) > 0
  OBVIOUS
<1>. HIDE DEF p, a
<1>4. req' = [req EXCEPT ![r] = n]
  BY <1>2 DEF Handlers
<1>5. n \in Handler
  BY <1>1, <1>3 DEF Handler
<1>6. /\ n.pc = p /\ n.todo = q.cands /\ n.sel = q.sel /\ n.cands = q.cands
      /\ n.stream = q.stream /\ n.owed = q.owed /\ n.attempt = q.attempt
  BY <1>1 DEF Handler
<1>. HIDE DEF n
<1>7. q.owed \in {0, Tokens} /\ q.sel \in Upstreams /\ q.cands \in SUBSET Upstreams
      /\ q.stream \in BOOLEAN
  BY <1>1, HandlerFields DEF Fine
<1>8. Fine(n)
  BY <1>1, <1>3, <1>6, <1>7 DEF Fine
<1>9. Withheld(n) = 0 /\ Withheld(q) = (IF q.stream THEN q.owed ELSE 0)
  BY <1>1, <1>3, <1>6 DEF Withheld
<1>10. \A u \in Upstreams : Out(n, u) = Out(q, u)
  BY <1>1, <1>3, <1>6 DEF Out
<1>11. sent' = IF q.stream THEN [sent EXCEPT ![q.sel] = @ + q.owed] ELSE sent
  BY Zenon DEF Leave
<1>12. sent' = [sent EXCEPT ![q.sel] = @ + Withheld(q)] \/ (sent' = sent /\ Withheld(q) = 0)
  BY <1>9, <1>11
<1>. QED  BY <1>1, <1>3, <1>4, <1>5, <1>6, <1>7, <1>8, <1>9, <1>10, <1>12 DEF Goes

LEMMA CreditStep ==
    ASSUME Handlers, NEW r \in Requests, NEW u \in Upstreams, Credit(r, u)
    PROVE  \E n : /\ Goes(r, n)
                  /\ SameService(req[r], n)
                  /\ Withheld(n) = Withheld(req[r])
                  /\ u \in req[r].cands /\ Out(req[r], u) = 0
                  /\ Total(req[r].cands) > 0
                  /\ req[r].owed = Tokens /\ req[r].cands \in SUBSET Upstreams
                  /\ \A v \in Upstreams :
                        Out(n, v) = IF v = u THEN Share(u, req[r].cands, Tokens)
                                    ELSE Out(req[r], v)
<1>. DEFINE q == req[r]
            n == [q EXCEPT !.todo = @ \ {u}]
<1>. USE DEF Gating, Running, Served, Serving
<1>1. q \in Handler /\ Fine(q) /\ q.pc = "credit" /\ u \in q.todo
  BY DEF Handlers, Credit, At
<1>2. req' = [req EXCEPT ![r] = n]
  BY DEF Credit, Handlers
<1>3. n \in Handler
  BY <1>1 DEF Handler
<1>4. /\ n.pc = "credit" /\ n.todo = q.todo \ {u} /\ n.sel = q.sel /\ n.cands = q.cands
      /\ n.owed = q.owed /\ n.attempt = q.attempt
  BY <1>1 DEF Handler
<1>. HIDE DEF n
<1>5. /\ Fine(n) /\ u \in q.cands /\ q.owed = Tokens /\ Total(q.cands) > 0
  BY <1>1, <1>4 DEF Fine
<1>6. SameService(q, n) /\ Withheld(n) = Withheld(q)
  BY <1>1, <1>4 DEF SameService, Withheld
<1>7. Out(q, u) = 0
  BY <1>1 DEF Out
<1>8. ASSUME NEW v \in Upstreams
      PROVE  Out(n, v) = IF v = u THEN Share(u, q.cands, Tokens) ELSE Out(q, v)
  BY <1>1, <1>4, <1>5 DEF Out
<1>9. q.cands \in SUBSET Upstreams
  BY <1>1, HandlerFields
<1>. QED  BY <1>2, <1>3, <1>5, <1>6, <1>7, <1>8, <1>9 DEF Goes

LEMMA DebitStep ==
    ASSUME Handlers, NEW r \in Requests, Debit(r)
    PROVE  \E n : /\ Goes(r, n)
                  /\ SameService(req[r], n)
                  /\ Withheld(n) = Withheld(req[r])
                  /\ req[r].sel \in req[r].cands /\ req[r].cands \in SUBSET Upstreams
                  /\ Total(req[r].cands) > 0 /\ req[r].owed = Tokens
                  /\ \A v \in Upstreams :
                        /\ Out(n, v) = 0
                        /\ Out(req[r], v) = IF v \in req[r].cands
                                            THEN Share(v, req[r].cands, Tokens) ELSE 0
<1>. DEFINE q == req[r]
            n == [q EXCEPT !.pc = "return"]
<1>. USE DEF Gating, Running, Served, Serving
<1>1. q \in Handler /\ Fine(q) /\ q.pc = "credit" /\ q.todo = {}
  BY DEF Handlers, Debit, At
<1>2. req' = [req EXCEPT ![r] = n]
  BY DEF Debit, Handlers
<1>3. n \in Handler /\ n.pc = "return"
  BY <1>1 DEF Handler
<1>. HIDE DEF n
<1>4. /\ q.sel \in q.cands /\ q.owed = Tokens /\ Total(q.cands) > 0
      /\ q.cands \in SUBSET Upstreams
  BY <1>1, HandlerFields DEF Fine
<1>5. Fine(n)
  BY <1>3 DEF Fine
<1>6. SameService(q, n) /\ Withheld(n) = Withheld(q)
  BY <1>1, <1>3 DEF SameService, Withheld
<1>7. ASSUME NEW v \in Upstreams
      PROVE  /\ Out(n, v) = 0
             /\ Out(q, v) = IF v \in q.cands THEN Share(v, q.cands, Tokens) ELSE 0
  BY <1>1, <1>3, <1>4 DEF Out
<1>. QED  BY <1>2, <1>3, <1>4, <1>5, <1>6, <1>7 DEF Goes

(* Whatever a handler does, it only moves itself.                          *)
LEMMA Moves ==
    ASSUME Handlers, NEW r \in Requests, NEW n, Goes(r, n)
    PROVE  /\ Handlers'
           /\ req'[r] = n
           /\ \A s \in Requests \ {r} : req'[s] = req[s]
  BY DEF Handlers, Goes

----------------------------------------------------------------------------
(* The invariant: the handlers, the types of what they share, and one      *)
(* statement for each shared counter.                                      *)

Shared ==
    /\ circuit \in [Upstreams -> {"closed", "open", "cooled", "half_open"}]
    /\ inFlight \in [Upstreams -> Int]
    /\ debt \in [Upstreams -> Int]
    /\ sent \in [Upstreams -> Nat]
    /\ forgiven \in Int

SentBounded == Delivered <= MaxSent

IInv ==
    /\ Handlers
    /\ Shared
    /\ InFlightExact
    /\ ProbeAlive
    /\ SentBounded
    /\ DebtConserved

----------------------------------------------------------------------------
(* Shares.                                                                 *)

LEMMA TotalNat == \A cs \in SUBSET Upstreams : IsFiniteSet(cs) /\ Total(cs) \in Nat
<1>. SUFFICES ASSUME NEW cs \in SUBSET Upstreams PROVE IsFiniteSet(cs) /\ Total(cs) \in Nat
  OBVIOUS
<1>1. IsFiniteSet(cs)
  BY RouterAssumption, FS_Subset DEF RouterAssumption
<1>. QED  BY <1>1, RouterAssumption, SumNat DEF RouterAssumption, Total

LEMMA DivisionExact ==
    ASSUME NEW a \in Nat, NEW b \in Nat, b > 0, a % b = 0
    PROVE  a \div b \in Nat /\ (a \div b) * b = a
  OBVIOUS

LEMMA ShareExact ==
    ASSUME NEW cs \in SUBSET Upstreams, Total(cs) > 0, NEW u \in cs
    PROVE  /\ Share(u, cs, Tokens) \in Nat
           /\ Share(u, cs, Tokens) * Total(cs) = Tokens * Weight[u]
<1>1. Total(cs) \in Nat /\ Tokens * Weight[u] \in Nat
  BY TotalNat, RouterAssumption DEF RouterAssumption
<1>2. (Tokens * Weight[u]) % Total(cs) = 0
  BY WholeCredits
<1>. HIDE DEF Total
<1>. QED  BY <1>1, <1>2, DivisionExact DEF Share

(* What a delivery credits to its candidates is what it debits the winner. *)
LEMMA SharesAddUp ==
    ASSUME NEW cs \in SUBSET Upstreams, Total(cs) > 0
    PROVE  SumFunctionOnSet([u \in Upstreams |->
              IF u \in cs THEN Share(u, cs, Tokens) ELSE 0], Upstreams) = Tokens
<1>. DEFINE s == [u \in Upstreams |-> IF u \in cs THEN Share(u, cs, Tokens) ELSE 0]
            S == SumFunctionOnSet(s, cs)
            k == Total(cs)
            g == [u \in Upstreams |-> Tokens * Weight[u]]
<1>1. IsFiniteSet(cs) /\ k \in Nat /\ k > 0 /\ Tokens \in Nat
  BY TotalNat, RouterAssumption DEF RouterAssumption
<1>2. ASSUME NEW u \in cs
      PROVE  s[u] \in Int /\ g[u] = k * s[u] /\ Weight[u] \in Int
  <2>1. /\ s[u] = Share(u, cs, Tokens) /\ g[u] = Tokens * Weight[u]
        /\ Weight[u] \in Nat
    BY RouterAssumption DEF RouterAssumption
  <2>. HIDE DEF s, g
  <2>2. s[u] \in Nat /\ s[u] * k = g[u]
    BY <2>1, ShareExact
  <2>. HIDE DEF k
  <2>. QED  BY <1>1, <2>1, <2>2
<1>3. SumFunctionOnSet(s, Upstreams) = S
  <2>1. \A u \in Upstreams \ cs : s[u] = 0
    OBVIOUS
  <2>. HIDE DEF s
  <2>. QED  BY <1>2, <2>1, SumSupport, RouterAssumption DEF RouterAssumption
<1>4. SumFunctionOnSet(g, cs) = k * S
  <2>. HIDE DEF s, g, k
  <2>. QED  BY <1>1, <1>2, SumScale
<1>5. SumFunctionOnSet(g, cs) = Tokens * k
  <2>1. \A u \in cs : g[u] = Tokens * Weight[u] /\ Weight[u] \in Int
    BY <1>2
  <2>. HIDE DEF g
  <2>2. SumFunctionOnSet(g, cs) = Tokens * SumFunctionOnSet(Weight, cs)
    BY <1>1, <2>1, SumScale
  <2>. QED  BY <2>2 DEF Total
<1>6. S \in Int
  <2>. HIDE DEF s
  <2>. QED  BY <1>1, <1>2, SumInt
<1>. HIDE DEF s, S, k, g
<1>7. S = Tokens
  BY <1>1, <1>4, <1>5, <1>6
<1>. QED  BY <1>3, <1>7 DEF s

LEMMA OutInt ==
    ASSUME NEW q \in Handler, Fine(q), NEW u \in Upstreams
    PROVE  Out(q, u) \in Int
<1>1. CASE q.pc = "credit" /\ u \in q.cands \ q.todo
  <2>1. q.cands \in SUBSET Upstreams /\ Total(q.cands) > 0 /\ q.owed = Tokens
    BY <1>1, HandlerFields DEF Fine
  <2>. QED  BY <1>1, <2>1, ShareExact DEF Out
<1>2. CASE ~ (q.pc = "credit" /\ u \in q.cands \ q.todo)
  BY <1>2 DEF Out
<1>. QED  BY <1>1, <1>2

LEMMA WithheldNat == \A q \in Handler : Withheld(q) \in Nat
  BY HandlerFields, RouterAssumption DEF Withheld, RouterAssumption

(* The books of a move: only the moving handler's entries change.          *)
LEMMA MoveUnsettled ==
    ASSUME Handlers, NEW r \in Requests, NEW n, Goes(r, n), NEW u \in Upstreams
    PROVE  /\ Unsettled(u) \in Int /\ Unsettled(u)' \in Int
           /\ Unsettled(u)' = Unsettled(u) + (Out(n, u) - Out(req[r], u))
<1>. DEFINE f == [s \in Requests |-> Credited(s, u)]
            g == [s \in Requests |-> Credited(s, u)']
<1>1. Handlers' /\ req'[r] = n /\ \A s \in Requests \ {r} : req'[s] = req[s]
  BY Moves
<1>2. \A s \in Requests : f[s] = Out(req[s], u) /\ g[s] = Out(req'[s], u)
  BY DEF Credited, Out, At
<1>3. \A s \in Requests : f[s] \in Int /\ g[s] \in Int
  BY <1>1, <1>2, OutInt DEF Handlers
<1>4. \A s \in Requests \ {r} : g[s] = f[s]
  BY <1>1, <1>2
<1>5. IsFiniteSet(Requests)
  BY RouterAssumption DEF RouterAssumption
<1>6. Unsettled(u) = SumFunctionOnSet(f, Requests)
      /\ Unsettled(u)' = SumFunctionOnSet(g, Requests)
  BY DEF Unsettled
<1>. HIDE DEF f, g
<1>7. SumFunctionOnSet(g, Requests) = SumFunctionOnSet(f, Requests) + (g[r] - f[r])
  BY <1>3, <1>4, <1>5, SumUpdate
<1>8. SumFunctionOnSet(f, Requests) \in Int /\ SumFunctionOnSet(g, Requests) \in Int
  BY <1>3, <1>5, SumInt
<1>. QED  BY <1>1, <1>2, <1>6, <1>7, <1>8

LEMMA MoveUnrecorded ==
    ASSUME Handlers, NEW r \in Requests, NEW n, Goes(r, n)
    PROVE  LET D == SumFunctionOnSet([s \in Requests |-> Unrecorded(s)], Requests)
           IN  D \in Int /\ D' \in Int /\ D' = D + (Withheld(n) - Withheld(req[r]))
<1>. DEFINE f == [s \in Requests |-> Unrecorded(s)]
            g == [s \in Requests |-> Unrecorded(s)']
<1>1. Handlers' /\ req'[r] = n /\ \A s \in Requests \ {r} : req'[s] = req[s]
  BY Moves
<1>2. \A s \in Requests : f[s] = Withheld(req[s]) /\ g[s] = Withheld(req'[s])
  BY DEF Unrecorded, Withheld, Served
<1>3. \A s \in Requests : f[s] \in Int /\ g[s] \in Int
  BY <1>1, <1>2, WithheldNat DEF Handlers
<1>4. \A s \in Requests \ {r} : g[s] = f[s]
  BY <1>1, <1>2
<1>5. IsFiniteSet(Requests)
  BY RouterAssumption DEF RouterAssumption
<1>6. SumFunctionOnSet(f, Requests)' = SumFunctionOnSet(g, Requests)
  OBVIOUS
<1>7. SumFunctionOnSet(g, Requests) = SumFunctionOnSet(f, Requests) + (g[r] - f[r])
  <2>. HIDE DEF f, g
  <2>. QED  BY <1>3, <1>4, <1>5, SumUpdate
<1>8. SumFunctionOnSet(f, Requests) \in Int /\ SumFunctionOnSet(g, Requests) \in Int
  <2>. HIDE DEF f, g
  <2>. QED  BY <1>3, <1>5, SumInt
<1>9. g[r] - f[r] = Withheld(n) - Withheld(req[r])
  BY <1>1, <1>2
<1>. QED  BY <1>6, <1>7, <1>8, <1>9

----------------------------------------------------------------------------
(* How a move changes who serves an upstream                               *)

Runs(u) == {r \in Requests : req[r].sel = u /\ req[r].pc \in Running}

LEMMA RequestsFinite ==
    /\ IsFiniteSet(Requests)
    /\ Cardinality(Requests) \in Nat /\ Cardinality(Requests) > 0
    /\ \A S \in SUBSET Requests :
          /\ IsFiniteSet(S) /\ Cardinality(S) \in Nat
          /\ Cardinality(S) <= Cardinality(Requests)
<1>1. IsFiniteSet(Requests) /\ Requests # {}
  BY RouterAssumption DEF RouterAssumption
<1>2. Cardinality(Requests) \in Nat /\ Cardinality(Requests) # 0
  BY <1>1, FS_CardinalityType, FS_EmptySet
<1>3. ASSUME NEW S \in SUBSET Requests
      PROVE  /\ IsFiniteSet(S) /\ Cardinality(S) \in Nat
             /\ Cardinality(S) <= Cardinality(Requests)
  BY <1>1, FS_Subset, FS_CardinalityType
<1>. QED  BY <1>1, <1>2, <1>3

LEMMA ServiceKept ==
    ASSUME Handlers, NEW r \in Requests, NEW n, Goes(r, n), SameService(req[r], n)
    PROVE  \A u \in Upstreams : Dispatches(u)' = Dispatches(u) /\ Runs(u)' = Runs(u)
<1>1. req'[r] = n /\ \A s \in Requests \ {r} : req'[s] = req[s]
  BY Moves
<1>2. \A u, s : (req'[s].sel = u /\ req'[s].pc \in Running
                   <=> req[s].sel = u /\ req[s].pc \in Running)
                \/ s \notin Requests
  BY <1>1 DEF SameService, Serving
<1>3. \A u, s : (req'[s].sel = u /\ req'[s].pc \in Serving
                   <=> req[s].sel = u /\ req[s].pc \in Serving)
                \/ s \notin Requests
  BY <1>1 DEF SameService
<1>. QED  BY <1>2, <1>3 DEF Dispatches, Runs, Serving, Running, Served

LEMMA ServiceBegins ==
    ASSUME Handlers, NEW r \in Requests, NEW n, Goes(r, n),
           req[r].pc \notin Serving, n.pc = "dispatched", NEW u \in Upstreams
    PROVE  IF n.sel = u
           THEN /\ r \notin Dispatches(u) /\ Dispatches(u)' = Dispatches(u) \cup {r}
                /\ r \notin Runs(u) /\ Runs(u)' = Runs(u) \cup {r}
           ELSE Dispatches(u)' = Dispatches(u) /\ Runs(u)' = Runs(u)
<1>1. req'[r] = n /\ \A s \in Requests \ {r} : req'[s] = req[s]
  BY Moves
<1>. QED  BY <1>1 DEF Dispatches, Runs, Serving, Running, Served

LEMMA ServiceEnds ==
    ASSUME Handlers, NEW r \in Requests, NEW n, Goes(r, n),
           req[r].pc \in Serving, n.pc \notin Serving, NEW u \in Upstreams
    PROVE  /\ IF req[r].sel = u
              THEN r \in Dispatches(u) /\ Dispatches(u)' = Dispatches(u) \ {r}
              ELSE Dispatches(u)' = Dispatches(u)
           /\ Runs(u)' = Runs(u) \ {r}
           /\ req[r].pc \in Running => (r \in Runs(u) <=> req[r].sel = u)
           /\ req[r].pc \notin Running \/ req[r].sel # u => r \notin Runs(u)
<1>1. req'[r] = n /\ \A s \in Requests \ {r} : req'[s] = req[s]
  BY Moves
<1>. QED  BY <1>1 DEF Dispatches, Runs, Serving, Running, Served

LEMMA ServiceReports ==
    ASSUME Handlers, NEW r \in Requests, NEW n, Goes(r, n),
           req[r].pc \in Running, n.pc \in Served, n.sel = req[r].sel,
           NEW u \in Upstreams
    PROVE  /\ Dispatches(u)' = Dispatches(u)
           /\ Runs(u)' = Runs(u) \ {r}
           /\ r \in Runs(u) <=> req[r].sel = u
<1>1. req'[r] = n /\ \A s \in Requests \ {r} : req'[s] = req[s]
  BY Moves
<1>. QED  BY <1>1 DEF Dispatches, Runs, Serving, Running, Served

----------------------------------------------------------------------------
(* Every step is one of these.                                             *)
LEMMA Steps ==
    ASSUME Handlers, Shared, Next
    PROVE  \/ \E r \in Requests : Silently(r) /\ UNCHANGED shared
           \/ \E r \in Requests, u \in Upstreams : Examine(r, u)
           \/ \E r \in Requests : Admit(r)
           \/ \E r \in Requests : DispatchFails(r) \/ BadAnswer(r)
           \/ \E r \in Requests : Answered(r)
           \/ \E r \in Requests : StreamEnds(r) \/ WriteFails(r) \/ StreamBreaks(r)
           \/ \E r \in Requests : Forgive(r)
           \/ \E r \in Requests : Leave(r)
           \/ \E r \in Requests, u \in Upstreams : Credit(r, u)
           \/ \E r \in Requests : Debit(r)
           \/ \E u \in Upstreams : CoolDown(u)
<1>1. debt \in [Upstreams -> Int]
  BY DEF Shared
<1>2. ASSUME NEW r \in Requests,
             NewRequest(r) \/ Local(r) \/ Remote(r) \/ BudgetExpires(r) \/ ClientLeaves(r)
      PROVE  \/ Silently(r) /\ UNCHANGED shared
             \/ \E u \in Upstreams : Examine(r, u)
             \/ Admit(r) \/ DispatchFails(r) \/ BadAnswer(r) \/ Answered(r)
             \/ StreamEnds(r) \/ WriteFails(r) \/ StreamBreaks(r)
             \/ Forgive(r) \/ Leave(r)
             \/ \E u \in Upstreams : Credit(r, u)
             \/ Debit(r)
  <2>. DEFINE Quiet == \/ NewRequest(r) \/ Choose(r) \/ (\E u \in Upstreams : Consider(r, u))
                       \/ NoUpstream(r) \/ GiveUp(r) \/ Deny(r) \/ FirstChunk(r)
                       \/ Return(r) \/ BudgetExpires(r) \/ ClientLeaves(r)
  <2>1. Quiet => Silently(r) /\ UNCHANGED shared
    BY <1>1, SilentSteps, Zenon
  <2>2. \/ Quiet
        \/ \E u \in Upstreams : Examine(r, u)
        \/ Admit(r) \/ DispatchFails(r) \/ BadAnswer(r) \/ Answered(r)
        \/ StreamEnds(r) \/ WriteFails(r) \/ StreamBreaks(r)
        \/ Forgive(r) \/ Leave(r)
        \/ \E u \in Upstreams : Credit(r, u)
        \/ Debit(r)
    BY <1>2, Zenon DEF Local, Remote
  <2>. QED  BY <2>1, <2>2, Zenon
<1>. QED  BY <1>2, Zenon DEF Next

LEMMA SelectedFirst ==
    ASSUME Handlers, NEW r \in Requests,
           req[r].pc \in {"admit", "credit"} \cup Serving
    PROVE  req[r].sel \in Upstreams /\ req[r].sel \in req[r].cands
  BY HandlerFields DEF Handlers, Fine

LEMMA TypesKept ==
    ASSUME Handlers, Shared, Next
    PROVE  Handlers' /\ Shared'
<1>. USE DEF Serving, Running, Served
<1>1. ASSUME NEW r \in Requests, Silently(r) /\ UNCHANGED shared PROVE Handlers' /\ Shared'
  BY <1>1, Moves DEF Silently, Shared, shared
<1>2. ASSUME NEW r \in Requests, NEW u \in Upstreams, Examine(r, u) PROVE Handlers' /\ Shared'
  <2>1. Handlers'
    BY <1>2, ExamineStep, Moves
  <2>. QED  BY <1>2, <2>1 DEF Examine, Shared, shared
<1>3. ASSUME NEW r \in Requests, Admit(r) PROVE Handlers' /\ Shared'
  <2>1. Handlers'
    BY <1>3, AdmitStep, Moves
  <2>2. req[r].sel \in Upstreams
    BY <1>3, SelectedFirst DEF Admit, At
  <2>3. circuit' \in [Upstreams -> {"closed", "open", "cooled", "half_open"}]
    BY <1>3 DEF Admit, Allow, Shared
  <2>4. inFlight' \in [Upstreams -> Int]
    BY <1>3, <2>2, RouterAssumption DEF Admit, Shared, RouterAssumption
  <2>. QED  BY <1>3, <2>1, <2>3, <2>4 DEF Admit, Shared
<1>4. ASSUME NEW r \in Requests, DispatchFails(r) \/ BadAnswer(r) PROVE Handlers' /\ Shared'
  <2>1. PICK n : Goes(r, n) /\ req[r].pc = "dispatched" /\ Undelivered(r, n)
    BY <1>4, UndeliveredStep
  <2>2. req[r].sel \in Upstreams
    BY <2>1, SelectedFirst
  <2>. QED  BY <2>1, <2>2, Moves DEF Undelivered, RecordFailure, Shared
<1>5. ASSUME NEW r \in Requests, Answered(r) PROVE Handlers' /\ Shared'
  <2>1. PICK n, t : /\ Delivers(r, n, t) /\ t \in Usage
                    /\ sent' = [sent EXCEPT ![req[r].sel] = @ + t]
    BY <1>5, DeliverySteps
  <2>2. req[r].sel \in Upstreams /\ t \in Nat
    BY <2>1, SelectedFirst, UsageType, RouterAssumption DEF Delivers, RouterAssumption
  <2>3. sent' \in [Upstreams -> Nat]
    BY <2>1, <2>2 DEF Shared
  <2>. QED  BY <1>5, <2>1, <2>3, Moves DEF Answered, RecordSuccess, Shared, Delivers
<1>6. ASSUME NEW r \in Requests, StreamEnds(r) \/ WriteFails(r) \/ StreamBreaks(r)
      PROVE  Handlers' /\ Shared'
  <2>1. Handlers'
    BY <1>6, DeliverySteps, Moves DEF Delivers
  <2>2. RecordSuccess(req[r].sel) \/ RecordFailure(req[r].sel)
    BY <1>6 DEF StreamEnds, WriteFails, StreamBreaks
  <2>3. UNCHANGED <<inFlight, debt, sent, forgiven>>
    BY <1>6 DEF StreamEnds, WriteFails, StreamBreaks
  <2>. QED  BY <2>1, <2>2, <2>3 DEF RecordSuccess, RecordFailure, Shared
<1>7. ASSUME NEW r \in Requests, Forgive(r) PROVE Handlers' /\ Shared'
  <2>1. Handlers'
    BY <1>7, ForgiveStep, Moves
  <2>2. req[r].sel \in Upstreams
    BY <1>7, SelectedFirst DEF Forgive, At
  <2>. QED  BY <1>7, <2>1, <2>2 DEF Forgive, Shared
<1>8. ASSUME NEW r \in Requests, Leave(r) PROVE Handlers' /\ Shared'
  <2>1. Handlers' /\ req[r].sel \in Upstreams /\ req[r].owed \in Nat
    BY <1>8, LeaveStep, Moves, RouterAssumption DEF RouterAssumption
  <2>2. inFlight' \in [Upstreams -> Int] /\ UNCHANGED <<circuit, debt, forgiven>>
    BY <1>8, <2>1 DEF Leave, Shared
  <2>3. sent' = [sent EXCEPT ![req[r].sel] = @ + req[r].owed] \/ sent' = sent
    BY <1>8 DEF Leave
  <2>. QED  BY <2>1, <2>2, <2>3 DEF Shared
<1>9. ASSUME NEW r \in Requests, NEW u \in Upstreams, Credit(r, u) PROVE Handlers' /\ Shared'
  <2>1. PICK n : /\ Goes(r, n) /\ u \in req[r].cands /\ Total(req[r].cands) > 0
                 /\ req[r].owed = Tokens /\ req[r].cands \in SUBSET Upstreams
    BY <1>9, CreditStep
  <2>2. Share(u, req[r].cands, req[r].owed) \in Nat
    BY <2>1, ShareExact
  <2>. QED  BY <1>9, <2>1, <2>2, Moves DEF Credit, Shared
<1>10. ASSUME NEW r \in Requests, Debit(r) PROVE Handlers' /\ Shared'
  <2>1. PICK n : /\ Goes(r, n) /\ req[r].sel \in req[r].cands
                 /\ req[r].owed = Tokens /\ req[r].cands \in SUBSET Upstreams
    BY <1>10, DebitStep
  <2>2. req[r].owed \in Nat /\ req[r].sel \in Upstreams
    BY <2>1, RouterAssumption DEF RouterAssumption
  <2>. QED  BY <1>10, <2>1, <2>2, Moves DEF Debit, Shared
<1>11. ASSUME NEW u \in Upstreams, CoolDown(u) PROVE Handlers' /\ Shared'
  BY <1>11 DEF CoolDown, Handlers, Shared
<1>. QED  BY <1>1, <1>2, <1>3, <1>4, <1>5, <1>6, <1>7, <1>8, <1>9, <1>10, <1>11, Steps

----------------------------------------------------------------------------
(* The in-flight counter.                                                  *)

LEMMA CountAgain ==
    ASSUME InFlightExact, UNCHANGED inFlight,
           \A u \in Upstreams : Dispatches(u)' = Dispatches(u)
    PROVE  InFlightExact'
  BY DEF InFlightExact

LEMMA CountOut ==
    ASSUME Handlers, Shared, InFlightExact, NEW r \in Requests, NEW n, Goes(r, n),
           req[r].pc \in Serving, n.pc \notin Serving,
           inFlight' = [inFlight EXCEPT ![req[r].sel] = @ - 1]
    PROVE  InFlightExact'
<1>. SUFFICES ASSUME NEW u \in Upstreams
              PROVE  inFlight'[u] = Cardinality(Dispatches(u)')
  BY DEF InFlightExact
<1>1. IF req[r].sel = u
      THEN r \in Dispatches(u) /\ Dispatches(u)' = Dispatches(u) \ {r}
      ELSE Dispatches(u)' = Dispatches(u)
  BY ServiceEnds
<1>2. Dispatches(u) \in SUBSET Requests
  BY DEF Dispatches
<1>3. IsFiniteSet(Dispatches(u)) /\ Cardinality(Dispatches(u)) \in Nat
      /\ inFlight[u] = Cardinality(Dispatches(u))
  BY <1>2, RequestsFinite DEF InFlightExact
<1>4. r \in Dispatches(u) =>
        Cardinality(Dispatches(u) \ {r}) = Cardinality(Dispatches(u)) - 1
  BY <1>3, FS_RemoveElement
<1>. QED  BY <1>1, <1>3, <1>4 DEF Shared

LEMMA InFlightKept ==
    ASSUME Handlers, Shared, InFlightExact, Next
    PROVE  InFlightExact'
<1>. USE DEF Serving, Running, Served
<1>1. ASSUME NEW r \in Requests, Silently(r) /\ UNCHANGED shared PROVE InFlightExact'
  BY <1>1, ServiceKept, CountAgain DEF Silently, shared
<1>2. ASSUME NEW r \in Requests, NEW u \in Upstreams, Examine(r, u) PROVE InFlightExact'
  BY <1>2, ExamineStep, ServiceKept, CountAgain DEF Examine, shared
<1>3. ASSUME NEW r \in Requests, Admit(r) PROVE InFlightExact'
  <2>1. PICK n : /\ Goes(r, n) /\ req[r].pc = "admit"
                 /\ n.pc = "dispatched" /\ n.sel = req[r].sel
    BY <1>3, AdmitStep
  <2>. SUFFICES ASSUME NEW u \in Upstreams
                PROVE  inFlight'[u] = Cardinality(Dispatches(u)')
    BY DEF InFlightExact
  <2>2. IF req[r].sel = u
        THEN r \notin Dispatches(u) /\ Dispatches(u)' = Dispatches(u) \cup {r}
        ELSE Dispatches(u)' = Dispatches(u)
    BY <2>1, ServiceBegins
  <2>3. Dispatches(u) \in SUBSET Requests
    BY DEF Dispatches
  <2>4. IsFiniteSet(Dispatches(u)) /\ Cardinality(Dispatches(u)) \in Nat
        /\ inFlight[u] = Cardinality(Dispatches(u))
    BY <2>3, RequestsFinite DEF InFlightExact
  <2>5. r \notin Dispatches(u) =>
          Cardinality(Dispatches(u) \cup {r}) = Cardinality(Dispatches(u)) + 1
    BY <2>4, FS_AddElement
  <2>6. inFlight' = [inFlight EXCEPT ![req[r].sel] = @ + 1]
    BY <1>3 DEF Admit
  <2>. QED  BY <2>2, <2>4, <2>5, <2>6 DEF Shared
<1>4. ASSUME NEW r \in Requests, DispatchFails(r) \/ BadAnswer(r) PROVE InFlightExact'
  BY <1>4, UndeliveredStep, CountOut DEF Undelivered
<1>5. ASSUME NEW r \in Requests, Answered(r) PROVE InFlightExact'
  <2>1. UNCHANGED inFlight
    BY <1>5 DEF Answered
  <2>2. \E n, t : Delivers(r, n, t)
    BY <1>5, DeliverySteps
  <2>. QED  BY <2>1, <2>2, ServiceReports, CountAgain DEF Delivers
<1>6. ASSUME NEW r \in Requests, StreamEnds(r) \/ WriteFails(r) \/ StreamBreaks(r)
      PROVE  InFlightExact'
  <2>1. UNCHANGED inFlight
    BY <1>6 DEF StreamEnds, WriteFails, StreamBreaks
  <2>2. \E n, t : Delivers(r, n, t)
    BY <1>6, DeliverySteps
  <2>. QED  BY <2>1, <2>2, ServiceReports, CountAgain DEF Delivers
<1>7. ASSUME NEW r \in Requests, Forgive(r) PROVE InFlightExact'
  BY <1>7, ForgiveStep, ServiceKept, CountAgain DEF Forgive
<1>8. ASSUME NEW r \in Requests, Leave(r) PROVE InFlightExact'
  BY <1>8, LeaveStep, CountOut DEF Leave
<1>9. ASSUME NEW r \in Requests, NEW u \in Upstreams, Credit(r, u) PROVE InFlightExact'
  BY <1>9, CreditStep, ServiceKept, CountAgain DEF Credit
<1>10. ASSUME NEW r \in Requests, Debit(r) PROVE InFlightExact'
  BY <1>10, DebitStep, ServiceKept, CountAgain DEF Debit
<1>11. ASSUME NEW u \in Upstreams, CoolDown(u) PROVE InFlightExact'
  BY <1>11, CountAgain DEF CoolDown, Dispatches
<1>. QED  BY <1>1, <1>2, <1>3, <1>4, <1>5, <1>6, <1>7, <1>8, <1>9, <1>10, <1>11, Steps

----------------------------------------------------------------------------
(* The probe.  Whoever reports first to a half-open circuit ends that      *)
(* state, so the runs that remain need not include the probe itself.       *)

LEMMA ProbeRuns == ProbeAlive <=> \A u \in Upstreams : circuit[u] = "half_open" => Runs(u) # {}
  BY DEF ProbeAlive, Runs, Running

LEMMA ProbeRunsNext ==
    (\A u \in Upstreams : circuit'[u] = "half_open" => Runs(u)' # {}) => ProbeAlive'
  BY DEF ProbeAlive, Runs, Running

LEMMA ProbeStays ==
    ASSUME ProbeAlive, UNCHANGED circuit, \A u \in Upstreams : Runs(u)' = Runs(u)
    PROVE  ProbeAlive'
  BY ProbeRuns, ProbeRunsNext

LEMMA Reported ==
    ASSUME Shared, NEW u \in Upstreams, RecordSuccess(u) \/ RecordFailure(u)
    PROVE  /\ circuit'[u] # "half_open"
           /\ \A v \in Upstreams \ {u} : circuit'[v] = circuit[v]
  BY DEF Shared, RecordSuccess, RecordFailure

LEMMA ProbeReports ==
    ASSUME Shared, ProbeAlive, NEW r \in Requests, req[r].sel \in Upstreams,
           RecordSuccess(req[r].sel) \/ RecordFailure(req[r].sel),
           \A u \in Upstreams : req[r].sel # u => Runs(u)' = Runs(u)
    PROVE  ProbeAlive'
<1>1. \A u \in Upstreams : circuit'[u] = "half_open" => Runs(u)' # {}
  BY Reported, ProbeRuns
<1>. QED  BY <1>1, ProbeRunsNext

LEMMA ProbeKept ==
    ASSUME Handlers, Shared, ProbeAlive, Next
    PROVE  ProbeAlive'
<1>. USE DEF Serving, Running, Served
<1>1. ASSUME NEW r \in Requests, Silently(r) /\ UNCHANGED shared PROVE ProbeAlive'
  BY <1>1, ServiceKept, ProbeStays DEF Silently, shared
<1>2. ASSUME NEW r \in Requests, NEW u \in Upstreams, Examine(r, u) PROVE ProbeAlive'
  BY <1>2, ExamineStep, ServiceKept, ProbeStays DEF Examine, shared
<1>3. ASSUME NEW r \in Requests, Admit(r) PROVE ProbeAlive'
  <2>1. PICK n : /\ Goes(r, n) /\ req[r].pc = "admit"
                 /\ n.pc = "dispatched" /\ n.sel = req[r].sel
    BY <1>3, AdmitStep
  <2>2. Allow(req[r].sel)
    BY <1>3 DEF Admit
  <2>3. \A u \in Upstreams : circuit'[u] = "half_open" => Runs(u)' # {}
    <3>. SUFFICES ASSUME NEW u \in Upstreams, circuit'[u] = "half_open"
                  PROVE  Runs(u)' # {}
      OBVIOUS
    <3>1. IF req[r].sel = u THEN Runs(u)' = Runs(u) \cup {r} ELSE Runs(u)' = Runs(u)
      BY <2>1, ServiceBegins
    <3>2. req[r].sel # u => circuit[u] = "half_open"
      BY <2>2 DEF Allow, Shared
    <3>. QED  BY <3>1, <3>2, ProbeRuns
  <2>. QED  BY <2>3, ProbeRunsNext
<1>4. ASSUME NEW r \in Requests, DispatchFails(r) \/ BadAnswer(r) PROVE ProbeAlive'
  <2>1. PICK n : /\ Goes(r, n) /\ req[r].pc = "dispatched" /\ n.pc \notin Serving
                 /\ Undelivered(r, n)
    BY <1>4, UndeliveredStep
  <2>2. ASSUME NEW u \in Upstreams, req[r].sel # u PROVE Runs(u)' = Runs(u)
    <3>1. Runs(u)' = Runs(u) \ {r} /\ r \notin Runs(u)
      BY <2>1, <2>2, ServiceEnds
    <3>. QED  BY <3>1
  <2>3. req[r].sel \in Upstreams
    BY <2>1, SelectedFirst
  <2>. QED  BY <2>1, <2>2, <2>3, ProbeReports DEF Undelivered
<1>5. ASSUME NEW r \in Requests,
             Answered(r) \/ StreamEnds(r) \/ WriteFails(r) \/ StreamBreaks(r)
      PROVE  ProbeAlive'
  <2>1. PICK n, t : Delivers(r, n, t)
    BY <1>5, DeliverySteps
  <2>2. ASSUME NEW u \in Upstreams, req[r].sel # u PROVE Runs(u)' = Runs(u)
    <3>1. Runs(u)' = Runs(u) \ {r} /\ r \notin Runs(u)
      BY <2>1, <2>2, ServiceReports DEF Delivers
    <3>. QED  BY <3>1
  <2>3. req[r].sel \in Upstreams
    BY <2>1, SelectedFirst DEF Delivers
  <2>4. RecordSuccess(req[r].sel) \/ RecordFailure(req[r].sel)
    BY <1>5 DEF Answered, StreamEnds, WriteFails, StreamBreaks
  <2>. QED  BY <2>2, <2>3, <2>4, ProbeReports
<1>6. ASSUME NEW r \in Requests, Forgive(r) PROVE ProbeAlive'
  BY <1>6, ForgiveStep, ServiceKept, ProbeStays DEF Forgive
<1>7. ASSUME NEW r \in Requests, Leave(r) PROVE ProbeAlive'
  <2>1. PICK n : Goes(r, n) /\ req[r].pc = "leave" /\ n.pc \in {"credit", "return"}
    BY <1>7, LeaveStep
  <2>2. ASSUME NEW u \in Upstreams PROVE Runs(u)' = Runs(u)
    <3>1. Runs(u)' = Runs(u) \ {r} /\ r \notin Runs(u)
      BY <2>1, ServiceEnds
    <3>. QED  BY <3>1
  <2>. QED  BY <1>7, <2>2, ProbeStays DEF Leave
<1>8. ASSUME NEW r \in Requests, NEW u \in Upstreams, Credit(r, u) PROVE ProbeAlive'
  BY <1>8, CreditStep, ServiceKept, ProbeStays DEF Credit
<1>9. ASSUME NEW r \in Requests, Debit(r) PROVE ProbeAlive'
  BY <1>9, DebitStep, ServiceKept, ProbeStays DEF Debit
<1>10. ASSUME NEW u \in Upstreams, CoolDown(u) PROVE ProbeAlive'
  BY <1>10 DEF CoolDown, ProbeAlive, Shared
<1>. QED  BY <1>1, <1>2, <1>3, <1>4, <1>5, <1>6, <1>7, <1>8, <1>9, <1>10, Steps

----------------------------------------------------------------------------
(* The tokens recorded or still to be recorded.                            *)

LEMMA SentStays ==
    ASSUME Handlers, Shared, NEW r \in Requests, NEW n, Goes(r, n), UNCHANGED sent
    PROVE  /\ Delivered \in Int
           /\ Delivered' = Delivered + (Withheld(n) - Withheld(req[r]))
<1>. DEFINE D == SumFunctionOnSet([s \in Requests |-> Unrecorded(s)], Requests)
<1>1. D \in Int /\ D' \in Int /\ D' = D + (Withheld(n) - Withheld(req[r]))
  BY MoveUnrecorded
<1>2. Sum(sent) \in Int
  BY SumInt, RouterAssumption DEF Shared, Sum, RouterAssumption
<1>3. Sum(sent)' = Sum(sent)
  BY DEF Sum
<1>4. Delivered = Sum(sent) + D /\ Delivered' = Sum(sent)' + D'
  BY Zenon DEF Delivered
<1>5. Withheld(n) \in Int /\ Withheld(req[r]) \in Int
  BY WithheldNat DEF Goes, Handlers
<1>. HIDE DEF D
<1>. QED  BY <1>1, <1>2, <1>3, <1>4, <1>5

LEMMA SentGrows ==
    ASSUME Handlers, Shared, NEW r \in Requests, NEW n, Goes(r, n),
           NEW u \in Upstreams, NEW t \in Nat, sent' = [sent EXCEPT ![u] = @ + t]
    PROVE  /\ Delivered \in Int
           /\ Delivered' = Delivered + t + (Withheld(n) - Withheld(req[r]))
<1>. DEFINE D == SumFunctionOnSet([s \in Requests |-> Unrecorded(s)], Requests)
<1>1. D \in Int /\ D' \in Int /\ D' = D + (Withheld(n) - Withheld(req[r]))
  BY MoveUnrecorded
<1>2. Sum(sent) \in Int
  BY SumInt, RouterAssumption DEF Shared, Sum, RouterAssumption
<1>3. Sum(sent)' = Sum(sent) + t
  <2>. DEFINE f == sent
              g == sent'
  <2>1. /\ \A v \in Upstreams : f[v] \in Int /\ g[v] \in Int
        /\ \A v \in Upstreams \ {u} : g[v] = f[v]
        /\ g[u] - f[u] = t
    BY DEF Shared
  <2>2. IsFiniteSet(Upstreams)
    BY RouterAssumption DEF RouterAssumption
  <2>3. Sum(sent) = SumFunctionOnSet(f, Upstreams)
        /\ Sum(sent)' = SumFunctionOnSet(g, Upstreams)
    BY DEF Sum
  <2>. HIDE DEF f, g
  <2>4. SumFunctionOnSet(g, Upstreams) = SumFunctionOnSet(f, Upstreams) + (g[u] - f[u])
    BY <2>1, <2>2, SumUpdate
  <2>. QED  BY <2>1, <2>3, <2>4
<1>4. Delivered = Sum(sent) + D /\ Delivered' = Sum(sent)' + D'
  BY Zenon DEF Delivered
<1>5. Withheld(n) \in Int /\ Withheld(req[r]) \in Int
  BY WithheldNat DEF Goes, Handlers
<1>. HIDE DEF D
<1>. QED  BY <1>1, <1>2, <1>3, <1>4, <1>5

LEMMA SentKept ==
    ASSUME Handlers, Shared, SentBounded, Next
    PROVE  SentBounded'
<1>. USE DEF Serving, Running, Served
<1>w. ASSUME NEW r \in Requests PROVE Withheld(req[r]) \in Nat
  BY WithheldNat DEF Handlers
<1>1. ASSUME NEW r \in Requests, NEW n, Goes(r, n), Withheld(n) = Withheld(req[r]),
             UNCHANGED sent
      PROVE  SentBounded'
  <2>1. /\ Delivered \in Int
        /\ Delivered' = Delivered + (Withheld(n) - Withheld(req[r]))
    BY <1>1, SentStays
  <2>. QED  BY <1>1, <1>w, <2>1 DEF SentBounded
<1>2. ASSUME NEW r \in Requests, Silently(r) /\ UNCHANGED shared PROVE SentBounded'
  BY <1>1, <1>2 DEF Silently, shared, SameAccount
<1>3. ASSUME NEW r \in Requests, NEW u \in Upstreams, Examine(r, u) PROVE SentBounded'
  BY <1>1, <1>3, ExamineStep DEF Examine, shared, SameAccount
<1>4. ASSUME NEW r \in Requests, Admit(r) PROVE SentBounded'
  BY <1>1, <1>4, AdmitStep DEF Admit, SameAccount
<1>5. ASSUME NEW r \in Requests, DispatchFails(r) \/ BadAnswer(r) PROVE SentBounded'
  BY <1>1, <1>5, UndeliveredStep DEF Undelivered, SameAccount
<1>6. ASSUME NEW r \in Requests, Answered(r) PROVE SentBounded'
  <2>1. PICK n, t : /\ Delivers(r, n, t) /\ t \in Usage /\ ~ req[r].stream
                    /\ sent' = [sent EXCEPT ![req[r].sel] = @ + t]
    BY <1>6, DeliverySteps
  <2>2. req[r].sel \in Upstreams /\ t \in Nat /\ Delivered + t <= MaxSent
    BY <2>1, SelectedFirst, UsageType, RouterAssumption DEF Delivers, RouterAssumption
  <2>3. Withheld(n) = 0 /\ Withheld(req[r]) = 0
    BY <2>1 DEF Delivers, Withheld
  <2>4. /\ Delivered \in Int
        /\ Delivered' = Delivered + t + (Withheld(n) - Withheld(req[r]))
    BY <2>1, <2>2, SentGrows DEF Delivers
  <2>. QED  BY <2>2, <2>3, <2>4 DEF SentBounded
<1>7. ASSUME NEW r \in Requests, StreamEnds(r) \/ WriteFails(r) \/ StreamBreaks(r)
      PROVE  SentBounded'
  <2>1. PICK n, t : Delivers(r, n, t) /\ t \in Usage /\ req[r].stream
    BY <1>7, DeliverySteps
  <2>2. t \in Nat /\ Delivered + t <= MaxSent
    BY <2>1, UsageType, RouterAssumption DEF RouterAssumption
  <2>3. Withheld(n) = t /\ Withheld(req[r]) = 0
    BY <2>1 DEF Delivers, Withheld
  <2>4. UNCHANGED sent
    BY <1>7 DEF StreamEnds, WriteFails, StreamBreaks
  <2>. QED  BY <2>1, <2>2, <2>3, <2>4, SentStays DEF SentBounded, Delivers
<1>8. ASSUME NEW r \in Requests, Forgive(r) PROVE SentBounded'
  BY <1>1, <1>8, ForgiveStep DEF Forgive, SameAccount
<1>9. ASSUME NEW r \in Requests, Leave(r) PROVE SentBounded'
  <2>1. PICK n : /\ Goes(r, n) /\ req[r].sel \in Upstreams /\ Withheld(n) = 0
                 /\ \/ sent' = [sent EXCEPT ![req[r].sel] = @ + Withheld(req[r])]
                    \/ sent' = sent /\ Withheld(req[r]) = 0
    BY <1>9, LeaveStep
  <2>2. CASE sent' = [sent EXCEPT ![req[r].sel] = @ + Withheld(req[r])]
    <3>1. /\ Delivered \in Int
          /\ Delivered' = Delivered + Withheld(req[r]) + (Withheld(n) - Withheld(req[r]))
      BY <1>w, <2>1, <2>2, SentGrows
    <3>. QED  BY <1>w, <2>1, <3>1 DEF SentBounded
  <2>3. CASE sent' = sent /\ Withheld(req[r]) = 0
    BY <1>1, <2>1, <2>3
  <2>. QED  BY <2>1, <2>2, <2>3
<1>10. ASSUME NEW r \in Requests, NEW u \in Upstreams, Credit(r, u) PROVE SentBounded'
  BY <1>1, <1>10, CreditStep DEF Credit
<1>11. ASSUME NEW r \in Requests, Debit(r) PROVE SentBounded'
  BY <1>1, <1>11, DebitStep DEF Debit
<1>12. ASSUME UNCHANGED <<req, sent>> PROVE SentBounded'
  BY <1>12 DEF SentBounded, Delivered, Sum, Unrecorded
<1>13. ASSUME NEW u \in Upstreams, CoolDown(u) PROVE SentBounded'
  BY <1>12, <1>13 DEF CoolDown
<1>. QED  BY <1>2, <1>3, <1>4, <1>5, <1>6, <1>7, <1>8, <1>9, <1>10, <1>11, <1>13, Steps

----------------------------------------------------------------------------
(* The debts.                                                              *)

LEMMA DebtMoves ==
    ASSUME Shared, Shared', NEW u \in Upstreams,
           \A v \in Upstreams \ {u} : debt'[v] = debt[v]
    PROVE  Sum(debt) \in Int /\ Sum(debt)' = Sum(debt) + (debt'[u] - debt[u])
<1>. DEFINE f == debt
            g == debt'
<1>1. \A v \in Upstreams : f[v] \in Int /\ g[v] \in Int
  BY DEF Shared
<1>2. IsFiniteSet(Upstreams)
  BY RouterAssumption DEF RouterAssumption
<1>3. Sum(debt) = SumFunctionOnSet(f, Upstreams)
      /\ Sum(debt)' = SumFunctionOnSet(g, Upstreams)
  BY DEF Sum
<1>4. \A v \in Upstreams \ {u} : g[v] = f[v]
  OBVIOUS
<1>. HIDE DEF f, g
<1>5. SumFunctionOnSet(g, Upstreams) = SumFunctionOnSet(f, Upstreams) + (g[u] - f[u])
  BY <1>1, <1>2, <1>4, SumUpdate
<1>6. SumFunctionOnSet(f, Upstreams) \in Int
  BY <1>1, <1>2, SumInt
<1>. QED  BY <1>3, <1>5, <1>6 DEF f, g

(* What is out, in total, changes by what the move puts out.               *)
LEMMA BooksMove ==
    ASSUME Handlers, NEW r \in Requests, NEW n, Goes(r, n),
           NEW d, d = [u \in Upstreams |-> Out(n, u) - Out(req[r], u)]
    PROVE  /\ Sum([u \in Upstreams |-> Unsettled(u)]) \in Int
           /\ Sum([u \in Upstreams |-> Unsettled(u)])'
                 = Sum([u \in Upstreams |-> Unsettled(u)]) + Sum(d)
<1>. DEFINE f == [u \in Upstreams |-> Unsettled(u)]
            g == [u \in Upstreams |-> Unsettled(u)']
<1>1. ASSUME NEW u \in Upstreams
      PROVE  f[u] \in Int /\ d[u] \in Int /\ g[u] = f[u] + d[u]
  <2>1. Unsettled(u) \in Int /\ Unsettled(u)' = Unsettled(u) + (Out(n, u) - Out(req[r], u))
    BY MoveUnsettled
  <2>2. Out(n, u) \in Int /\ Out(req[r], u) \in Int
    BY OutInt DEF Goes, Handlers
  <2>. QED  BY <2>1, <2>2
<1>2. IsFiniteSet(Upstreams)
  BY RouterAssumption DEF RouterAssumption
<1>3. /\ Sum([u \in Upstreams |-> Unsettled(u)]) = SumFunctionOnSet(f, Upstreams)
      /\ Sum([u \in Upstreams |-> Unsettled(u)])' = SumFunctionOnSet(g, Upstreams)
      /\ Sum(d) = SumFunctionOnSet(d, Upstreams)
  BY DEF Sum
<1>. HIDE DEF f, g
<1>4. /\ SumFunctionOnSet(g, Upstreams)
            = SumFunctionOnSet(f, Upstreams) + SumFunctionOnSet(d, Upstreams)
      /\ SumFunctionOnSet(f, Upstreams) \in Int
  BY <1>1, <1>2, SumPlus, SumInt
<1>. QED  BY <1>3, <1>4

LEMMA BooksStay ==
    ASSUME Handlers, NEW r \in Requests, NEW n, Goes(r, n),
           \A u \in Upstreams : Out(n, u) = Out(req[r], u)
    PROVE  /\ Sum([u \in Upstreams |-> Unsettled(u)]) \in Int
           /\ Sum([u \in Upstreams |-> Unsettled(u)])'
                 = Sum([u \in Upstreams |-> Unsettled(u)])
<1>. DEFINE d == [u \in Upstreams |-> Out(n, u) - Out(req[r], u)]
            S == Sum([u \in Upstreams |-> Unsettled(u)])
<1>1. S \in Int /\ S' = S + Sum(d)
  BY BooksMove
<1>2. \A u \in Upstreams : d[u] = 0
  BY OutInt DEF Goes, Handlers
<1>3. Sum(d) = 0
  <2>. HIDE DEF d
  <2>. QED  BY <1>2, SumZero, RouterAssumption DEF Sum, RouterAssumption
<1>. HIDE DEF d, S
<1>4. S \in Int /\ S' = S
  BY <1>1, <1>3
<1>. QED  BY <1>4 DEF S

LEMMA DebtStays ==
    ASSUME Handlers, DebtConserved, NEW r \in Requests, NEW n, Goes(r, n),
           \A u \in Upstreams : Out(n, u) = Out(req[r], u),
           UNCHANGED <<debt, forgiven>>
    PROVE  DebtConserved'
<1>1. Sum([u \in Upstreams |-> Unsettled(u)])' = Sum([u \in Upstreams |-> Unsettled(u)])
  BY BooksStay
<1>2. Sum(debt)' = Sum(debt)
  BY DEF Sum
<1>. QED  BY <1>1, <1>2 DEF DebtConserved

LEMMA DebtKept ==
    ASSUME Handlers, Shared, DebtConserved, Next
    PROVE  DebtConserved'
<1>. DEFINE S == Sum([u \in Upstreams |-> Unsettled(u)])
<1>f. IsFiniteSet(Upstreams) /\ forgiven \in Int /\ Shared'
  BY RouterAssumption, TypesKept DEF RouterAssumption, Shared
<1>0. ASSUME NEW r \in Requests, NEW n, Goes(r, n), SameAccount(req[r], n),
             UNCHANGED <<debt, forgiven>>
      PROVE  DebtConserved'
  BY <1>0, DebtStays DEF SameAccount
<1>1. ASSUME NEW r \in Requests, Silently(r) /\ UNCHANGED shared PROVE DebtConserved'
  BY <1>0, <1>1 DEF Silently, shared
<1>2. ASSUME NEW r \in Requests, NEW u \in Upstreams, Examine(r, u) PROVE DebtConserved'
  BY <1>0, <1>2, ExamineStep DEF Examine, shared
<1>3. ASSUME NEW r \in Requests, Admit(r) PROVE DebtConserved'
  BY <1>0, <1>3, AdmitStep DEF Admit
<1>4. ASSUME NEW r \in Requests, DispatchFails(r) \/ BadAnswer(r) PROVE DebtConserved'
  BY <1>0, <1>4, UndeliveredStep DEF Undelivered
<1>5. ASSUME NEW r \in Requests,
             Answered(r) \/ StreamEnds(r) \/ WriteFails(r) \/ StreamBreaks(r)
      PROVE  DebtConserved'
  <2>1. PICK n, t : Delivers(r, n, t)
    BY <1>5, DeliverySteps
  <2>2. UNCHANGED <<debt, forgiven>>
    BY <1>5 DEF Answered, StreamEnds, WriteFails, StreamBreaks
  <2>. QED  BY <2>1, <2>2, DebtStays DEF Delivers
<1>6. ASSUME NEW r \in Requests, Forgive(r) PROVE DebtConserved'
  <2>1. PICK n : Goes(r, n) /\ SameAccount(req[r], n)
    BY <1>6, ForgiveStep
  <2>2. PICK u \in Upstreams : u = req[r].sel
    BY <1>6, SelectedFirst DEF Forgive, At, Serving, Served
  <2>3. debt' = [debt EXCEPT ![u] = 0] /\ forgiven' = forgiven + debt[u]
    BY <1>6, <2>2 DEF Forgive
  <2>4. S \in Int /\ S' = S
    BY <2>1, BooksStay DEF SameAccount
  <2>5. Sum(debt) \in Int /\ Sum(debt)' = Sum(debt) + (debt'[u] - debt[u])
    BY <1>f, <2>3, DebtMoves DEF Shared
  <2>6. debt[u] \in Int /\ debt'[u] = 0
    BY <2>3 DEF Shared
  <2>7. Sum(debt)' + forgiven' = S'
    BY <1>f, <2>3, <2>4, <2>5, <2>6 DEF DebtConserved
  <2>. QED  BY <2>7 DEF DebtConserved
<1>7. ASSUME NEW r \in Requests, Leave(r) PROVE DebtConserved'
  <2>1. PICK n : Goes(r, n) /\ \A u \in Upstreams : Out(n, u) = Out(req[r], u)
    BY <1>7, LeaveStep
  <2>2. UNCHANGED <<debt, forgiven>>
    BY <1>7 DEF Leave
  <2>. QED  BY <2>1, <2>2, DebtStays
<1>8. ASSUME NEW r \in Requests, NEW u \in Upstreams, Credit(r, u) PROVE DebtConserved'
  <2>1. PICK n : /\ Goes(r, n) /\ u \in req[r].cands /\ Out(req[r], u) = 0
                 /\ Total(req[r].cands) > 0 /\ req[r].cands \in SUBSET Upstreams
                 /\ req[r].owed = Tokens
                 /\ \A v \in Upstreams :
                       Out(n, v) = IF v = u THEN Share(u, req[r].cands, Tokens)
                                   ELSE Out(req[r], v)
    BY <1>8, CreditStep
  <2>2. PICK x : x = Share(u, req[r].cands, Tokens)
    OBVIOUS
  <2>3. x \in Nat
    BY <2>1, <2>2, ShareExact
  <2>. DEFINE d == [v \in Upstreams |-> Out(n, v) - Out(req[r], v)]
              z == [v \in Upstreams |-> 0]
  <2>4. /\ \A v \in Upstreams : d[v] \in Int /\ z[v] = 0
        /\ \A v \in Upstreams \ {u} : d[v] = 0
        /\ d[u] = x
    BY <2>1, <2>2, <2>3, OutInt DEF Goes, Handlers
  <2>5. S \in Int /\ S' = S + Sum(d)
    BY <2>1, BooksMove
  <2>6. Sum(d) = x
    <3>. HIDE DEF d, z
    <3>1. SumFunctionOnSet(d, Upstreams) = SumFunctionOnSet(z, Upstreams) + (d[u] - z[u])
      BY <1>f, <2>4, SumUpdate
    <3>2. SumFunctionOnSet(z, Upstreams) = 0
      BY <1>f, <2>4, SumZero
    <3>. QED  BY <2>3, <2>4, <3>1, <3>2 DEF Sum
  <2>7. debt' = [debt EXCEPT ![u] = debt[u] + x] /\ forgiven' = forgiven
    BY <1>8, <2>1, <2>2 DEF Credit
  <2>8. debt[u] \in Int /\ debt'[u] = debt[u] + x
    BY <2>7 DEF Shared
  <2>9. Sum(debt) \in Int /\ Sum(debt)' = Sum(debt) + (debt'[u] - debt[u])
    BY <1>f, <2>7, DebtMoves DEF Shared
  <2>. HIDE DEF d, z
  <2>10. Sum(debt)' + forgiven' = S'
    BY <1>f, <2>3, <2>5, <2>6, <2>7, <2>8, <2>9 DEF DebtConserved
  <2>. QED  BY <2>10 DEF DebtConserved
<1>9. ASSUME NEW r \in Requests, Debit(r) PROVE DebtConserved'
  <2>1. PICK n : /\ Goes(r, n) /\ req[r].sel \in req[r].cands
                 /\ req[r].cands \in SUBSET Upstreams
                 /\ Total(req[r].cands) > 0 /\ req[r].owed = Tokens
                 /\ \A v \in Upstreams :
                       /\ Out(n, v) = 0
                       /\ Out(req[r], v) = IF v \in req[r].cands
                                           THEN Share(v, req[r].cands, Tokens) ELSE 0
    BY <1>9, DebitStep
  <2>2. PICK cs \in SUBSET Upstreams : cs = req[r].cands
    BY <2>1
  <2>3. PICK u \in Upstreams : u = req[r].sel
    BY <2>1
  <2>. DEFINE d == [v \in Upstreams |-> Out(n, v) - Out(req[r], v)]
              s == [v \in Upstreams |-> IF v \in cs THEN Share(v, cs, Tokens) ELSE 0]
  <2>4. \A v \in Upstreams : s[v] \in Int /\ d[v] = (-1) * s[v]
    BY <2>1, <2>2, ShareExact
  <2>5. S \in Int /\ S' = S + Sum(d)
    BY <2>1, BooksMove
  <2>6. Sum(d) = (-1) * Tokens
    <3>1. SumFunctionOnSet(s, Upstreams) = Tokens
      BY <2>1, <2>2, SharesAddUp
    <3>. HIDE DEF d, s
    <3>. QED  BY <1>f, <2>4, <3>1, SumScale DEF Sum
  <2>7. debt' = [debt EXCEPT ![u] = debt[u] - Tokens] /\ forgiven' = forgiven
    BY <1>9, <2>1, <2>3 DEF Debit
  <2>8. debt[u] \in Int /\ Tokens \in Int /\ debt'[u] = debt[u] - Tokens
    BY <2>7, RouterAssumption DEF Shared, RouterAssumption
  <2>9. Sum(debt) \in Int /\ Sum(debt)' = Sum(debt) + (debt'[u] - debt[u])
    BY <1>f, <2>7, DebtMoves DEF Shared
  <2>. HIDE DEF d, s
  <2>10. Sum(debt)' + forgiven' = S'
    BY <1>f, <2>5, <2>6, <2>7, <2>8, <2>9 DEF DebtConserved
  <2>. QED  BY <2>10 DEF DebtConserved
<1>10. ASSUME UNCHANGED <<req, debt, forgiven>> PROVE DebtConserved'
  BY <1>10 DEF DebtConserved, Sum, Unsettled, Credited, At
<1>11. ASSUME NEW u \in Upstreams, CoolDown(u) PROVE DebtConserved'
  BY <1>10, <1>11 DEF CoolDown
<1>. QED  BY <1>1, <1>2, <1>3, <1>4, <1>5, <1>6, <1>7, <1>8, <1>9, <1>11, Steps

----------------------------------------------------------------------------
(* The invariant holds, and with it what it was made for.                  *)

LEMMA InitIInv == Init => IInv
<1>. SUFFICES ASSUME Init PROVE IInv
  OBVIOUS
<1>1. Handlers
  BY IdleFine DEF Init, Handlers
<1>2. Shared
  BY DEF Init, Shared, Zero
<1>3. \A r \in Requests : req[r] = Idle
  BY DEF Init
<1>4. Idle.pc = "idle" /\ Idle.stream = FALSE
  BY DEF Idle
<1>5. InFlightExact
  <2>1. ASSUME NEW u \in Upstreams PROVE Dispatches(u) = {}
    BY <1>3, <1>4 DEF Dispatches
  <2>. QED  BY <2>1, FS_EmptySet DEF InFlightExact, Init, Zero
<1>6. ProbeAlive
  BY DEF Init, ProbeAlive
<1>7. IsFiniteSet(Upstreams) /\ IsFiniteSet(Requests) /\ MaxSent \in Nat
  BY RouterAssumption DEF RouterAssumption
<1>8. Sum(Zero) = 0
  BY <1>7, SumZero DEF Sum, Zero
<1>9. SentBounded
  <2>. DEFINE f == [r \in Requests |-> Unrecorded(r)]
  <2>1. \A r \in Requests : f[r] = 0
    BY <1>3, <1>4 DEF Unrecorded
  <2>2. SumFunctionOnSet(f, Requests) = 0
    <3>. HIDE DEF f
    <3>. QED  BY <1>7, <2>1, SumZero
  <2>. QED  BY <1>7, <1>8, <2>2 DEF SentBounded, Delivered, Init
<1>10. DebtConserved
  <2>. DEFINE g == [u \in Upstreams |-> Unsettled(u)]
  <2>1. ASSUME NEW u \in Upstreams PROVE g[u] = 0
    <3>. DEFINE f == [r \in Requests |-> Credited(r, u)]
    <3>1. \A r \in Requests : f[r] = 0
      BY <1>3, <1>4 DEF Credited, At
    <3>2. SumFunctionOnSet(f, Requests) = 0
      <4>. HIDE DEF f
      <4>. QED  BY <1>7, <3>1, SumZero
    <3>. QED  BY <3>2 DEF Unsettled
  <2>2. Sum(g) = 0
    <3>. HIDE DEF g
    <3>. QED  BY <1>7, <2>1, SumZero DEF Sum
  <2>. QED  BY <1>8, <2>2 DEF DebtConserved, Init
<1>. QED  BY <1>1, <1>2, <1>5, <1>6, <1>9, <1>10 DEF IInv

LEMMA NextIInv == IInv /\ [Next]_vars => IInv'
<1>1. ASSUME IInv, Next PROVE IInv'
  BY <1>1, TypesKept, InFlightKept, ProbeKept, SentKept, DebtKept DEF IInv
<1>2. ASSUME IInv, UNCHANGED vars PROVE IInv'
  <2>1. Handlers' /\ Shared'
    BY <1>2 DEF IInv, vars, Handlers, Shared
  <2>2. InFlightExact' /\ ProbeAlive'
    BY <1>2 DEF IInv, vars, InFlightExact, Dispatches, ProbeAlive
  <2>3. SentBounded'
    BY <1>2 DEF IInv, vars, SentBounded, Delivered, Sum, Unrecorded
  <2>4. DebtConserved'
    BY <1>2 DEF IInv, vars, DebtConserved, Sum, Unsettled, Credited, At
  <2>. QED  BY <2>1, <2>2, <2>3, <2>4 DEF IInv
<1>. QED  BY <1>1, <1>2

LEMMA Invariant == Spec => []IInv
  BY InitIInv, NextIInv, PTL DEF Spec

LEMMA IInvTypeOK == IInv => TypeOK
<1>. SUFFICES ASSUME IInv PROVE TypeOK
  OBVIOUS
<1>1. Handlers /\ Shared /\ InFlightExact /\ SentBounded
  BY DEF IInv
<1>2. inFlight \in [Upstreams -> Nat]
  <2>1. ASSUME NEW u \in Upstreams PROVE inFlight[u] \in Nat
    <3>1. Dispatches(u) \in SUBSET Requests
      BY DEF Dispatches
    <3>. QED  BY <1>1, <3>1, RequestsFinite DEF InFlightExact
  <2>. QED  BY <1>1, <2>1 DEF Shared
<1>3. sent \in [Upstreams -> 0..MaxSent]
  <2>. DEFINE f == [r \in Requests |-> Unrecorded(r)]
  <2>1. IsFiniteSet(Upstreams) /\ IsFiniteSet(Requests) /\ MaxSent \in Nat
    BY RouterAssumption DEF RouterAssumption
  <2>2. \A r \in Requests : f[r] \in Nat
    <3>1. \A r \in Requests : f[r] = Withheld(req[r])
      BY DEF Unrecorded, Withheld, Served
    <3>. QED  BY <1>1, <3>1, WithheldNat DEF Handlers
  <2>3. SumFunctionOnSet(f, Requests) \in Nat
    <3>. HIDE DEF f
    <3>. QED  BY <2>1, <2>2, SumNat
  <2>4. Delivered = Sum(sent) + SumFunctionOnSet(f, Requests)
    BY DEF Delivered
  <2>. HIDE DEF f
  <2>5. ASSUME NEW u \in Upstreams PROVE sent[u] <= Sum(sent) /\ Sum(sent) \in Nat
    BY <1>1, <2>1, SumMember, SumNat DEF Shared, Sum
  <2>6. ASSUME NEW u \in Upstreams PROVE sent[u] \in 0..MaxSent
    BY <1>1, <2>1, <2>3, <2>4, <2>5 DEF SentBounded, Shared
  <2>. QED  BY <1>1, <2>6 DEF Shared
<1>. QED  BY <1>1, <1>2, <1>3 DEF Handlers, Shared, TypeOK

(* Types, and TokensSent never beyond what was delivered.                  *)
THEOREM TypeCorrect == Spec => []TypeOK
  BY Invariant, IInvTypeOK, PTL

(* However a dispatch ends (transport error, error status, unreadable      *)
(* body, delivery, broken stream, client gone), the in-flight counter of   *)
(* the upstream is the number of its dispatches: it never leaks.           *)
THEOREM InFlightCounts == Spec => []InFlightExact
<1>1. IInv => InFlightExact
  BY DEF IInv
<1>. QED  BY Invariant, <1>1, PTL

(* A half-open breaker has a request in progress that will report to it.   *)
THEOREM ProbeNeverLost == Spec => []ProbeAlive
<1>1. IInv => ProbeAlive
  BY DEF IInv
<1>. QED  BY Invariant, <1>1, PTL

(* ApplyDelivery moves debt, it makes none: debts and what resets dropped  *)
(* add up to the credits of the deliveries still being applied.            *)
THEOREM DebtIsMoved == Spec => []DebtConserved
<1>1. IInv => DebtConserved
  BY DEF IInv
<1>. QED  BY Invariant, <1>1, PTL

----------------------------------------------------------------------------
(* One answer per request.                                                 *)

LEMMA ActsAlone ==
    ASSUME Handlers, Shared, NEW r \in Requests,
           NewRequest(r) \/ Local(r) \/ Remote(r) \/ BudgetExpires(r) \/ ClientLeaves(r)
    PROVE  \A s \in Requests \ {r} : req'[s] = req[s]
<1>. DEFINE Quiet == \/ NewRequest(r) \/ Choose(r) \/ (\E u \in Upstreams : Consider(r, u))
                     \/ NoUpstream(r) \/ GiveUp(r) \/ Deny(r) \/ FirstChunk(r)
                     \/ Return(r) \/ BudgetExpires(r) \/ ClientLeaves(r)
<1>1. debt \in [Upstreams -> Int]
  BY DEF Shared
<1>2. Quiet => \E n : Goes(r, n)
  <2>1. Quiet => Silently(r)
    BY <1>1, SilentSteps, Zenon
  <2>. QED  BY <2>1 DEF Silently
<1>3. (\E u \in Upstreams : Examine(r, u)) \/ Admit(r) => \E n : Goes(r, n)
  BY ExamineStep, AdmitStep
<1>4. DispatchFails(r) \/ BadAnswer(r) => \E n : Goes(r, n)
  BY UndeliveredStep
<1>5. Answered(r) \/ StreamEnds(r) \/ WriteFails(r) \/ StreamBreaks(r) => \E n : Goes(r, n)
  BY DeliverySteps DEF Delivers
<1>6. Forgive(r) \/ Leave(r) \/ (\E u \in Upstreams : Credit(r, u)) \/ Debit(r)
         => \E n : Goes(r, n)
  BY ForgiveStep, LeaveStep, CreditStep, DebitStep
<1>7. \E n : Goes(r, n)
  BY <1>2, <1>3, <1>4, <1>5, <1>6, Zenon DEF Local, Remote
<1>. QED  BY <1>7, Moves

(* What a request may still do once its client has been answered.          *)
Settles(s) ==
    /\ req'[s].pc \notin {"gate", "select", "admit", "dispatched", "giveup"}
    /\ req'[s].sel = req[s].sel
    /\ req'[s].reply # req[s].reply =>
          /\ req[s].reply = "committed"
          /\ req'[s].reply \in {"done", "broken"}

LEMMA AnsweredSettles ==
    ASSUME Handlers, Shared, Next, NEW s \in Requests,
           req[s].reply # "none", req[s].pc # "return"
    PROVE  Settles(s)
<1>. DEFINE q == req[s]
<1>1. q \in Handler /\ Fine(q)
  BY DEF Handlers
<1>2. q.pc \in {"streaming", "forgive", "leave", "credit"}
  BY <1>1, HandlerFields DEF Fine, Gating, Serving, Running, Served
<1>3. /\ q.pc = "streaming" => q.reply = "committed"
      /\ q.pc = "leave" => q.stream
  BY <1>1 DEF Fine, Serving, Running, Served
<1>4. ASSUME req'[s] = q PROVE Settles(s)
  BY <1>2, <1>4 DEF Settles
<1>5. ASSUME NewRequest(s) \/ Local(s) \/ Remote(s) \/ BudgetExpires(s) \/ ClientLeaves(s)
      PROVE  Settles(s)
  <2>1. \/ StreamEnds(s) \/ WriteFails(s) \/ StreamBreaks(s)
        \/ Forgive(s) \/ Leave(s)
        \/ \E u \in Upstreams : Credit(s, u)
        \/ Debit(s) \/ \E how \in Endings : End(s, how)
    <3>1. ~ (\/ NewRequest(s) \/ Choose(s) \/ NoUpstream(s) \/ GiveUp(s) \/ Admit(s)
             \/ Deny(s) \/ Return(s) \/ DispatchFails(s) \/ BadAnswer(s) \/ Answered(s)
             \/ FirstChunk(s) \/ \E u \in Upstreams : Examine(s, u) \/ Consider(s, u))
      BY <1>2 DEF NewRequest, Choose, NoUpstream, GiveUp, Admit, Deny, Return,
                  DispatchFails, BadAnswer, Undelivered, Answered, FirstChunk, Examine,
                  Consider, Gated, At
    <3>2. BudgetExpires(s) \/ ClientLeaves(s) => \E how \in Endings : End(s, how)
      BY DEF BudgetExpires, ClientLeaves, End
    <3>. QED  BY <1>5, <3>1, <3>2, Zenon DEF Local, Remote
  <2>2. CASE StreamEnds(s)
    BY <1>1, <1>3, <2>2 DEF StreamEnds, At, Settles, Handlers, Handler, AfterSuccess
  <2>3. CASE WriteFails(s)
    BY <1>1, <2>3 DEF WriteFails, At, Settles, Handlers, Handler, AfterSuccess
  <2>4. CASE StreamBreaks(s)
    BY <1>1, <1>3, <2>4 DEF StreamBreaks, At, Settles, Handlers, Handler
  <2>5. CASE Forgive(s)
    BY <1>1, <2>5 DEF Forgive, Settles, Handlers, Handler
  <2>6. CASE Leave(s)
    <3>1. PICK p \in {"credit", "return"} :
             req' = [req EXCEPT ![s].reply = q.reply, ![s].todo = q.cands, ![s].pc = p]
      BY <1>3, <2>6 DEF Leave, At
    <3>. QED  BY <1>1, <3>1 DEF Settles, Handlers, Handler
  <2>7. ASSUME NEW u \in Upstreams, Credit(s, u) PROVE Settles(s)
    BY <1>1, <2>7 DEF Credit, At, Settles, Handlers, Handler
  <2>8. CASE Debit(s)
    BY <1>1, <2>8 DEF Debit, Settles, Handlers, Handler
  <2>9. ASSUME NEW how \in Endings, End(s, how) PROVE Settles(s)
    BY <1>1, <1>2, <2>9 DEF End, Settles, Handlers, Handler
  <2>. QED  BY <2>1, <2>2, <2>3, <2>4, <2>5, <2>6, <2>7, <2>8, <2>9
<1>6. ASSUME NEW r \in Requests \ {s},
             NewRequest(r) \/ Local(r) \/ Remote(r) \/ BudgetExpires(r) \/ ClientLeaves(r)
      PROVE  req'[s] = q
  BY <1>6, ActsAlone
<1>7. ASSUME NEW u \in Upstreams, CoolDown(u) PROVE req'[s] = q
  BY <1>7 DEF CoolDown
<1>. QED  BY <1>4, <1>5, <1>6, <1>7, Zenon DEF Next

(* Once the client has received a byte its request is never dispatched     *)
(* again, and a committed stream ends once: done or broken.                *)
THEOREM AnsweredOnce == Spec => OneAnswer
<1>1. IInv /\ [Next]_vars =>
        [\A r \in Requests : req[r].reply # "none" /\ req[r].pc # "return" => Settles(r)]_vars
  BY AnsweredSettles, Zenon DEF IInv
<1>. QED  BY <1>1, Invariant, PTL DEF Spec, OneAnswer, Settles

----------------------------------------------------------------------------
(* The circuits.  Each upstream's is used as Circuit.tla describes.        *)

CircuitSteps == \A u \in Upstreams : C(u)!Next \/ UNCHANGED C(u)!cvars

LEMMA CircuitStands ==
    ASSUME UNCHANGED circuit, NEW u \in Upstreams, Runs(u)' = Runs(u)
    PROVE  UNCHANGED C(u)!cvars
  BY DEF C!cvars, Runs, Running

LEMMA CircuitReported ==
    ASSUME Shared, NEW r \in Requests, NEW u \in Upstreams, r \in Runs(u),
           Runs(u)' = Runs(u) \ {r}, RecordSuccess(u) \/ RecordFailure(u)
    PROVE  C(u)!Next
<1>1. CASE RecordSuccess(u)
  <2>1. C(u)!Succeed(r)
    BY <1>1 DEF C!Succeed, RecordSuccess, Shared, Runs, Running
  <2>. QED  BY <2>1 DEF C!Next, C!Report
<1>2. CASE RecordFailure(u)
  <2>1. C(u)!StayOnFailure(r) \/ C(u)!OpenOnFailure(r)
    BY <1>2 DEF C!StayOnFailure, C!OpenOnFailure, RecordFailure, Shared, Runs, Running
  <2>. QED  BY <2>1 DEF C!Next, C!Report
<1>. QED  BY <1>1, <1>2

LEMMA CircuitFollows ==
    ASSUME Handlers, Shared, Next
    PROVE  CircuitSteps
<1>. USE DEF Serving, Running, Served
<1>k. ASSUME UNCHANGED circuit, \A u \in Upstreams : Runs(u)' = Runs(u)
      PROVE  CircuitSteps
  BY <1>k, CircuitStands DEF CircuitSteps
<1>r. ASSUME NEW r \in Requests, NEW v \in Upstreams, r \in Runs(v),
             RecordSuccess(v) \/ RecordFailure(v),
             Runs(v)' = Runs(v) \ {r},
             \A u \in Upstreams \ {v} : Runs(u)' = Runs(u)
      PROVE  CircuitSteps
  <2>1. C(v)!Next
    BY <1>r, CircuitReported
  <2>2. ASSUME NEW u \in Upstreams \ {v} PROVE UNCHANGED C(u)!cvars
    <3>1. circuit'[u] = circuit[u] /\ Runs(u)' = Runs(u)
      BY <1>r, Reported
    <3>. QED  BY <3>1 DEF C!cvars, Runs
  <2>. QED  BY <2>1, <2>2 DEF CircuitSteps
<1>1. ASSUME NEW r \in Requests, Silently(r) /\ UNCHANGED shared PROVE CircuitSteps
  BY <1>1, <1>k, ServiceKept DEF Silently, shared
<1>2. ASSUME NEW r \in Requests, NEW u \in Upstreams, Examine(r, u) PROVE CircuitSteps
  BY <1>2, <1>k, ExamineStep, ServiceKept DEF Examine, shared
<1>3. ASSUME NEW r \in Requests, Admit(r) PROVE CircuitSteps
  <2>1. PICK n : /\ Goes(r, n) /\ req[r].pc = "admit"
                 /\ n.pc = "dispatched" /\ n.sel = req[r].sel
    BY <1>3, AdmitStep
  <2>2. PICK v \in Upstreams : v = req[r].sel
    BY <2>1, SelectedFirst
  <2>3. Allow(v)
    BY <1>3, <2>2 DEF Admit
  <2>4. r \notin Runs(v) /\ Runs(v)' = Runs(v) \cup {r}
    BY <2>1, <2>2, ServiceBegins
  <2>5. C(v)!Admit(r) \/ C(v)!Probe(r)
    BY <2>3, <2>4 DEF C!Admit, C!Probe, Allow, Admits, Shared, Runs
  <2>6. ASSUME NEW u \in Upstreams \ {v} PROVE UNCHANGED C(u)!cvars
    <3>1. Runs(u)' = Runs(u)
      BY <2>1, <2>2, ServiceBegins
    <3>2. circuit'[u] = circuit[u]
      BY <2>3 DEF Allow, Shared
    <3>. QED  BY <3>1, <3>2 DEF C!cvars, Runs
  <2>. QED  BY <2>5, <2>6 DEF CircuitSteps, C!Next
<1>4. ASSUME NEW r \in Requests, DispatchFails(r) \/ BadAnswer(r) PROVE CircuitSteps
  <2>1. PICK n : /\ Goes(r, n) /\ req[r].pc = "dispatched" /\ n.pc \notin Serving
                 /\ Undelivered(r, n)
    BY <1>4, UndeliveredStep
  <2>2. PICK v \in Upstreams : v = req[r].sel
    BY <2>1, SelectedFirst
  <2>3. \A u \in Upstreams : Runs(u)' = Runs(u) \ {r} /\ (r \in Runs(u) <=> v = u)
    BY <2>1, <2>2, ServiceEnds
  <2>4. \A u \in Upstreams \ {v} : Runs(u)' = Runs(u)
    BY <2>3
  <2>. QED  BY <1>r, <2>1, <2>2, <2>3, <2>4 DEF Undelivered
<1>5. ASSUME NEW r \in Requests,
             Answered(r) \/ StreamEnds(r) \/ WriteFails(r) \/ StreamBreaks(r)
      PROVE  CircuitSteps
  <2>1. PICK n, t : Delivers(r, n, t)
    BY <1>5, DeliverySteps
  <2>2. PICK v \in Upstreams : v = req[r].sel
    BY <2>1, SelectedFirst DEF Delivers
  <2>3. \A u \in Upstreams : Runs(u)' = Runs(u) \ {r} /\ (r \in Runs(u) <=> v = u)
    BY <2>1, <2>2, ServiceReports DEF Delivers
  <2>4. RecordSuccess(v) \/ RecordFailure(v)
    BY <1>5, <2>2 DEF Answered, StreamEnds, WriteFails, StreamBreaks
  <2>5. \A u \in Upstreams \ {v} : Runs(u)' = Runs(u)
    BY <2>3
  <2>. QED  BY <1>r, <2>3, <2>4, <2>5
<1>6. ASSUME NEW r \in Requests, Forgive(r) PROVE CircuitSteps
  BY <1>6, <1>k, ForgiveStep, ServiceKept DEF Forgive
<1>7. ASSUME NEW r \in Requests, Leave(r) PROVE CircuitSteps
  <2>1. PICK n : Goes(r, n) /\ req[r].pc = "leave" /\ n.pc \in {"credit", "return"}
    BY <1>7, LeaveStep
  <2>2. ASSUME NEW u \in Upstreams PROVE Runs(u)' = Runs(u)
    <3>1. Runs(u)' = Runs(u) \ {r} /\ r \notin Runs(u)
      BY <2>1, ServiceEnds
    <3>. QED  BY <3>1
  <2>. QED  BY <1>7, <1>k, <2>2 DEF Leave
<1>8. ASSUME NEW r \in Requests, NEW u \in Upstreams, Credit(r, u) PROVE CircuitSteps
  BY <1>8, <1>k, CreditStep, ServiceKept DEF Credit
<1>9. ASSUME NEW r \in Requests, Debit(r) PROVE CircuitSteps
  BY <1>9, <1>k, DebitStep, ServiceKept DEF Debit
<1>10. ASSUME NEW v \in Upstreams, CoolDown(v) PROVE CircuitSteps
  <2>1. \A u \in Upstreams : Runs(u)' = Runs(u)
    BY <1>10 DEF CoolDown, Runs
  <2>2. C(v)!CoolDown
    BY <1>10 DEF CoolDown, C!CoolDown, Shared
  <2>3. ASSUME NEW u \in Upstreams \ {v} PROVE UNCHANGED C(u)!cvars
    <3>1. circuit'[u] = circuit[u]
      BY <1>10 DEF CoolDown, Shared
    <3>. QED  BY <2>1, <3>1 DEF C!cvars, Runs
  <2>. QED  BY <2>2, <2>3 DEF CircuitSteps, C!Next
<1>. QED  BY <1>1, <1>2, <1>3, <1>4, <1>5, <1>6, <1>7, <1>8, <1>9, <1>10, Steps

(* The proxy implements the contract of every upstream's circuit: whoever  *)
(* is admitted reports once, on every way out of a dispatch, and nobody is *)
(* admitted but as the contract says.                                      *)
THEOREM CircuitsRespected == Spec => CircuitContract
<1>1. Init => \A u \in Upstreams : C(u)!Init
  BY DEF Init, C!Init, Idle
<1>2. IInv /\ [Next]_vars => [CircuitSteps]_vars
  BY CircuitFollows, Zenon DEF IInv
<1>. QED  BY <1>1, <1>2, Invariant, PTL DEF Spec, CircuitContract, CircuitSteps
=============================================================================
