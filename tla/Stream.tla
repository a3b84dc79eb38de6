------------------------------- MODULE Stream -------------------------------
(***************************************************************************)
(* The response side of a chat completion (internal/proxy/stream.go and    *)
(* nonstream.go), and with Dispatch.tla the whole exchange.  serveStream   *)
(* withholds everything until the first event of the upstream's stream has *)
(* arrived; from then on it forwards one event after the other, rewritten, *)
(* and keeps the tokens that the last usage told.                          *)
(*                                                                         *)
(* The payload of an event is <<"done">>, <<"bad">> (no JSON object) or    *)
(* <<"data", m>>.  Comments, other fields and empty events are skipped by  *)
(* the reader and left out.  Writing to a client that has left may fail or *)
(* not; a context that has ended makes reading fail at some point.         *)
(***************************************************************************)
EXTENDS Dispatch

CONSTANTS
    Payloads,   \* what upstreams send
    Secrets,    \* names and identifiers in it that would reveal the upstream
    RequestID,
    MaxEvents   \* bound on the events of a stream

(* The event tells a usage that can be read.                               *)
Tells(p) == Kind(p) = "data" /\ Has(p[2], "usage") /\ ReadableUsage(Val(p[2], "usage"))

ToldBy(p) == TotalTokens(Val(p[2], "usage"))

Open == <<"open">>
Done == <<"done">>
Error == <<"error">>

IsPayload(p) ==
    \/ p = Done
    \/ Kind(p) = "bad"
    \/ Kind(p) = "data" /\ IsResponse(p[2]) /\ (Tells(p) => ToldBy(p) \in Int)

(* A secret is the value, or a value in the object that is the value.      *)
Values(m) == {Val(m, k) : k \in DOMAIN m.vals}

Names(v) ==
    \E s \in Secrets : v = Str(s) \/ (Kind(v) = "obj" /\ Str(s) \in Values(v[2]))

(* In the fields that the API defines for them, upstreams send what it     *)
(* says is there; their own names are in the model's, in the id, in fields *)
(* of their own, also of the usage.                                        *)
Conventional(m) ==
    /\ \A k \in topLevelAllowlist \ {"model", "id", "usage"} :
          Has(m, k) => ~ Names(Val(m, k))
    /\ Has(m, "usage") =>
          IF Kind(Val(m, "usage")) = "obj"
          THEN \A k \in usageAllowlist, s \in Secrets :
                  Has(Val(m, "usage")[2], k) => Val(Val(m, "usage")[2], k) # Str(s)
          ELSE ~ Names(Val(m, "usage"))

ASSUME StreamAssumption ==
    /\ MaxEvents \in Nat
    /\ \A p \in Payloads : IsPayload(p)

ASSUME OpacityAssumption ==
    /\ {PublicModel, RequestID} \cap Secrets = {}
    /\ \A p \in Payloads : Kind(p) = "data" => Conventional(p[2])

VARIABLE
    resp        \* history of the events received; serveStream's deliveredTokens;
                \* tokens passed to RecordDelivered, to ApplyDelivery and the syncer

vars == <<regvars, dvars, resp>>

NoResponse == [received |-> <<>>, tokens |-> 0, recorded |-> 0, applied |-> 0]

Init ==
    /\ \E pool \in SUBSET Upstreams \ {{}} :
          LET c == [edit |-> 0, pool |-> pool] IN
          /\ regCfg = c
          /\ registry = [u \in Upstreams |-> IF u \in pool THEN 0 ELSE None]
          /\ cfgOf = [o \in Object |-> IF o[1] \in pool /\ o[2] = 0 THEN 0 ELSE None]
    /\ InitDispatch
    /\ resp = NoResponse

Image(p) == IF p = Done THEN Done
            ELSE <<"data", Rewrite(p[2], PublicModel, RequestID)>>

Streams == ExtractSignals(req.client).stream

(* The handler returns, having delivered t tokens.                         *)
Finish(t, recorded) ==
    /\ LeaveUpstream
    /\ req' = Over(req)
    /\ resp' = [resp EXCEPT !.tokens = 0, !.recorded = recorded, !.applied = t]
    /\ UNCHANGED <<regvars, ctx, out>>

FinishStream(t) == Finish(t, IF t > 0 THEN t ELSE 0)

----------------------------------------------------------------------------
(* writeEvent's bookkeeping.  Mutant: the usages of a stream are added up. *)
TokensAfterSum(t, p) == IF Tells(p) THEN t + ToldBy(p) ELSE t

TokensAfter(t, p) == IF Tells(p) THEN ToldBy(p) ELSE t

(* Events that are not JSON are dropped, all others written.               *)
Written(p) == IF Kind(p) = "bad" THEN log ELSE Append(log, Image(p))

MayFail(p) == ctx = "gone" /\ Kind(p) # "bad"

----------------------------------------------------------------------------

(* serveNonStream: a JSON object with a good status.                       *)
Answered ==
    /\ At("sent") /\ ~ Streams
    /\ \E p \in Payloads :
          LET t == TokensAfter(0, p) IN
          /\ Kind(p) = "data"
          /\ log' = <<<<"body", Rewrite(p[2], PublicModel, RequestID)>>>>
          /\ LeaveUpstream
          /\ req' = Over(req)
          /\ resp' = [received |-> <<p>>, tokens |-> 0, recorded |-> t, applied |-> t]
    /\ UNCHANGED <<regvars, ctx, out>>

(* The first event: the headers are written.  What is needed of the        *)
(* request from here on is only which upstream serves it.                  *)
Commit ==
    /\ At("sent") /\ Streams
    /\ \E p \in Payloads : resp' = [resp EXCEPT !.received = <<p>>]
    /\ log' = <<Open>>
    /\ req' = [Over(req) EXCEPT !.pc = "first"]
    /\ out' = NoRequest
    /\ UNCHANGED <<regvars, ctx, inFlight>>

WriteFirst ==
    LET p == resp.received[1] IN
    /\ At("first")
    /\ \/ /\ log' = Written(p)
          /\ resp' = [resp EXCEPT !.tokens = TokensAfter(0, p)]
          /\ req' = [req EXCEPT !.pc = "streaming"]
          /\ UNCHANGED <<regvars, ctx, out, inFlight>>
       \/ MayFail(p) /\ FinishStream(0) /\ UNCHANGED log

(* An event after the first.                                               *)
Receive(p) ==
    /\ At("streaming")
    /\ Len(resp.received) < MaxEvents

Event ==
    \E p \in Payloads \ {Done} :
        LET seen == [resp EXCEPT !.received = Append(@, p),
                                 !.tokens = TokensAfter(@, p)]
        IN
        /\ Receive(p)
        /\ \/ /\ log' = Written(p)
              /\ resp' = seen
              /\ UNCHANGED <<regvars, req, ctx, out, inFlight>>
           \/ /\ MayFail(p)
              /\ LeaveUpstream
              /\ req' = Over(req)
              /\ resp' = [seen EXCEPT !.tokens = 0, !.applied = seen.tokens,
                             !.recorded = IF seen.tokens > 0 THEN seen.tokens ELSE 0]
              /\ UNCHANGED <<regvars, ctx, out, log>>

(* [DONE]; whether it could be written is not asked.                       *)
LastEvent ==
    /\ At("streaming")
    /\ log' = Append(log, Done) \/ (ctx = "gone" /\ UNCHANGED log)
    /\ FinishStream(resp.tokens)

(* The stream ends without [DONE]: a success, and the client gets none.    *)
EndOfStream ==
    /\ At("streaming")
    /\ FinishStream(resp.tokens)
    /\ UNCHANGED log

(* Reading fails.  Mutant: another upstream is tried, as before the commit.*)
StreamBreaksRetried ==
    /\ At("streaming")
    /\ LeaveUpstream
    /\ req' = [req EXCEPT !.pc = "gate", !.attempt = 1, !.todo = Upstreams]
    /\ resp' = NoResponse
    /\ UNCHANGED <<regvars, ctx, out, log>>

StreamBreaks ==
    /\ At("streaming")
    /\ \/ log' = log \o <<Error, Done>>
       \/ ctx = "gone" /\ UNCHANGED log
    /\ FinishStream(resp.tokens)

Return ==
    /\ At("over")
    /\ req' = Idle
    /\ ctx' = "live"
    /\ out' = NoRequest
    /\ log' = <<>>
    /\ resp' = NoResponse
    /\ UNCHANGED <<regvars, inFlight>>

Next ==
    \/ Reconfigure /\ UNCHANGED resp
    \/ /\ \/ NewRequest \/ NoUpstream \/ Deny \/ Admit
          \/ \E u \in Upstreams : Examine(u)
          \/ Build \/ Address \/ Authorize
          \/ DispatchFails \/ ContextEnds
       /\ UNCHANGED resp
    \/ Answered \/ Commit \/ WriteFirst
    \/ Event \/ LastEvent \/ EndOfStream \/ StreamBreaks
    \/ Return

Spec == Init /\ [][Next]_vars

----------------------------------------------------------------------------
(* Properties                                                              *)

Maps == {out.body} \cup {log[i][2] : i \in {j \in DOMAIN log :
                                         Kind(log[j]) \in {"body", "data"}}}

(* Among the types: whatever is sent to an upstream or to the client is an *)
(* object whose list of keys and table of values agree.                    *)
TypeOK ==
    /\ req.pc \in {"idle", "gate", "build", "address", "authorize", "sent", "first",
                   "streaming", "over"}
    /\ req.attempt \in 0..MaxAttempts - 1
    /\ req.pool \cup req.tried \cup req.todo \subseteq Upstreams
    /\ req.cands \subseteq Candidate
    /\ req.sel = None \/ req.sel \in Candidate
    /\ ctx \in {"live", "expired", "gone"}
    /\ inFlight \in [Object -> Int]
    /\ \A m \in Maps : WellFormed(m)

(* README "Identity opacity": no name or identifier of the upstream is in  *)
(* anything the client is sent, wherever the upstream put it outside the   *)
(* fields that the API defines (see Conventional).                         *)
Reveals(m) == \E v \in Values(m) : Names(v)

Opaque ==
    \A i \in DOMAIN log :
        Kind(log[i]) \in {"body", "data"} => ~ Reveals(log[i][2])

(* The tokens that debts, delivery window and syncer learn of are those of *)
(* the last readable usage received, on every way a stream may end.  A     *)
(* usage of null counts as zero; a client that leaves before the first     *)
(* event could be written has been delivered nothing.  (A negative total   *)
(* is kept from the window, but only when it comes in a stream.)           *)
Telling == {i \in DOMAIN resp.received : Tells(resp.received[i])}

Told(t) ==
    IF Telling = {} \/ (log = <<Open>> /\ Len(resp.received) = 1) THEN t = 0
    ELSE \E i \in Telling : t = ToldBy(resp.received[i]) /\ \A j \in Telling : j <= i

TokensTold ==
    At("over") =>
        /\ Told(resp.applied)
        /\ resp.applied >= 0 => resp.recorded = resp.applied

(* The client sees what Relay.tla promises.                                *)
Promise == INSTANCE Relay WITH
    Sources <- Object,
    source  <- IF req.sel = None THEN None ELSE req.sel.object

ImplementsRelay == Promise!Spec

=============================================================================
