------------------------------ MODULE Dispatch ------------------------------
(***************************************************************************)
(* The request side of one chat completion: proxy.ChatCompletions with     *)
(* gating, and dispatch, which puts together the HTTP request for the      *)
(* selected upstream (internal/proxy/proxy.go, dispatch.go), while the     *)
(* registry is synchronised with newer configurations.                     *)
(*                                                                         *)
(* A request keeps the pool of the configuration it started with, looks up *)
(* each upstream's object when it gates it, and follows that object's Cfg  *)
(* pointer anew for the body, the address and the key.  Which candidate is *)
(* selected, and whether breaker and TPM bucket let it pass, is the        *)
(* business of Router.tla and left open here.                              *)
(***************************************************************************)
EXTENDS Registry, Wire

CONSTANTS
    Settings,       \* Settings[u][e]: what edit e says about upstream u
    ClientRequests, \* the request bodies clients send
    PublicModel,    \* the public model every configuration lists
    MaxAttempts     \* server.max_attempts

(* An upstream's object, and the edit of its settings that gates looked at.*)
Candidate == [object : Object, at : 0..MaxEdits]

ASSUME DispatchAssumption ==
    /\ None \notin Object \cup Candidate
    /\ MaxAttempts \in Nat \ {0}
    /\ \A q \in ClientRequests : IsRequest(q)
    /\ \A u \in Upstreams, e \in 0..MaxEdits : ValidUpstream(Settings[u][e])

VARIABLES
    req,            \* the locals of ChatCompletions
    ctx,            \* the request's context
    out,            \* the HTTP request to the upstream; of each part, the
                    \* edit it was taken from
    inFlight,       \* Upstream.InFlight of each object
    log             \* what the client has been sent

dvars == <<req, ctx, out, inFlight, log>>

NoRequest == [body |-> NewOrderedMap, bodyOf |-> None, urlOf |-> None, keyOf |-> None]

(* cands and sel: an object, and the edit its gates looked at.  Histories: *)
(* the body as the client sent it, and the upstreams that the gates turned *)
(* down because of it, with the edit looked at.                            *)
Idle == [pc |-> "idle", client |-> NewOrderedMap, pool |-> {}, attempt |-> 0,
         tried |-> {}, todo |-> {}, cands |-> {}, sel |-> None,
         asked |-> NewOrderedMap, refused |-> {}]

InitDispatch ==
    /\ req = Idle
    /\ ctx = "live"
    /\ out = NoRequest
    /\ inFlight = [o \in Object |-> 0]
    /\ log = <<>>

Fatal(status) == <<"fatal", status>>

At(pc) == req.pc = pc

Over(q) == [Idle EXCEPT !.pc = "over", !.sel = q.sel]

----------------------------------------------------------------------------
(* The configuration changes: any non-empty pool (ConfigReload.tla says    *)
(* when).                                                                  *)
Reconfigure ==
    /\ regCfg.edit < MaxEdits
    /\ \E pool \in SUBSET Upstreams \ {{}} :
          Sync([edit |-> regCfg.edit + 1, pool |-> pool])
    /\ UNCHANGED dvars

----------------------------------------------------------------------------
(* A request arrives.                                                      *)

NewRequest ==
    /\ At("idle")
    /\ \E q \in ClientRequests :
          LET name == StringAt(q, "model")
              accepted == name = PublicModel /\ Readable(q)
          IN  /\ req' = IF ~ accepted THEN Over(Idle)
                        ELSE [Idle EXCEPT !.pc = "gate", !.client = q, !.asked = q,
                                 !.pool = regCfg.pool, !.todo = regCfg.pool]
              /\ log' = CASE accepted -> <<>>
                          [] name \notin {"", PublicModel} -> <<Fatal("404")>>
                          [] OTHER -> <<Fatal("400")>>
    /\ UNCHANGED <<ctx, out, inFlight, regvars>>

(* Candidates: reg.Get and passesGates for one upstream after the other.   *)
Examine(u) ==
    LET at == cfgOf[Get(u)]
        fits == CanServe(Settings[u][at], ExtractSignals(req.client))
        next == [req EXCEPT !.todo = @ \ {u}]
    IN
    /\ At("gate")
    /\ u \in req.todo
    /\ \/ /\ ~ Live(u)
          /\ req' = next
       \/ /\ Live(u) /\ fits
          /\ \/ req' = [next EXCEPT !.cands = @ \cup {[object |-> Get(u), at |-> at]}]
             \/ req' = next     \* breaker or TPM bucket
       \/ /\ Live(u) /\ ~ fits
          /\ req' = [next EXCEPT !.refused = @ \cup {<<u, at>>}]
    /\ UNCHANGED <<ctx, out, inFlight, log, regvars>>

Gated == At("gate") /\ req.todo = {}

(* After the loop.                                                         *)
GiveUp(q) ==
    /\ req' = Over(q)
    /\ log' = CASE ctx = "gone"    -> log
                [] ctx = "expired" -> Append(log, Fatal("504"))
                [] ctx = "live"    -> Append(log, Fatal("502"))

NextAttempt(q) ==
    IF q.attempt + 1 < MaxAttempts
    THEN /\ req' = [q EXCEPT !.pc = "gate", !.attempt = @ + 1,
                             !.todo = q.pool \ q.tried, !.cands = {}]
         /\ UNCHANGED log
    ELSE GiveUp(q)

NoUpstream ==
    /\ Gated
    /\ req.cands = {}
    /\ IF req.attempt > 0 THEN GiveUp(req)
       ELSE req' = Over(req) /\ log' = Append(log, Fatal("400"))
    /\ UNCHANGED <<ctx, out, inFlight, regvars>>

Selected(c) == [req EXCEPT !.sel = c, !.tried = @ \cup {c.object[1]}]

(* Select, and Allow refuses.                                              *)
Deny ==
    /\ Gated
    /\ \E c \in req.cands : NextAttempt(Selected(c))
    /\ UNCHANGED <<ctx, out, inFlight, regvars>>

Admit ==
    /\ Gated
    /\ \E c \in req.cands :
          /\ req' = [Selected(c) EXCEPT !.pc = "build"]
          /\ inFlight' = [inFlight EXCEPT ![c.object] = @ + 1]
    /\ UNCHANGED <<ctx, out, log, regvars>>

----------------------------------------------------------------------------
(* dispatch                                                                *)

CfgNow == cfgOf[req.sel.object]
ConfigOf(e) == Settings[req.sel.object[1]][e]

(* Mutant: the client's request is adapted in place.                       *)
BuildInPlace ==
    /\ At("build")
    /\ out' = [out EXCEPT !.body = BuildUpstreamRequest(req.client, ConfigOf(CfgNow)),
                          !.bodyOf = CfgNow]
    /\ req' = [req EXCEPT !.pc = "address", !.client = out'.body]
    /\ UNCHANGED <<ctx, inFlight, log, regvars>>

Build ==
    /\ At("build")
    /\ out' = [out EXCEPT !.body = BuildUpstreamRequest(req.client, ConfigOf(CfgNow)),
                          !.bodyOf = CfgNow]
    /\ req' = [req EXCEPT !.pc = "address"]
    /\ UNCHANGED <<ctx, inFlight, log, regvars>>

Address ==
    /\ At("address")
    /\ out' = [out EXCEPT !.urlOf = CfgNow]
    /\ req' = [req EXCEPT !.pc = "authorize"]
    /\ UNCHANGED <<ctx, inFlight, log, regvars>>

(* Mutant: the key that was current at gating.                             *)
AuthorizeGated ==
    /\ At("authorize")
    /\ out' = [out EXCEPT !.keyOf = req.sel.at]
    /\ req' = [req EXCEPT !.pc = "sent"]
    /\ UNCHANGED <<ctx, inFlight, log, regvars>>

Authorize ==
    /\ At("authorize")
    /\ out' = [out EXCEPT !.keyOf = CfgNow]
    /\ req' = [req EXCEPT !.pc = "sent"]
    /\ UNCHANGED <<ctx, inFlight, log, regvars>>

----------------------------------------------------------------------------
(* The in-flight counter that is decremented is the selected object's.     *)
(* Mutant: the upstream is looked up again.                                *)
LeaveUpstreamByID ==
    IF Live(req.sel.object[1])
    THEN inFlight' = [inFlight EXCEPT ![Get(req.sel.object[1])] = @ - 1]
    ELSE UNCHANGED inFlight

LeaveUpstream == inFlight' = [inFlight EXCEPT ![req.sel.object] = @ - 1]

(* Transport error, error status, or a body that is not JSON.  The client  *)
(* gets nothing of it; a context that ended is only asked about after      *)
(* errors of the transport.                                                *)
DispatchFails ==
    /\ At("sent")
    /\ LeaveUpstream
    /\ out' = NoRequest
    /\ \/ NextAttempt(req)
       \/ ctx # "live" /\ req' = Over(req) /\ UNCHANGED log
    /\ UNCHANGED <<ctx, regvars>>

(* The timeout of the context fires, or the client goes away.              *)
ContextEnds ==
    /\ req.pc \notin {"idle", "over"}
    /\ \/ ctx = "live" /\ ctx' = "expired"
       \/ ctx # "gone" /\ ctx' = "gone"
    /\ UNCHANGED <<req, out, inFlight, log, regvars>>

----------------------------------------------------------------------------
(* Properties of the request side                                          *)

(* What a request needs, as the comments of request.go have it: tools      *)
(* unless tool_choice suppresses them, and whatever its history used.      *)
Given(q, k) == Has(q, k) /\ Val(q, k) # Null

Suppressed(q) == Given(q, "tool_choice") /\ Val(q, "tool_choice") = Str("none")

ListsTools(q) == Has(q, "tools") /\ Elems(Val(q, "tools")) # <<>>

UsesTools(q) ==
    \/ ListsTools(q) /\ ~ Suppressed(q)
    \/ Given(q, "tool_choice") /\ ~ Suppressed(q)
    \/ \E i \in DOMAIN Messages(q) :
          Messages(q)[i].role = "tool" \/ Messages(q)[i].calls = "list"

Meets(cfg, q) ==
    /\ HasPart(Messages(q), "image_url") => "image" \in cfg.modalities
    /\ HasPart(Messages(q), "input_audio") => "audio" \in cfg.modalities
    /\ UsesTools(q) => cfg.tools
    /\ ExtractSignals(q).format \in {"json_object", "json_schema"} => cfg.schema

Prompt(q) == EstimatePromptTokens(Messages(q))

Completion(q) == CompletionEstimate(ExtractSignals(q))

SafeWindow(cfg) == (cfg.window * 95) \div 100

(* README, stage 1 of the routing engine: what an upstream is sent, after  *)
(* its quirks and however many upstreams failed before, is what the gates  *)
(* let pass: the configuration they looked at supports everything the body *)
(* sent asks for, and prompt and output limit fit into 95% of its context  *)
(* window.  The exception: an estimate that overflows is negative and fits *)
(* everywhere.                                                             *)
Servable ==
    At("address") =>
        LET gated == ConfigOf(req.sel.at) IN
        /\ Meets(gated, out.body)
        /\ Prompt(req.asked) + Completion(req.asked) <= MaxInt =>
              Prompt(out.body) + ExtractSignals(out.body).maxTokens <= SafeWindow(gated)

(* An upstream is only turned down for a request it could not serve: the   *)
(* configuration looked at lacks something, or the window is too small.    *)
(* The exceptions are requests whose tools the code misreads: tool_choice  *)
(* "none" does not make up for a list of tools, against the comment at     *)
(* request.go:94, and a null tool_choice or tool_calls counts as use.      *)
Misread(q) ==
    \/ Suppressed(q) /\ ListsTools(q)
    \/ Has(q, "tool_choice") /\ Val(q, "tool_choice") = Null
    \/ \E i \in DOMAIN Messages(q) : Messages(q)[i].calls = "null"

CapableNotRefused ==
    \A p \in req.refused :
        LET cfg == Settings[p[1]][p[2]]
            q == req.asked
        IN  \/ ~ Meets(cfg, q)
            \/ Prompt(q) + Completion(q) > SafeWindow(cfg)
            \/ ~ cfg.tools /\ Misread(q)

(* The body an upstream gets is the client's request adapted to it alone,  *)
(* whichever upstreams it was adapted to before: nothing the quirks forbid *)
(* is left (but a limit renamed to a stripped name), what they do not name *)
(* is as the client sent it and in its order, and the output limit is one  *)
(* the client gave or the ceiling, and not above the ceiling.  That is the *)
(* limit in the parameter the upstream uses; one in the other parameter    *)
(* passes unclamped (quirks.go:46).                                        *)
Governed == {"model", "max_tokens", "max_completion_tokens", "stop"}

Forbidden(cfg, q) ==
    (ToSet(cfg.strip) \cup (IF cfg.noTemperature THEN {"temperature"} ELSE {})
                      \cup (IF cfg.noTopP THEN {"top_p"} ELSE {}))
        \ (IF cfg.completionKey /\ Has(q, "max_tokens")
           THEN {"max_completion_tokens"} ELSE {})

Before(m, k, l) ==
    \E i, j \in DOMAIN m.keys : i < j /\ m.keys[i] = k /\ m.keys[j] = l

BodyFits ==
    At("address") =>
        LET cfg == ConfigOf(out.bodyOf)
            q == req.asked
            body == out.body
            free(m) == ToSet(m.keys) \ (Governed \cup Forbidden(cfg, q))
        IN
        /\ Forbidden(cfg, q) \cap ToSet(body.keys) = {}
        /\ free(body) = free(q)
        /\ \A k \in free(q) : Val(body, k) = Val(q, k)
        /\ \A k, l \in free(q) : Before(body, k, l) <=> Before(q, k, l)
        /\ Has(body, "model") => Val(body, "model") = Str(cfg.model)
        /\ cfg.completionKey => ~ Has(body, "max_tokens")
        /\ Has(body, LimitKey(cfg)) =>
              /\ IntAt(body, LimitKey(cfg)) <= cfg.maxOutput
              /\ \/ \E k \in {"max_tokens", "max_completion_tokens"} :
                       Has(q, k) /\ Val(body, LimitKey(cfg)) = Val(q, k)
                 \/ Val(body, LimitKey(cfg)) = Num(cfg.maxOutput)
        /\ cfg.stopAsString /\ Has(body, "stop") =>
              Val(body, "stop") \notin {Null, List(<<>>)}

(* dispatch reads the Cfg pointer three times without a lock, and the      *)
(* registry may move it in between.  The parts of an HTTP request may then *)
(* come from several configurations, but never from one older than the     *)
(* gates looked at, and never back in time: a key is at least as new as    *)
(* the address it is sent to, and that as new as the body.                 *)
PartsInOrder ==
    At("sent") =>
        /\ req.sel.at <= out.bodyOf
        /\ out.bodyOf <= out.urlOf
        /\ out.urlOf <= out.keyOf

(* The counter of an object counts the request that was sent to it, also   *)
(* when the upstream has been removed, or removed and added again, in the  *)
(* meantime.                                                               *)
InFlightExact ==
    \A o \in Object :
        inFlight[o] =
            IF req.pc \in {"build", "address", "authorize", "sent", "first",
                          "streaming"}
               /\ req.sel.object = o
            THEN 1 ELSE 0

=============================================================================
