-------------------------------- MODULE Wire --------------------------------
(***************************************************************************)
(* What the router reads from and changes in the JSON that passes through: *)
(* the routing signals of a request (internal/openai/request.go), its      *)
(* estimated cost (internal/tokens/estimate.go), the gates that depend on  *)
(* them (internal/router/gate.go), the request for one upstream            *)
(* (internal/openai/quirks.go), the usage of a response, and the rewriting *)
(* of a response for the client (internal/sanitize/sanitize.go).           *)
(*                                                                         *)
(* A message is [role, parts, calls]: the content parts with their types   *)
(* and lengths (a plain string counts like one text part), and its         *)
(* tool_calls: "absent", "null" or "list".  A config.Upstream is [model,   *)
(* window, maxOutput, modalities, tools, schema, strip, noTemperature,     *)
(* noTopP, completionKey, stopAsString].                                   *)
(***************************************************************************)
EXTENDS OrderedMap

CONSTANT MaxInt     \* the largest int

ASSUME WireAssumption == MaxInt \in Nat

(* What Validate asks of an upstream's configuration, and its format of the*)
(* names to strip.                                                         *)
ValidUpstream(cfg) ==
    /\ cfg.window \in 1..MaxInt
    /\ cfg.maxOutput \in 1..cfg.window
    /\ cfg.modalities # {}
    /\ cfg.strip \in Seq(STRING)

ChatMessage == [role : STRING, parts : Seq([type : STRING, chars : Nat]),
                calls : {"absent", "null", "list"}]

(* Addition of ints wraps around.                                          *)
Wrap(n) == ((n + MaxInt + 1) % (2 * (MaxInt + 1))) - (MaxInt + 1)

(* json.Unmarshal into an int: null is accepted, and leaves it zero.       *)
IsInt(v) == Kind(v) \in {"num", "null"}
IntOf(v) == IF Kind(v) = "num" THEN v[2] ELSE 0
IntAt(m, k) == IF Has(m, k) /\ IsInt(Val(m, k)) THEN IntOf(Val(m, k)) ELSE 0

(* json.Unmarshal into a slice.                                            *)
IsList(v) == Kind(v) \in {"list", "null"}
Elems(v) == IF Kind(v) = "list" THEN v[2] ELSE <<>>

StringAt(m, k) == IF Has(m, k) /\ Kind(Val(m, k)) = "str" THEN Val(m, k)[2] ELSE ""

----------------------------------------------------------------------------
(* ExtractSignals                                                          *)

(* The one way to make ExtractSignals fail.                                *)
Readable(req) == Has(req, "messages") => IsList(Val(req, "messages"))

Messages(req) == IF Has(req, "messages") THEN Elems(Val(req, "messages")) ELSE <<>>

(* A JSON object: its limits, if they are numbers, fit into an int.        *)
IsRequest(req) ==
    /\ WellFormed(req)
    /\ Messages(req) \in Seq(ChatMessage)
    /\ \A k \in {"max_tokens", "max_completion_tokens"} :
          IntAt(req, k) \in -MaxInt - 1..MaxInt

HasPart(msgs, type) ==
    \E i \in DOMAIN msgs : \E j \in DOMAIN msgs[i].parts :
        msgs[i].parts[j].type = type

(* Mutants: earlier tool use is not looked for; a tool_choice of any value *)
(* counts.                                                                 *)
WantsToolsNow(req, msgs) ==
    \/ Has(req, "tools") /\ IsList(Val(req, "tools")) /\ Elems(Val(req, "tools")) # <<>>
    \/ Has(req, "tool_choice") /\ Val(req, "tool_choice") # Str("none")

WantsToolsAnyChoice(req, msgs) ==
    \/ Has(req, "tools") /\ IsList(Val(req, "tools")) /\ Elems(Val(req, "tools")) # <<>>
    \/ Has(req, "tool_choice")
    \/ \E i \in DOMAIN msgs : msgs[i].role = "tool" \/ msgs[i].calls # "absent"

WantsTools(req, msgs) ==
    \/ Has(req, "tools") /\ IsList(Val(req, "tools")) /\ Elems(Val(req, "tools")) # <<>>
    \/ Has(req, "tool_choice") /\ Val(req, "tool_choice") # Str("none")
    \/ \E i \in DOMAIN msgs : msgs[i].role = "tool" \/ msgs[i].calls # "absent"

ExtractSignals(req) ==
    LET msgs == Messages(req)
    IN  [model     |-> StringAt(req, "model"),
         stream    |-> Has(req, "stream") /\ Val(req, "stream") = Bool(TRUE),
         hasImage  |-> HasPart(msgs, "image_url"),
         hasAudio  |-> HasPart(msgs, "input_audio"),
         hasTools  |-> WantsTools(req, msgs),
         format    |-> IF Has(req, "response_format")
                          /\ Kind(Val(req, "response_format")) = "obj"
                       THEN StringAt(Val(req, "response_format")[2], "type") ELSE "",
         maxTokens |-> IF /\ Has(req, "max_completion_tokens")
                          /\ IsInt(Val(req, "max_completion_tokens"))
                          /\ IntAt(req, "max_completion_tokens") > IntAt(req, "max_tokens")
                       THEN IntAt(req, "max_completion_tokens")
                       ELSE IntAt(req, "max_tokens"),
         messages  |-> msgs]

----------------------------------------------------------------------------
(* EstimateTotal                                                           *)

charsPerToken == 4
imageTokenEstimate == 765
audioTokenEstimate == 1000
defaultCompletionEstimate == 1024

PartCost(p) ==
    CASE p.type = "text"        -> p.chars \div charsPerToken + 1
      [] p.type = "image_url"   -> imageTokenEstimate
      [] p.type = "input_audio" -> audioTokenEstimate
      [] OTHER                  -> 16

(* Roles have about four letters, and tool_calls at least that.            *)
MessageCost(m) ==
    FoldLeft(LAMBDA c, p : c + PartCost(p), IF m.calls = "absent" THEN 2 ELSE 3, m.parts)

EstimatePromptTokens(msgs) == FoldLeft(LAMBDA t, m : t + MessageCost(m), 0, msgs)

CompletionEstimate(s) ==
    IF s.maxTokens > 0 THEN s.maxTokens ELSE defaultCompletionEstimate

EstimateTotal(s) == Wrap(EstimatePromptTokens(s.messages) + CompletionEstimate(s))

----------------------------------------------------------------------------
(* The gates of passesGates that depend on the request alone.              *)

CanServe(cfg, s) ==
    /\ s.hasImage => "image" \in cfg.modalities
    /\ s.hasAudio => "audio" \in cfg.modalities
    /\ s.hasTools => cfg.tools
    /\ s.format \in {"json_object", "json_schema"} => cfg.schema
    /\ cfg.window > 0 => EstimateTotal(s) <= (cfg.window * 95) \div 100

----------------------------------------------------------------------------
(* BuildUpstreamRequest                                                    *)

RenameLimit(m) ==
    IF Has(m, "max_tokens")
    THEN Delete(Put(m, "max_completion_tokens", Val(m, "max_tokens")), "max_tokens")
    ELSE m

LimitKey(cfg) == IF cfg.completionKey THEN "max_completion_tokens" ELSE "max_tokens"

ClampMaxTokens(m, cfg) ==
    IF cfg.maxOutput > 0 /\ IntAt(m, LimitKey(cfg)) > cfg.maxOutput
    THEN Put(m, LimitKey(cfg), Num(cfg.maxOutput)) ELSE m

NormalizeStop(m) ==
    IF ~ Has(m, "stop") \/ ~ IsList(Val(m, "stop")) THEN m
    ELSE CASE Len(Elems(Val(m, "stop"))) = 1 -> Put(m, "stop", Str(Elems(Val(m, "stop"))[1]))
           [] Len(Elems(Val(m, "stop"))) = 0 -> Delete(m, "stop")
           [] OTHER -> m

BuildUpstreamRequest(client, cfg) ==
    LET named    == Put(client, "model", Str(cfg.model))
        stripped == FoldLeft(Delete, named, cfg.strip)
        cooler   == IF cfg.noTemperature THEN Delete(stripped, "temperature") ELSE stripped
        plainer  == IF cfg.noTopP THEN Delete(cooler, "top_p") ELSE cooler
        renamed  == IF cfg.completionKey THEN RenameLimit(plainer) ELSE plainer
        clamped  == ClampMaxTokens(renamed, cfg)
    IN  IF cfg.stopAsString THEN NormalizeStop(clamped) ELSE clamped

----------------------------------------------------------------------------
(* ParseUsage: the total of a usage value, if it can be read.              *)

UsageInts == {"prompt_tokens", "completion_tokens", "total_tokens"}

ReadableUsage(v) ==
    \/ v = Null
    \/ /\ Kind(v) = "obj"
       /\ \A k \in UsageInts : Has(v[2], k) => IsInt(Val(v[2], k))

TotalTokens(v) ==
    IF v = Null THEN 0
    ELSE IF IntAt(v[2], "total_tokens") # 0 THEN IntAt(v[2], "total_tokens")
    ELSE Wrap(IntAt(v[2], "prompt_tokens") + IntAt(v[2], "completion_tokens"))

----------------------------------------------------------------------------
(* sanitize.Rewrite                                                        *)

usageAllowlist ==
    UsageInts \cup {"prompt_tokens_details", "completion_tokens_details"}

topLevelAllowlist ==
    {"id", "object", "created", "model", "choices", "usage", "service_tier"}

Overwrite(m, k, v) == IF Has(m, k) THEN Put(m, k, v) ELSE m

ScrubUsage(m) ==
    IF Has(m, "usage") /\ Kind(Val(m, "usage")) = "obj"
    THEN Put(m, "usage", Obj(KeepOnly(Val(m, "usage")[2], usageAllowlist))) ELSE m

(* A JSON object with a usage, if any, of any kind.                        *)
IsResponse(m) ==
    /\ WellFormed(m)
    /\ Has(m, "usage") /\ Kind(Val(m, "usage")) = "obj" => WellFormed(Val(m, "usage")[2])

Rewrite(m, publicModel, requestID) ==
    ScrubUsage(KeepOnly(
        Overwrite(Overwrite(m, "model", Str(publicModel)), "id", Str(requestID)),
        topLevelAllowlist))

=============================================================================
