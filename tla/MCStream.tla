------------------------------ MODULE MCStream ------------------------------
(* Stream.tla for TLC: two upstreams whose settings differ in every edit,  *)
(* and requests that meet each gate, quirk and early return at least once. *)
EXTENDS Stream

CONSTANTS u1, u2

TwoUpstreams == {u1, u2}

Plainest == [model |-> "up-model", window |-> 8000, maxOutput |-> 8000,
             modalities |-> {"text"}, tools |-> FALSE, schema |-> FALSE,
             strip |-> <<>>, noTemperature |-> FALSE, noTopP |-> FALSE,
             completionKey |-> FALSE, stopAsString |-> FALSE]

(* A small model, one with every ability, a strict one with other parameter*)
(* names, and a large one that may not be told limits.                     *)
Small == [Plainest EXCEPT !.window = 2000, !.maxOutput = 100, !.strip = <<"extra", "seed">>]
Able == [Plainest EXCEPT !.modalities = {"text", "image", "audio"}, !.tools = TRUE,
             !.schema = TRUE, !.stopAsString = TRUE]
Strict == [Plainest EXCEPT !.tools = TRUE, !.maxOutput = 50, !.noTemperature = TRUE,
             !.noTopP = TRUE, !.completionKey = TRUE,
             !.strip = <<"max_completion_tokens">>]
Large == [Plainest EXCEPT !.window = 32000, !.strip = <<"max_tokens">>]

TheSettings ==
    [u \in TwoUpstreams |-> [e \in 0..2 |->
        IF u = u1 THEN <<Small, Able, Strict>>[e + 1]
        ELSE <<Able, Strict, Large>>[e + 1]]]

Says(role, type, calls) ==
    [role |-> role, parts |-> <<[type |-> type, chars |-> 8]>>, calls |-> calls]
Text == List(<<Says("user", "text", "absent")>>)

Body(members) ==
    ParseObject(<<<<"model", Str("m")>>, <<"messages", Text>>>> \o members)
Flag(k) == <<k, Bool(TRUE)>>

Requests == {
    Body(<<Flag("stream"), <<"max_tokens", Num(200)>>,
           <<"max_completion_tokens", Num(150)>>, <<"temperature", Num(1)>>,
           Flag("seed"), Flag("extra"), <<"stop", List(<<"x">>)>>>>),
    Body(<<<<"messages", List(<<Says("user", "image_url", "absent")>>)>>,
           <<"max_completion_tokens", Num(200)>>, <<"max_tokens", Num(60)>>,
           <<"top_p", Null>>, <<"stop", Null>>>>),
    Body(<<<<"messages", List(<<Says("user", "input_audio", "absent")>>)>>,
           <<"max_tokens", Str("many")>>, <<"stop", List(<<"x", "y">>)>>>>),
    Body(<<<<"tools", List(<<"f">>)>>, <<"tool_choice", Str("none")>>>>),
    Body(<<<<"tools", List(<<>>)>>, <<"tool_choice", Str("none")>>,
           <<"max_completion_tokens", Num(70)>>>>),
    Body(<<<<"messages", List(<<Says("user", "text", "list"),
                                Says("tool", "file", "absent")>>)>>>>),
    Body(<<<<"messages", List(<<Says("user", "text", "null")>>)>>>>),
    Body(<<<<"response_format", Obj(ParseObject(<<<<"type", Str("json_schema")>>>>))>>,
           <<"tools", Null>>, <<"max_tokens", Num(3000)>>, <<"max_tokens", Num(7900)>>>>),
    Body(<<<<"tool_choice", Null>>, <<"max_tokens", Num(-1)>>>>),
    Body(<<<<"max_tokens", Num(32767)>>, <<"stop", List(<<>>)>>>>),
    Body(<<<<"model", Null>>>>), Body(<<<<"model", Str("unknown")>>>>),
    Body(<<<<"messages", Str("hello")>>>>)}

Usage(members) == <<"usage", Obj(ParseObject(members))>>
Chunk(members) ==
    <<"data", ParseObject(<<<<"id", Str("up-id")>>, <<"created", Num(1)>>,
                            <<"provider", Str("up")>>, <<"system_fingerprint", Str("up-fp")>>,
                            <<"model", Str("up-model")>>>> \o members)>>

ThePayloads == {
    Done, <<"bad">>, Chunk(<<<<"choices", List(<<>>)>>>>), Chunk(<<<<"usage", Null>>>>),
    Chunk(<<Usage(<<<<"prompt_tokens", Num(2)>>, <<"cost", Str("up")>>,
                    <<"trace", Str("up")>>, <<"completion_tokens", Num(3)>>>>)>>),
    Chunk(<<Usage(<<<<"total_tokens", Num(7)>>>>)>>)}

TheSecrets == {"up", "up-id", "up-fp", "up-model"}
=============================================================================
