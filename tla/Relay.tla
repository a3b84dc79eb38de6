------------------------------- MODULE Relay -------------------------------
(***************************************************************************)
(* What a client may see of one chat completion, whatever upstreams fail   *)
(* behind it (stream.go, the comment of serveStream): either one error, or *)
(* one complete answer, or a stream.  Upstreams may be tried one after the *)
(* other as long as the client has been sent nothing; once the stream is   *)
(* open, everything comes from one upstream, and a stream that fails is    *)
(* closed with an error and [DONE].  Nothing follows the end.              *)
(*                                                                         *)
(* One exception is part of the promise, because the code makes it: a      *)
(* stream that begins with [DONE] goes on.                                 *)
(***************************************************************************)
EXTENDS SequencesExt, Naturals

CONSTANTS Sources, None

VARIABLES
    log,        \* what the client has been sent
    source      \* the upstream being tried, or answering

rvars == <<log, source>>

Kind(x) == x[1]

Ended ==
    \/ log # <<>> /\ Kind(Last(log)) \in {"fatal", "body"}
    \/ Len(log) > 2 /\ Kind(Last(log)) = "done"

Init == log = <<>> /\ source = None

Attempt ==
    /\ log = <<>>
    /\ source' \in Sources
    /\ UNCHANGED log

Refuse(x) ==
    /\ log = <<>>
    /\ Kind(x) = "fatal"
    /\ log' = <<x>>
    /\ source' \in Sources \cup {None}

Answer(x) ==
    /\ log = <<>> /\ source # None
    /\ Kind(x) \in {"body", "open"}
    /\ log' = <<x>>
    /\ UNCHANGED source

Forward(x) ==
    /\ log # <<>> /\ ~ Ended
    /\ Kind(x) \in {"data", "done"}
    /\ log' = Append(log, x)
    /\ UNCHANGED source

Fail ==
    /\ log # <<>> /\ ~ Ended
    /\ log' = log \o << <<"error">>, <<"done">> >>
    /\ UNCHANGED source

(* The next request.                                                       *)
Reset == log' = <<>> /\ source' = None

Next ==
    \/ Attempt \/ Fail \/ Reset
    \/ \E x \in ToSet(log') : Refuse(x) \/ Answer(x) \/ Forward(x)

Spec == Init /\ [][Next]_rvars
============================================================================
