---------------------------- MODULE StreamProofs ----------------------------
(***************************************************************************)
(* The exchange with a client for any pool, any settings, any number of    *)
(* configurations, any requests and any events from the upstreams.         *)
(***************************************************************************)
EXTENDS Stream, DataTheorems

----------------------------------------------------------------------------
(* Types                                                                   *)

Preparing == {"build", "address", "authorize", "sent"}
Committed == {"first", "streaming"}
Silent == {"idle", "gate"} \cup Preparing

Clients == ClientRequests \cup {NewOrderedMap}

Request == [pc : Silent \cup Committed \cup {"over"}, client : Clients,
            pool : SUBSET Upstreams, attempt : 0..MaxAttempts - 1,
            tried : SUBSET Upstreams, todo : SUBSET Upstreams,
            cands : SUBSET Candidate, sel : Candidate \cup {None},
            asked : Clients, refused : SUBSET (Upstreams \X (0..MaxEdits))]

Bodies == {NewOrderedMap} \cup
          {BuildUpstreamRequest(q, Settings[u][e]) :
              q \in Clients, u \in Upstreams, e \in 0..MaxEdits}

Outgoing == [body : Bodies, bodyOf : 0..MaxEdits \cup {None},
             urlOf : 0..MaxEdits \cup {None}, keyOf : 0..MaxEdits \cup {None}]

Answer(p) == <<"body", Rewrite(p[2], PublicModel, RequestID)>>

Objects == {p \in Payloads : Kind(p) = "data"}

Message == {Open, Done, Error} \cup {Fatal(s) : s \in {"400", "404", "502", "504"}}
               \cup {Image(p) : p \in Objects} \cup {Answer(p) : p \in Objects}

Response == [received : Seq(Payloads), tokens : Int, recorded : Int, applied : Int]

Typed ==
    /\ req \in Request
    /\ out \in Outgoing
    /\ log \in Seq(Message)
    /\ resp \in Response
    /\ ctx \in {"live", "expired", "gone"}
    /\ inFlight \in [Object -> Int]

(* The registry: a live object exists, and follows the newest              *)
(* configuration.                                                          *)
Tracked ==
    /\ regCfg \in [edit : 0..MaxEdits, pool : SUBSET Upstreams]
    /\ registry \in [Upstreams -> 0..MaxEdits \cup {None}]
    /\ cfgOf \in [Object -> 0..MaxEdits \cup {None}]
    /\ \A u \in Upstreams : Live(u) => cfgOf[Get(u)] # None
    /\ \A o \in Object : cfgOf[o] # None => cfgOf[o] <= regCfg.edit

(* What the gates looked at is not newer than what the object points to.   *)
Current(c) == cfgOf[c.object] # None /\ c.at <= cfgOf[c.object]

Chosen ==
    /\ \A c \in req.cands : Current(c)
    /\ req.sel # None => Current(req.sel)
    /\ req.pc \in Preparing \cup Committed => req.sel # None
    /\ req.pc \in Committed => resp.received # <<>>

Basics == Typed /\ Tracked /\ Chosen

----------------------------------------------------------------------------
LEMMA Sizes ==
    MaxAttempts \in Nat \ {0} /\ None \notin Object /\ None \notin Candidate
  BY DispatchAssumption

LEMMA InitTyped == Init => Basics
<1>. SUFFICES ASSUME Init PROVE Basics
  OBVIOUS
<1>. USE RegistryAssumption, Sizes
<1>1. Typed
  BY DEF Typed, Init, InitDispatch, Idle, NoRequest, NoResponse, Request, Outgoing, Bodies,
         Response, Clients, Silent, Preparing
<1>2. PICK pool \in SUBSET Upstreams \ {{}} :
          LET c == [edit |-> 0, pool |-> pool] IN
          /\ regCfg = c
          /\ registry = [u \in Upstreams |-> IF u \in pool THEN 0 ELSE None]
          /\ cfgOf = [o \in Object |-> IF o[1] \in pool /\ o[2] = 0 THEN 0 ELSE None]
  BY DEF Init
<1>3. \A u \in Upstreams : Live(u) => cfgOf[Get(u)] = 0 /\ Get(u) \in Object
  BY <1>2 DEF Live, Get, Object
<1>4. Tracked
  <2>1. regCfg \in [edit : 0..MaxEdits, pool : SUBSET Upstreams] /\ regCfg.edit = 0
    BY <1>2
  <2>2. registry \in [Upstreams -> 0..MaxEdits \cup {None}]
    BY <1>2
  <2>3. /\ cfgOf \in [Object -> 0..MaxEdits \cup {None}]
        /\ \A o \in Object : cfgOf[o] # None => cfgOf[o] <= 0
    BY <1>2
  <2>. QED  BY <1>3, <2>1, <2>2, <2>3 DEF Tracked
<1>5. Chosen
  BY DEF Chosen, Init, InitDispatch, Idle, Preparing, Committed
<1>. QED  BY <1>1, <1>4, <1>5 DEF Basics

(* What a successful look-up returns.                                      *)
LEMMA Lookup ==
    ASSUME Tracked, NEW u \in Upstreams, Live(u)
    PROVE  /\ Get(u) \in Object
           /\ cfgOf[Get(u)] \in 0..MaxEdits
  BY DEF Tracked, Live, Get, Object

LEMMA ReconfigureKeeps ==
    ASSUME Basics, Reconfigure, UNCHANGED resp
    PROVE  /\ Tracked'
           /\ \A o \in Object : cfgOf[o] # None => cfgOf'[o] # None /\ cfgOf[o] <= cfgOf'[o]
<1>. USE RegistryAssumption DEF Basics, Tracked
<1>1. PICK pool \in SUBSET Upstreams : Sync([edit |-> regCfg.edit + 1, pool |-> pool])
  BY DEF Reconfigure
<1>. DEFINE e == regCfg.edit + 1
<1>2. /\ regCfg' = [edit |-> e, pool |-> pool]
      /\ registry' = [u \in Upstreams |->
            CASE u \notin pool            -> None
              [] u \in pool /\ Live(u)    -> registry[u]
              [] u \in pool /\ ~ Live(u)  -> e]
      /\ cfgOf' = [o \in Object |->
                    IF o[1] \in pool /\ registry'[o[1]] = o[2] THEN e ELSE cfgOf[o]]
  BY <1>1 DEF Sync, Registered
<1>3. e \in 0..MaxEdits
  BY DEF Reconfigure
<1>4. registry' \in [Upstreams -> 0..MaxEdits \cup {None}]
  BY <1>2, <1>3
<1>5. cfgOf' \in [Object -> 0..MaxEdits \cup {None}]
  BY <1>2, <1>3
<1>6. ASSUME NEW u \in Upstreams, Live(u)' PROVE cfgOf'[Get(u)'] # None
  <2>1. u \in pool /\ registry'[u] \in 0..MaxEdits
    BY <1>2, <1>4, <1>6 DEF Live
  <2>2. <<u, registry'[u]>> \in Object
    BY <2>1 DEF Object
  <2>. QED  BY <1>2, <1>3, <2>1, <2>2 DEF Get
<1>7. \A o \in Object : cfgOf'[o] = e \/ cfgOf'[o] = cfgOf[o]
  BY <1>2
<1>8. regCfg' \in [edit : 0..MaxEdits, pool : SUBSET Upstreams] /\ regCfg'.edit = e
  BY <1>2, <1>3
<1>9. \A o \in Object : cfgOf'[o] # None => cfgOf'[o] <= e
  BY <1>7, <1>3
<1>10. \A o \in Object : cfgOf[o] # None => cfgOf'[o] # None /\ cfgOf[o] <= cfgOf'[o]
  BY <1>7, <1>3
<1>. QED  BY <1>4, <1>5, <1>6, <1>8, <1>9, <1>10

(* Every event that is an object or the end is forwarded as one.           *)
LEMMA Events ==
    ASSUME NEW p \in Payloads, Kind(p) # "bad"
    PROVE  /\ Image(p) \in Message
           /\ Image(p)[1] = "data" \/ (p = Done /\ Image(p)[1] = "done")
<1>1. CASE p = Done
  BY <1>1 DEF Image, Message, Done
<1>2. CASE p # Done
  <2>1. p \in Objects
    BY <1>2, StreamAssumption DEF IsPayload, Objects
  <2>2. Image(p)[1] = "data"
    BY <1>2 DEF Image
  <2>. QED  BY <2>1, <2>2 DEF Message
<1>. QED  BY <1>1, <1>2

LEMMA TokensInt ==
    ASSUME NEW p \in Payloads, NEW t \in Int
    PROVE  TokensAfter(t, p) \in Int
<1>1. Tells(p) => ToldBy(p) \in Int
  BY StreamAssumption DEF IsPayload, Tells, Kind, Done
<1>. QED  BY <1>1 DEF TokensAfter

LEMMA IdleIsRequest == Idle \in Request
<1>1. 0 \in 0..MaxAttempts - 1
  BY Sizes
<1>. QED  BY <1>1 DEF Idle, Request, Clients, Silent

LEMMA OverIsRequest ==
    ASSUME NEW q \in Request
    PROVE  Over(q) \in Request
<1>1. q.sel \in Candidate \cup {None}
  BY DEF Request
<1>. QED  BY <1>1, IdleIsRequest DEF Over, Request

LEMMA PcUpdate ==
    ASSUME NEW q \in Request, NEW pc \in Silent \cup Committed \cup {"over"}
    PROVE  [q EXCEPT !.pc = pc] \in Request
  BY DEF Request

LEMMA AgainIsRequest ==
    ASSUME NEW q \in Request, q.attempt + 1 < MaxAttempts
    PROVE  [q EXCEPT !.pc = "gate", !.attempt = @ + 1,
                     !.todo = q.pool \ q.tried, !.cands = {}] \in Request
<1>1. q.attempt \in 0..MaxAttempts - 1 /\ q.pool \subseteq Upstreams
  BY DEF Request
<1>2. q.attempt + 1 \in 0..MaxAttempts - 1
  BY <1>1, Sizes
<1>. QED  BY <1>1, <1>2 DEF Request, Silent

LEMMA SelectedIsRequest ==
    ASSUME NEW q \in Request, NEW c \in Candidate
    PROVE  [q EXCEPT !.sel = c, !.tried = @ \cup {c.object[1]}] \in Request
<1>1. c.object[1] \in Upstreams
  BY DEF Candidate, Object
<1>. QED  BY <1>1 DEF Request

LEMMA ExaminedIsRequest ==
    ASSUME NEW q \in Request, NEW u, NEW c \in Candidate,
           NEW r \in Upstreams \X (0..MaxEdits)
    PROVE  /\ [q EXCEPT !.todo = @ \ {u}] \in Request
           /\ [q EXCEPT !.todo = @ \ {u}, !.cands = @ \cup {c}] \in Request
           /\ [q EXCEPT !.todo = @ \ {u}, !.refused = @ \cup {r}] \in Request
  BY DEF Request

LEMMA OutgoingParts ==
    ASSUME NEW o \in Outgoing, NEW e \in 0..MaxEdits, NEW b \in Bodies
    PROVE  /\ [o EXCEPT !.body = b, !.bodyOf = e] \in Outgoing
           /\ [o EXCEPT !.urlOf = e] \in Outgoing
           /\ [o EXCEPT !.keyOf = e] \in Outgoing
  BY DEF Outgoing

LEMMA ResponseParts ==
    ASSUME NEW x \in Response, NEW s \in Seq(Payloads),
           NEW t \in Int, NEW r \in Int, NEW z \in Int
    PROVE  /\ [x EXCEPT !.received = s] \in Response
           /\ [x EXCEPT !.tokens = t] \in Response
           /\ [x EXCEPT !.received = s, !.tokens = t] \in Response
           /\ [x EXCEPT !.tokens = z, !.recorded = r, !.applied = t] \in Response
           /\ [x EXCEPT !.tokens = z, !.applied = t, !.recorded = r] \in Response
  BY DEF Response

LEMMA Receipts ==
    /\ <<>> \in Seq(Payloads)
    /\ \A p \in Payloads : <<p>> \in Seq(Payloads)
  OBVIOUS

LEMMA FinalResponse ==
    ASSUME NEW x \in Response, NEW t \in Int, NEW r \in Int
    PROVE  /\ [x EXCEPT !.tokens = 0, !.recorded = r, !.applied = t] \in Response
           /\ [x EXCEPT !.tokens = 0, !.applied = t, !.recorded = r] \in Response
<1>1. PICK z \in Int : z = 0
  OBVIOUS
<1>2. <<>> \in Seq(Payloads)
  BY Receipts
<1>3. /\ [x EXCEPT !.tokens = z, !.recorded = r, !.applied = t] \in Response
      /\ [x EXCEPT !.tokens = z, !.applied = t, !.recorded = r] \in Response
  BY <1>2, ResponseParts
<1>. QED  BY <1>1, <1>3

LEMMA Attempts ==
    ASSUME Typed, NEW q \in Request, NextAttempt(q)
    PROVE  req' \in Request /\ log' \in Seq(Message)
<1>1. CASE q.attempt + 1 < MaxAttempts
  <2>1. /\ req' = [q EXCEPT !.pc = "gate", !.attempt = @ + 1,
                             !.todo = q.pool \ q.tried, !.cands = {}]
        /\ log' = log
    BY <1>1 DEF NextAttempt
  <2>2. req' \in Request
    BY <1>1, <2>1, AgainIsRequest
  <2>. QED  BY <2>1, <2>2 DEF Typed
<1>2. CASE ~ (q.attempt + 1 < MaxAttempts)
  <2>1. req' \in Request
    BY <1>2, OverIsRequest DEF NextAttempt, GiveUp
  <2>2. Fatal("504") \in Message /\ Fatal("502") \in Message
    BY DEF Message
  <2>3. log' \in {log, Append(log, Fatal("504")), Append(log, Fatal("502"))}
    BY <1>2 DEF NextAttempt, GiveUp, Typed
  <2>. QED  BY <2>1, <2>2, <2>3 DEF Typed
<1>. QED  BY <1>1, <1>2

LEMMA TypedNext ==
    ASSUME Basics, [Next]_vars PROVE Typed'
<1>. USE DEF Basics
<1>0. /\ req \in Request
      /\ out \in Outgoing
      /\ log \in Seq(Message)
      /\ resp \in Response
      /\ ctx \in {"live", "expired", "gone"}
      /\ inFlight \in [Object -> Int]
  BY DEF Typed
<1>1. ASSUME Reconfigure, UNCHANGED resp PROVE Typed'
  BY <1>0, <1>1 DEF Typed, Reconfigure, dvars
<1>2. ASSUME NewRequest, UNCHANGED resp PROVE Typed'
  <2>1. PICK q \in ClientRequests :
          LET name == StringAt(q, "model")
              accepted == name = PublicModel /\ Readable(q)
          IN  /\ req' = IF ~ accepted THEN Over(Idle)
                        ELSE [Idle EXCEPT !.pc = "gate", !.client = q, !.asked = q,
                                 !.pool = regCfg.pool, !.todo = regCfg.pool]
              /\ log' = CASE accepted -> <<>>
                          [] name \notin {"", PublicModel} -> <<Fatal("404")>>
                          [] OTHER -> <<Fatal("400")>>
    BY <1>2 DEF NewRequest
  <2>2. Over(Idle) \in Request
    BY IdleIsRequest, OverIsRequest
  <2>3. regCfg.pool \subseteq Upstreams
    BY DEF Tracked
  <2>4. [Idle EXCEPT !.pc = "gate", !.client = q, !.asked = q,
                     !.pool = regCfg.pool, !.todo = regCfg.pool] \in Request
    BY IdleIsRequest, <2>3 DEF Request, Clients, Silent
  <2>5. req' \in Request
    BY <2>1, <2>2, <2>4
  <2>6. Fatal("404") \in Message /\ Fatal("400") \in Message
    BY DEF Message
  <2>7. log' \in {<<>>, <<Fatal("404")>>, <<Fatal("400")>>}
    BY <2>1, Zenon
  <2>8. log' \in Seq(Message)
    <3>1. <<>> \in Seq(Message)
      OBVIOUS
    <3>2. \A x \in Message : <<x>> \in Seq(Message)
      OBVIOUS
    <3>. QED  BY <2>6, <2>7, <3>1, <3>2
  <2>. QED  BY <1>0, <1>2, <2>5, <2>8 DEF NewRequest, Typed
<1>3. ASSUME NEW u \in Upstreams, Examine(u), UNCHANGED resp PROVE Typed'
  <2>. DEFINE c == [object |-> Get(u), at |-> cfgOf[Get(u)]]
              r == <<u, cfgOf[Get(u)]>>
  <2>1. Live(u) => c \in Candidate /\ r \in Upstreams \X (0..MaxEdits)
    BY Lookup DEF Candidate
  <2>2. \/ req' = [req EXCEPT !.todo = @ \ {u}]
        \/ Live(u) /\ req' = [req EXCEPT !.todo = @ \ {u}, !.cands = @ \cup {c}]
        \/ Live(u) /\ req' = [req EXCEPT !.todo = @ \ {u}, !.refused = @ \cup {r}]
    BY <1>0, <1>3 DEF Examine, Request
  <2>3. [req EXCEPT !.todo = @ \ {u}] \in Request
    BY <1>0 DEF Request
  <2>. HIDE DEF c, r
  <2>4. Live(u) => /\ [req EXCEPT !.todo = @ \ {u}, !.cands = @ \cup {c}] \in Request
                   /\ [req EXCEPT !.todo = @ \ {u}, !.refused = @ \cup {r}] \in Request
    BY <1>0, <2>1, ExaminedIsRequest
  <2>5. req' \in Request
    BY <2>2, <2>3, <2>4
  <2>. QED  BY <1>0, <1>3, <2>5 DEF Examine, Typed
<1>4. ASSUME NoUpstream, UNCHANGED resp PROVE Typed'
  <2>1. req' = Over(req)
    BY <1>4 DEF NoUpstream, GiveUp
  <2>2. req' \in Request
    BY <1>0, <2>1, OverIsRequest
  <2>3. log' \in {log, Append(log, Fatal("504")), Append(log, Fatal("502")),
                  Append(log, Fatal("400"))}
    BY <1>0, <1>4 DEF NoUpstream, GiveUp, Typed
  <2>4. \A s \in {"400", "502", "504"} : Fatal(s) \in Message
    BY DEF Message
  <2>5. log' \in Seq(Message)
    BY <1>0, <2>3, <2>4
  <2>. QED  BY <1>0, <1>4, <2>2, <2>5 DEF NoUpstream, Typed
<1>5. ASSUME NEW c \in req.cands PROVE Selected(c) \in Request /\ c.object \in Object
  <2>1. c \in Candidate
    BY <1>0, <1>5 DEF Request
  <2>. QED  BY <1>0, <2>1, SelectedIsRequest DEF Selected, Candidate
<1>6. ASSUME Deny, UNCHANGED resp PROVE Typed'
  <2>1. PICK c \in req.cands : NextAttempt(Selected(c))
    BY <1>6 DEF Deny
  <2>2. req' \in Request /\ log' \in Seq(Message)
    BY <1>5, <2>1, Attempts
  <2>. QED  BY <1>0, <1>6, <2>2 DEF Deny, Typed
<1>7. ASSUME Admit, UNCHANGED resp PROVE Typed'
  <2>1. PICK c \in req.cands :
          /\ req' = [Selected(c) EXCEPT !.pc = "build"]
          /\ inFlight' = [inFlight EXCEPT ![c.object] = @ + 1]
    BY <1>7 DEF Admit
  <2>2. req' \in Request
    BY <1>5, <2>1, PcUpdate DEF Silent, Preparing
  <2>3. inFlight' \in [Object -> Int]
    BY <1>0, <1>5, <2>1
  <2>. QED  BY <1>0, <1>7, <2>2, <2>3 DEF Admit, Typed
<1>8. ASSUME req.pc \in Preparing \cup Committed
      PROVE  /\ req.sel \in Candidate /\ req.sel.object \in Object
             /\ CfgNow \in 0..MaxEdits
  BY <1>0, <1>8 DEF Chosen, Current, Tracked, Request, Candidate, CfgNow
<1>9. ASSUME Build, UNCHANGED resp PROVE Typed'
  <2>1. CfgNow \in 0..MaxEdits /\ req.sel.object[1] \in Upstreams /\ req.client \in Clients
    BY <1>0, <1>8, <1>9 DEF Build, At, Preparing, Object, Request
  <2>. DEFINE b == BuildUpstreamRequest(req.client, ConfigOf(CfgNow))
  <2>2. b \in Bodies
    BY <2>1 DEF ConfigOf, Bodies
  <2>3. out' = [out EXCEPT !.body = b, !.bodyOf = CfgNow] /\ req' = [req EXCEPT !.pc = "address"]
    BY <1>9 DEF Build
  <2>. HIDE DEF b
  <2>4. out' \in Outgoing /\ req' \in Request
    BY <1>0, <2>1, <2>2, <2>3, OutgoingParts, PcUpdate DEF Silent, Preparing
  <2>. QED  BY <1>0, <1>9, <2>4 DEF Build, Typed
<1>10. ASSUME Address, UNCHANGED resp PROVE Typed'
  <2>1. CfgNow \in 0..MaxEdits
    BY <1>8, <1>10 DEF Address, At, Preparing
  <2>2. out' = [out EXCEPT !.urlOf = CfgNow] /\ req' = [req EXCEPT !.pc = "authorize"]
    BY <1>10 DEF Address
  <2>3. out' \in Outgoing /\ req' \in Request
    BY <1>0, <2>1, <2>2, OutgoingParts, PcUpdate DEF Silent, Preparing, Outgoing
  <2>. QED  BY <1>0, <1>10, <2>3 DEF Address, Typed
<1>11. ASSUME Authorize, UNCHANGED resp PROVE Typed'
  <2>1. CfgNow \in 0..MaxEdits
    BY <1>8, <1>11 DEF Authorize, At, Preparing
  <2>2. out' = [out EXCEPT !.keyOf = CfgNow] /\ req' = [req EXCEPT !.pc = "sent"]
    BY <1>11 DEF Authorize
  <2>3. out' \in Outgoing /\ req' \in Request
    BY <1>0, <2>1, <2>2, OutgoingParts, PcUpdate DEF Silent, Preparing, Outgoing
  <2>. QED  BY <1>0, <1>11, <2>3 DEF Authorize, Typed
<1>12. ASSUME LeaveUpstream, req.pc \in Preparing \cup Committed
       PROVE  inFlight' \in [Object -> Int]
  <2>1. PICK o \in Object : o = req.sel.object
    BY <1>8, <1>12
  <2>2. inFlight' = [inFlight EXCEPT ![o] = @ - 1]
    BY <1>12, <2>1 DEF LeaveUpstream
  <2>. QED  BY <1>0, <2>2
<1>13. NoRequest \in Outgoing /\ NoResponse \in Response
  BY DEF NoRequest, Outgoing, Bodies, NoResponse, Response
<1>14. ASSUME DispatchFails, UNCHANGED resp PROVE Typed'
  <2>1. NextAttempt(req) \/ (req' = Over(req) /\ UNCHANGED log)
    BY <1>14 DEF DispatchFails
  <2>2. req' \in Request /\ log' \in Seq(Message)
    BY <1>0, <2>1, Attempts, OverIsRequest
  <2>3. inFlight' \in [Object -> Int]
    BY <1>12, <1>14 DEF DispatchFails, At, Preparing
  <2>. QED  BY <1>0, <1>13, <1>14, <2>2, <2>3 DEF DispatchFails, Typed
<1>15. ASSUME ContextEnds, UNCHANGED resp PROVE Typed'
  BY <1>0, <1>15 DEF ContextEnds, Typed
<1>16. \A p \in Payloads : TokensAfter(0, p) \in Int /\ \A t \in Int : TokensAfter(t, p) \in Int
  BY TokensInt
<1>17. ASSUME NEW p \in Payloads PROVE Written(p) \in Seq(Message)
  <2>1. Kind(p) # "bad" => Image(p) \in Message
    BY Events
  <2>. QED  BY <1>0, <2>1 DEF Written
<1>18. ASSUME NEW t \in Int, NEW r \in Int, Finish(t, r), req.pc \in Preparing \cup Committed
       PROVE  /\ req' \in Request /\ resp' \in Response /\ inFlight' \in [Object -> Int]
              /\ UNCHANGED <<ctx, out>>
  <2>1. req' \in Request
    BY <1>0, <1>18, OverIsRequest DEF Finish
  <2>2. resp' \in Response
    <3>1. resp' = [resp EXCEPT !.tokens = 0, !.recorded = r, !.applied = t]
      BY <1>18 DEF Finish
    <3>. QED  BY <1>0, <3>1, FinalResponse
  <2>. QED  BY <1>12, <1>18, <2>1, <2>2 DEF Finish
<1>19. ASSUME NEW t \in Int, FinishStream(t), req.pc \in Preparing \cup Committed
       PROVE  /\ req' \in Request /\ resp' \in Response /\ inFlight' \in [Object -> Int]
              /\ UNCHANGED <<ctx, out>>
  BY <1>18, <1>19 DEF FinishStream
<1>20. resp.tokens \in Int
  BY <1>0 DEF Response
<1>21. Done \in Message /\ Open \in Message /\ Error \in Message
  BY DEF Message
<1>22. ASSUME Answered PROVE Typed'
  <2>1. PICK p \in Payloads :
          LET t == TokensAfter(0, p) IN
          /\ Kind(p) = "data"
          /\ log' = <<Answer(p)>>
          /\ resp' = [received |-> <<p>>, tokens |-> 0, recorded |-> t, applied |-> t]
    BY <1>22 DEF Answered, Answer
  <2>2. log' \in Seq(Message)
    <3>1. Answer(p) \in Message
      BY <2>1 DEF Message, Objects
    <3>. QED  BY <2>1, <3>1
  <2>3. resp' \in Response
    BY <1>16, <2>1 DEF Response
  <2>4. req' \in Request
    BY <1>0, <1>22, OverIsRequest DEF Answered
  <2>5. inFlight' \in [Object -> Int]
    BY <1>12, <1>22 DEF Answered, At, Preparing
  <2>. QED  BY <1>0, <1>22, <2>2, <2>3, <2>4, <2>5 DEF Answered, Typed
<1>23. ASSUME Commit PROVE Typed'
  <2>1. PICK p \in Payloads : resp' = [resp EXCEPT !.received = <<p>>]
    BY <1>23 DEF Commit
  <2>2. resp' \in Response
    BY <1>0, <2>1, 0 \in Int, Receipts, ResponseParts
  <2>3. log' \in Seq(Message)
    BY <1>21, <1>23 DEF Commit
  <2>4. req' \in Request
    BY <1>0, <1>23, OverIsRequest, PcUpdate DEF Commit, Committed
  <2>. QED  BY <1>0, <1>13, <1>23, <2>2, <2>3, <2>4 DEF Commit, Typed
<1>24. ASSUME WriteFirst PROVE Typed'
  <2>1. PICK p \in Payloads : p = resp.received[1]
    BY <1>0, <1>24 DEF WriteFirst, At, Chosen, Committed, Response
  <2>2. req.pc \in Preparing \cup Committed
    BY <1>24 DEF WriteFirst, At, Committed
  <2>3. CASE /\ log' = Written(p)
             /\ resp' = [resp EXCEPT !.tokens = TokensAfter(0, p)]
             /\ req' = [req EXCEPT !.pc = "streaming"]
             /\ UNCHANGED <<regvars, ctx, out, inFlight>>
    <3>1. resp' \in Response
      BY <1>0, <1>16, <2>3, Receipts, ResponseParts
    <3>2. req' \in Request
      BY <1>0, <2>3, PcUpdate DEF Committed
    <3>. QED  BY <1>0, <1>17, <2>3, <3>1, <3>2 DEF Typed
  <2>4. CASE FinishStream(0) /\ UNCHANGED log
    BY <1>0, <1>19, <2>2, <2>4 DEF Typed
  <2>. QED  BY <1>24, <2>1, <2>3, <2>4 DEF WriteFirst
<1>25. ASSUME Event PROVE Typed'
  <2>1. PICK p \in Payloads :
          LET seen == [resp EXCEPT !.received = Append(@, p), !.tokens = TokensAfter(@, p)]
          IN  /\ Receive(p)
              /\ \/ /\ log' = Written(p)
                    /\ resp' = seen
                    /\ UNCHANGED <<regvars, req, ctx, out, inFlight>>
                 \/ /\ MayFail(p)
                    /\ LeaveUpstream
                    /\ req' = Over(req)
                    /\ resp' = [seen EXCEPT !.tokens = 0, !.applied = seen.tokens,
                                   !.recorded = IF seen.tokens > 0 THEN seen.tokens ELSE 0]
                    /\ UNCHANGED <<regvars, ctx, out, log>>
    BY <1>25 DEF Event
  <2>. DEFINE seen == [resp EXCEPT !.received = Append(@, p), !.tokens = TokensAfter(@, p)]
  <2>2. seen \in Response
    <3>1. Append(resp.received, p) \in Seq(Payloads)
      BY <1>0 DEF Response
    <3>2. TokensAfter(resp.tokens, p) \in Int
      BY <1>16, <1>20
    <3>. QED  BY <1>0, <3>1, <3>2, ResponseParts
  <2>3. req.pc \in Preparing \cup Committed
    BY <2>1 DEF Receive, At, Committed
  <2>. HIDE DEF seen
  <2>4. CASE log' = Written(p) /\ resp' = seen /\ UNCHANGED <<regvars, req, ctx, out, inFlight>>
    BY <1>0, <1>17, <2>2, <2>4 DEF Typed
  <2>5. CASE /\ LeaveUpstream
             /\ req' = Over(req)
             /\ resp' = [seen EXCEPT !.tokens = 0, !.applied = seen.tokens,
                             !.recorded = IF seen.tokens > 0 THEN seen.tokens ELSE 0]
             /\ UNCHANGED <<regvars, ctx, out, log>>
    <3>1. resp' \in Response
      <4>1. seen.tokens \in Int /\ seen.received \in Seq(Payloads)
        BY <2>2 DEF Response
      <4>2. PICK r \in Int :
              resp' = [seen EXCEPT !.tokens = 0, !.applied = seen.tokens, !.recorded = r]
        <5>. DEFINE r == IF seen.tokens > 0 THEN seen.tokens ELSE 0
        <5>1. r \in Int
          BY <4>1
        <5>2. resp' = [seen EXCEPT !.tokens = 0, !.applied = seen.tokens, !.recorded = r]
          BY <2>5
        <5>. QED  BY <5>1, <5>2, Zenon
      <4>. QED  BY <2>2, <4>1, <4>2, FinalResponse
    <3>. QED  BY <1>0, <1>12, <2>3, <2>5, <3>1, OverIsRequest DEF Typed
  <2>. QED  BY <2>1, <2>4, <2>5 DEF seen
<1>26. ASSUME LastEvent PROVE Typed'
  <2>1. FinishStream(resp.tokens) /\ req.pc \in Preparing \cup Committed
    BY <1>26 DEF LastEvent, At, Committed
  <2>2. log' \in Seq(Message)
    BY <1>0, <1>21, <1>26 DEF LastEvent
  <2>. QED  BY <1>0, <1>19, <1>20, <2>1, <2>2 DEF Typed
<1>27. ASSUME EndOfStream PROVE Typed'
  <2>1. FinishStream(resp.tokens) /\ req.pc \in Preparing \cup Committed
    BY <1>27 DEF EndOfStream, At, Committed
  <2>. QED  BY <1>0, <1>19, <1>20, <1>27, <2>1 DEF EndOfStream, Typed
<1>28. ASSUME StreamBreaks PROVE Typed'
  <2>1. FinishStream(resp.tokens) /\ req.pc \in Preparing \cup Committed
    BY <1>28 DEF StreamBreaks, At, Committed
  <2>2. log' \in Seq(Message)
    <3>1. <<Error, Done>> \in Seq(Message)
      BY <1>21
    <3>2. log \o <<Error, Done>> \in Seq(Message)
      BY <1>0, <3>1
    <3>. QED  BY <1>0, <1>28, <3>2 DEF StreamBreaks
  <2>. QED  BY <1>0, <1>19, <1>20, <2>1, <2>2 DEF Typed
<1>29. ASSUME Return PROVE Typed'
  <2>1. <<>> \in Seq(Message)
    OBVIOUS
  <2>. QED  BY <1>0, <1>13, <1>29, <2>1, IdleIsRequest DEF Return, Typed
<1>30. ASSUME UNCHANGED vars PROVE Typed'
  BY <1>0, <1>30 DEF vars, dvars, Typed
<1>. QED  BY <1>1, <1>2, <1>3, <1>4, <1>6, <1>7, <1>9, <1>10, <1>11, <1>14, <1>15, <1>22,
             <1>23, <1>24, <1>25, <1>26, <1>27, <1>28, <1>29, <1>30 DEF Next

----------------------------------------------------------------------------
(* What the steps do to the candidates and the selected one.               *)

Serves == req.pc \in Preparing \cup Committed

LEMMA NextAttemptMoves ==
    ASSUME Typed, NEW q \in Request, NextAttempt(q)
    PROVE  /\ req'.pc \in {"gate", "over"}
           /\ req'.sel = q.sel
           /\ req'.cands = {}
           /\ req'.client = req'.asked \/ (req'.client = q.client /\ req'.asked = q.asked)
           /\ req'.pc = "gate" => log' = log
           /\ log' = log \/ \E s \in {"502", "504"} : log' = Append(log, Fatal(s))
<1>1. CASE q.attempt + 1 < MaxAttempts
  BY <1>1 DEF NextAttempt, Request
<1>2. CASE ~ (q.attempt + 1 < MaxAttempts)
  <2>1. req' = Over(q)
    BY <1>2 DEF NextAttempt, GiveUp
  <2>2. /\ req'.pc = "over" /\ req'.sel = q.sel /\ req'.cands = {}
        /\ req'.client = req'.asked
    BY <2>1 DEF Over, Idle
  <2>3. ctx \in {"live", "expired", "gone"}
    BY DEF Typed
  <2>4. log' = log \/ log' = Append(log, Fatal("504")) \/ log' = Append(log, Fatal("502"))
    BY <1>2, <2>3 DEF NextAttempt, GiveUp
  <2>. QED  BY <2>2, <2>4
<1>. QED  BY <1>1, <1>2

LEMMA OverFields ==
    ASSUME NEW q
    PROVE  /\ Over(q).pc = "over" /\ Over(q).sel = q.sel /\ Over(q).cands = {}
           /\ Over(q).client = Over(q).asked
  BY DEF Over, Idle

(* Which upstream is being served changes in one of three ways.            *)
Serving ==
    \/ (Serves <=> Serves') /\ (Serves => req'.sel = req.sel) /\ inFlight' = inFlight
    \/ /\ ~ Serves /\ Serves'
       /\ req'.sel \in req.cands
       /\ inFlight' = [inFlight EXCEPT ![req'.sel.object] = @ + 1]
    \/ Serves /\ ~ Serves' /\ LeaveUpstream

LEMMA ServingMoves ==
    ASSUME Basics, [Next]_vars PROVE Serving
<1>. USE DEF Basics, Serves, Preparing, Committed
<1>0. req \in Request /\ Typed
  BY DEF Typed
<1>1. CASE Reconfigure \/ ContextEnds \/ UNCHANGED vars
  BY <1>1 DEF Serving, Reconfigure, ContextEnds, vars, dvars
<1>2. CASE NewRequest
  <2>1. req'.pc \in {"gate", "over"}
    <3>1. Over(Idle).pc = "over"
      BY OverFields
    <3>. QED  BY <1>2, <3>1 DEF NewRequest, Idle
  <2>. QED  BY <1>2, <2>1 DEF Serving, NewRequest, At
<1>3. ASSUME NEW u \in Upstreams, Examine(u) PROVE Serving
  <2>1. req'.pc = "gate"
    BY <1>0, <1>3 DEF Examine, At, Request
  <2>. QED  BY <1>3, <2>1 DEF Serving, Examine, At
<1>4. CASE NoUpstream
  <2>1. req' = Over(req)
    BY <1>4 DEF NoUpstream, GiveUp
  <2>. QED  BY <1>4, <2>1, OverFields DEF Serving, NoUpstream, Gated, At
<1>5. ASSUME NEW c \in req.cands PROVE Selected(c) \in Request /\ Selected(c).sel = c
  <2>1. c \in Candidate
    BY <1>0, <1>5 DEF Request
  <2>2. Selected(c) \in Request
    BY <1>0, <2>1, SelectedIsRequest DEF Selected
  <2>3. Selected(c).sel = c
    BY <1>0 DEF Selected, Request
  <2>. QED  BY <2>2, <2>3
<1>6. CASE Deny
  <2>1. PICK c \in req.cands : NextAttempt(Selected(c))
    BY <1>6 DEF Deny
  <2>2. req'.pc \in {"gate", "over"}
    BY <1>0, <1>5, <2>1, NextAttemptMoves
  <2>. QED  BY <1>6, <2>2 DEF Serving, Deny, Gated, At
<1>7. CASE Admit
  <2>1. PICK c \in req.cands :
          /\ req' = [Selected(c) EXCEPT !.pc = "build"]
          /\ inFlight' = [inFlight EXCEPT ![c.object] = @ + 1]
    BY <1>7 DEF Admit
  <2>2. Selected(c) \in Request /\ Selected(c).sel = c
    BY <1>5
  <2>3. req'.pc = "build" /\ req'.sel = c
    BY <2>1, <2>2 DEF Request
  <2>. QED  BY <1>7, <2>1, <2>3 DEF Serving, Admit, Gated, At
<1>8. CASE Build \/ Address \/ Authorize
  <2>1. req'.pc \in Preparing /\ req'.sel = req.sel
    BY <1>0, <1>8 DEF Build, Address, Authorize, Request
  <2>2. req.pc \in Preparing /\ inFlight' = inFlight
    BY <1>8 DEF Build, Address, Authorize, At
  <2>. QED  BY <2>1, <2>2 DEF Serving
<1>9. CASE DispatchFails
  <2>1. req'.pc \in {"gate", "over"}
    <3>1. CASE NextAttempt(req)
      BY <1>0, <3>1, NextAttemptMoves
    <3>2. CASE req' = Over(req)
      BY <3>2, OverFields
    <3>. QED  BY <1>9, <3>1, <3>2 DEF DispatchFails
  <2>. QED  BY <1>9, <2>1 DEF Serving, DispatchFails, At
<1>10. CASE Commit
  <2>1. Over(req) \in Request /\ Over(req).sel = req.sel
    BY <1>0, OverFields, OverIsRequest
  <2>2. req'.pc = "first" /\ req'.sel = req.sel
    BY <1>10, <2>1 DEF Commit, Request
  <2>. QED  BY <1>10, <2>2 DEF Serving, Commit, At
<1>11. ASSUME LeaveUpstream, req' = Over(req), Serves PROVE Serving
  BY <1>11, OverFields DEF Serving
<1>12. ASSUME NEW t, FinishStream(t), Serves PROVE Serving
  BY <1>11, <1>12 DEF FinishStream, Finish
<1>13. CASE Answered
  BY <1>11, <1>13 DEF Answered, At
<1>14. CASE WriteFirst
  <2>1. CASE req' = [req EXCEPT !.pc = "streaming"] /\ inFlight' = inFlight
    <3>1. req'.pc = "streaming" /\ req'.sel = req.sel
      BY <1>0, <2>1 DEF Request
    <3>. QED  BY <1>14, <2>1, <3>1 DEF Serving, WriteFirst, At
  <2>2. CASE FinishStream(0)
    BY <1>12, <1>14, <2>2 DEF WriteFirst, At
  <2>. QED  BY <1>14, <2>1, <2>2 DEF WriteFirst
<1>15. CASE Event
  <2>1. Serves
    BY <1>15 DEF Event, Receive, At
  <2>. QED  BY <1>11, <1>15, <2>1 DEF Event, Serving
<1>16. CASE LastEvent \/ EndOfStream \/ StreamBreaks
  <2>1. FinishStream(resp.tokens) /\ Serves
    BY <1>16 DEF LastEvent, EndOfStream, StreamBreaks, At
  <2>. QED  BY <1>12, <2>1
<1>17. CASE Return
  BY <1>17 DEF Return, Idle, Serving, At
<1>. QED  BY <1>1, <1>2, <1>3, <1>4, <1>6, <1>7, <1>8, <1>9, <1>10, <1>13, <1>14, <1>15,
             <1>16, <1>17 DEF Next

LEMMA InFlightNext ==
    ASSUME Basics, InFlightExact, Serving, Typed', Chosen'
    PROVE  InFlightExact'
<1>. USE DEF Basics, Serves, Preparing, Committed
<1>1. /\ \A o \in Object : inFlight[o] = IF Serves /\ req.sel.object = o THEN 1 ELSE 0
      /\ inFlight \in [Object -> Int]
  BY DEF InFlightExact, Typed
<1>2. Serves => req.sel.object \in Object
  BY DEF Chosen, Typed, Request, Candidate
<1>3. (Serves => req.sel.object \in Object)'
  BY DEF Chosen, Typed, Request, Candidate
<1>4. \A o \in Object : inFlight'[o] = IF Serves' /\ req'.sel.object = o THEN 1 ELSE 0
  <2>1. CASE (Serves <=> Serves') /\ (Serves => req'.sel = req.sel) /\ inFlight' = inFlight
    BY <1>1, <2>1
  <2>2. CASE ~ Serves /\ Serves' /\ inFlight' = [inFlight EXCEPT ![req'.sel.object] = @ + 1]
    <3>1. PICK v \in Object : v = req'.sel.object
      BY <1>3, <2>2
    <3>2. inFlight' = [inFlight EXCEPT ![v] = @ + 1]
      BY <2>2, <3>1
    <3>. HIDE DEF Serves
    <3>. QED  BY <1>1, <2>2, <3>1, <3>2
  <2>3. CASE Serves /\ ~ Serves' /\ LeaveUpstream
    <3>1. PICK v \in Object : v = req.sel.object
      BY <1>2, <2>3
    <3>2. inFlight' = [inFlight EXCEPT ![v] = @ - 1]
      BY <2>3, <3>1 DEF LeaveUpstream
    <3>. HIDE DEF Serves
    <3>. QED  BY <1>1, <2>3, <3>1, <3>2
  <2>. QED  BY <2>1, <2>2, <2>3 DEF Serving
<1>. QED  BY <1>4 DEF InFlightExact

(* The gates have looked at the request that is sent.                      *)
Fits(u, e) == CanServe(Settings[u][e], ExtractSignals(req.client))

Screened ==
    /\ req.client = req.asked
    /\ \A c \in req.cands : Fits(c.object[1], c.at)
    /\ req.pc \in Preparing => Fits(req.sel.object[1], req.sel.at)
    /\ \A p \in req.refused : ~ Fits(p[1], p[2])

(* How new the parts of the HTTP request are.                              *)
Aged ==
    /\ At("address") => /\ req.sel.at <= out.bodyOf /\ out.bodyOf <= CfgNow
    /\ At("authorize") => /\ req.sel.at <= out.bodyOf /\ out.bodyOf <= out.urlOf
                          /\ out.urlOf <= CfgNow
    /\ At("sent") => /\ req.sel.at <= out.bodyOf /\ out.bodyOf <= out.urlOf
                     /\ out.urlOf <= out.keyOf

Dated ==
    /\ req.pc \in Preparing \ {"build"} => out.bodyOf \in 0..MaxEdits
    /\ req.pc \in {"authorize", "sent"} => out.urlOf \in 0..MaxEdits
    /\ req.pc = "sent" => out.keyOf \in 0..MaxEdits

Built ==
    At("address") => out.body = BuildUpstreamRequest(req.client, ConfigOf(out.bodyOf))

Prepared == Screened /\ Aged /\ Dated /\ Built

LEMMA NewerObjects ==
    ASSUME Basics, [Next]_vars
    PROVE  /\ Tracked'
           /\ \A o \in Object : cfgOf[o] # None => cfgOf'[o] # None /\ cfgOf[o] <= cfgOf'[o]
<1>1. CASE Reconfigure /\ UNCHANGED resp
  BY <1>1, ReconfigureKeeps
<1>2. CASE UNCHANGED regvars
  <2>1. \A o \in Object : cfgOf[o] # None => cfgOf[o] \in 0..MaxEdits
    BY DEF Basics, Tracked
  <2>2. /\ regCfg' = regCfg /\ registry' = registry /\ cfgOf' = cfgOf
    BY <1>2 DEF regvars
  <2>3. Tracked'
    BY <2>2 DEF Basics, Tracked, Live, Get
  <2>. QED  BY <2>1, <2>2, <2>3, RegistryAssumption
<1>3. (Reconfigure /\ UNCHANGED resp) \/ UNCHANGED regvars
  BY DEF Next, NewRequest, NoUpstream, Deny, Admit, Examine, Build, Address, Authorize,
         DispatchFails, ContextEnds, Answered, Commit, WriteFirst, Event, LastEvent,
         EndOfStream, StreamBreaks, Return, FinishStream, Finish, vars
<1>. QED  BY <1>1, <1>2, <1>3

(* A candidate that was current stays so.                                  *)
LEMMA StaysCurrent ==
    ASSUME Basics, [Next]_vars, NEW c \in Candidate, Current(c)
    PROVE  Current(c)'
<1>1. c.object \in Object /\ c.at \in 0..MaxEdits
  BY DEF Candidate
<1>2. cfgOf[c.object] \in 0..MaxEdits
  BY <1>1 DEF Current, Basics, Tracked
<1>3. Tracked' /\ cfgOf'[c.object] # None /\ cfgOf[c.object] <= cfgOf'[c.object]
  BY <1>1, NewerObjects DEF Current
<1>4. cfgOf'[c.object] \in 0..MaxEdits
  BY <1>1, <1>3 DEF Tracked
<1>5. c.at <= cfgOf'[c.object]
  BY <1>1, <1>2, <1>3, <1>4, RegistryAssumption DEF Current
<1>. QED  BY <1>3, <1>5 DEF Current

(* What a step may do to what the gates have found.                        *)
GateMoves ==
    /\ \/ req'.client = req.client /\ req'.asked = req.asked
       \/ /\ req'.client = req'.asked /\ req'.cands = {} /\ req'.refused = {}
          /\ req'.pc \notin Preparing
    /\ \A c \in req'.cands :
          c \in req.cands \/ (c \in Candidate /\ Current(c) /\ Fits(c.object[1], c.at))
    /\ \A p \in req'.refused : p \in req.refused \/ ~ Fits(p[1], p[2])
    /\ req'.sel \in {None, req.sel} \cup req.cands
    /\ req'.pc \in Preparing =>
          (req.pc \in Preparing /\ req'.sel = req.sel) \/ req'.sel \in req.cands
    /\ req'.pc \in Committed => resp'.received # <<>>

LEMMA OverMoves ==
    ASSUME NEW q, req' \in {Over(q), [Over(q) EXCEPT !.pc = "first"]}
    PROVE  /\ req'.client = req'.asked /\ req'.cands = {} /\ req'.refused = {}
           /\ req'.pc \in {"over", "first"} /\ req'.sel = q.sel
           /\ req' = Over(q) => req'.pc = "over"
  BY DEF Over, Idle

LEMMA GateMovesAll ==
    ASSUME Basics, [Next]_vars PROVE GateMoves
<1>. USE DEF Basics, Preparing, Committed
<1>0. req \in Request /\ Typed /\ resp \in Response
  BY DEF Typed
<1>1. ASSUME req' = req, resp' = resp PROVE GateMoves
  BY <1>1 DEF GateMoves, Chosen
<1>2. CASE ((Reconfigure \/ ContextEnds) /\ UNCHANGED resp) \/ UNCHANGED vars
  BY <1>1, <1>2 DEF Reconfigure, ContextEnds, vars, dvars
<1>3. ASSUME NEW q, req' = Over(q), q.sel \in {None, req.sel} \cup req.cands PROVE GateMoves
  BY <1>3, OverMoves DEF GateMoves
<1>4. CASE NewRequest
  <2>1. PICK q \in ClientRequests :
          req' \in {Over(Idle), [Idle EXCEPT !.pc = "gate", !.client = q, !.asked = q,
                                 !.pool = regCfg.pool, !.todo = regCfg.pool]}
    BY <1>4, Zenon DEF NewRequest
  <2>2. CASE req' = Over(Idle)
    <3>1. Idle.sel = None
      BY DEF Idle
    <3>. QED  BY <1>3, <2>2, <3>1
  <2>3. CASE req' = [Idle EXCEPT !.pc = "gate", !.client = q, !.asked = q,
                                 !.pool = regCfg.pool, !.todo = regCfg.pool]
    <3>1. /\ req'.client = req'.asked /\ req'.cands = {} /\ req'.refused = {}
          /\ req'.pc = "gate" /\ req'.sel = None
      BY <2>3 DEF Idle
    <3>. QED  BY <3>1 DEF GateMoves
  <2>. QED  BY <2>1, <2>2, <2>3
<1>5. ASSUME NEW u \in Upstreams, Examine(u) PROVE GateMoves
  <2>. DEFINE e == cfgOf[Get(u)]
              c == [object |-> Get(u), at |-> e]
              fits == CanServe(Settings[u][e], ExtractSignals(req.client))
  <2>1. \/ req' = [req EXCEPT !.todo = @ \ {u}]
        \/ Live(u) /\ fits /\ req' = [req EXCEPT !.todo = @ \ {u}, !.cands = @ \cup {c}]
        \/ Live(u) /\ ~ fits /\ req' = [req EXCEPT !.todo = @ \ {u}, !.refused = @ \cup {<<u, e>>}]
    BY <1>0, <1>5 DEF Examine, Request
  <2>2. Live(u) => Get(u) \in Object /\ e \in 0..MaxEdits /\ Get(u)[1] = u
    BY Lookup DEF Get
  <2>3. Live(u) => c \in Candidate /\ Current(c) /\ c.object = Get(u) /\ c.at = e
    <3>1. Live(u) => e \in 0..MaxEdits /\ e # None /\ e <= e
      BY <2>2, RegistryAssumption
    <3>. QED  BY <2>2, <3>1 DEF Candidate, Current
  <2>4. Live(u) => (fits <=> Fits(u, e))
    BY DEF Fits
  <2>5. req.pc = "gate"
    BY <1>5 DEF Examine, At
  <2>. HIDE DEF c, fits, e
  <2>6. /\ req'.pc = "gate" /\ req'.client = req.client /\ req'.asked = req.asked
        /\ req'.sel = req.sel
        /\ req'.cands \subseteq req.cands \/ (Live(u) /\ fits /\ req'.cands = req.cands \cup {c})
        /\ req'.refused \subseteq req.refused
              \/ (Live(u) /\ ~ fits /\ req'.refused = req.refused \cup {<<u, e>>})
    <3>1. CASE req' = [req EXCEPT !.todo = @ \ {u}]
      BY <1>0, <2>5, <3>1 DEF Request
    <3>2. CASE Live(u) /\ fits /\ req' = [req EXCEPT !.todo = @ \ {u}, !.cands = @ \cup {c}]
      BY <1>0, <2>5, <3>2 DEF Request
    <3>3. CASE Live(u) /\ ~ fits /\ req' = [req EXCEPT !.todo = @ \ {u}, !.refused = @ \cup {<<u, e>>}]
      BY <1>0, <2>5, <3>3 DEF Request
    <3>. QED  BY <2>1, <3>1, <3>2, <3>3
  <2>7. \A d \in req'.cands : d \in req.cands \/ (d \in Candidate /\ Current(d) /\ Fits(d.object[1], d.at))
    BY <2>2, <2>3, <2>4, <2>6
  <2>8. \A p \in req'.refused : p \in req.refused \/ ~ Fits(p[1], p[2])
    BY <2>4, <2>6
  <2>. QED  BY <2>6, <2>7, <2>8 DEF GateMoves
<1>6. CASE NoUpstream
  BY <1>3, <1>6 DEF NoUpstream, GiveUp
<1>7. ASSUME NEW c \in req.cands
      PROVE  /\ Selected(c) \in Request /\ Selected(c).sel = c
             /\ Selected(c).cands = req.cands /\ Selected(c).refused = req.refused
             /\ Selected(c).client = req.client /\ Selected(c).asked = req.asked
  <2>1. c \in Candidate
    BY <1>0, <1>7 DEF Request
  <2>2. Selected(c) \in Request
    BY <1>0, <2>1, SelectedIsRequest DEF Selected
  <2>. QED  BY <1>0, <2>2 DEF Selected, Request
<1>8. ASSUME NEW q \in Request, NextAttempt(q), q.sel \in {None, req.sel} \cup req.cands,
             q.client = req.client, q.asked = req.asked, q.refused = req.refused
      PROVE  GateMoves
  <2>1. CASE q.attempt + 1 < MaxAttempts
    <3>1. req' = [q EXCEPT !.pc = "gate", !.attempt = @ + 1,
                           !.todo = q.pool \ q.tried, !.cands = {}]
      BY <1>8, <2>1 DEF NextAttempt
    <3>2. /\ req'.pc = "gate" /\ req'.sel = q.sel /\ req'.cands = {}
          /\ req'.client = q.client /\ req'.asked = q.asked /\ req'.refused = q.refused
      BY <3>1 DEF Request
    <3>. QED  BY <1>8, <3>2 DEF GateMoves
  <2>2. CASE ~ (q.attempt + 1 < MaxAttempts)
    BY <1>3, <1>8, <2>2 DEF NextAttempt, GiveUp
  <2>. QED  BY <2>1, <2>2
<1>9. CASE Deny
  <2>1. PICK c \in req.cands : NextAttempt(Selected(c))
    BY <1>9 DEF Deny
  <2>. QED  BY <1>7, <1>8, <2>1
<1>10. CASE Admit
  <2>1. PICK c \in req.cands : req' = [Selected(c) EXCEPT !.pc = "build"]
    BY <1>10 DEF Admit
  <2>2. /\ req'.pc = "build" /\ req'.sel = c /\ req'.cands = req.cands
        /\ req'.client = req.client /\ req'.asked = req.asked /\ req'.refused = req.refused
    BY <1>7, <2>1 DEF Request
  <2>. QED  BY <2>2 DEF GateMoves
<1>11. ASSUME NEW pc, req' = [req EXCEPT !.pc = pc], req.pc \in Preparing \cup Committed,
              pc \in Preparing => req.pc \in Preparing,
              pc \in Committed => resp'.received # <<>>
       PROVE  GateMoves
  <2>1. /\ req'.pc = pc /\ req'.sel = req.sel /\ req'.cands = req.cands
        /\ req'.client = req.client /\ req'.asked = req.asked /\ req'.refused = req.refused
    BY <1>0, <1>11 DEF Request
  <2>. QED  BY <1>11, <2>1 DEF GateMoves
<1>12. CASE Build \/ Address \/ Authorize
  BY <1>11, <1>12 DEF Build, Address, Authorize, At
<1>13. CASE DispatchFails
  BY <1>0, <1>3, <1>8, <1>13 DEF DispatchFails
<1>14. CASE Commit
  <2>1. resp'.received # <<>>
    BY <1>0, <1>14 DEF Commit, Response
  <2>. QED  BY <1>14, <2>1, OverMoves DEF Commit, GateMoves
<1>15. CASE WriteFirst
  <2>1. CASE req' = [req EXCEPT !.pc = "streaming"] /\ resp' = [resp EXCEPT !.tokens = TokensAfter(0, resp.received[1])]
    <3>1. resp'.received = resp.received
      BY <1>0, <2>1 DEF Response
    <3>2. resp.received # <<>>
      BY <1>15 DEF WriteFirst, At, Chosen
    <3>. QED  BY <1>11, <1>15, <2>1, <3>1, <3>2 DEF WriteFirst, At
  <2>2. CASE FinishStream(0)
    BY <1>3, <2>2 DEF FinishStream, Finish
  <2>. QED  BY <1>15, <2>1, <2>2 DEF WriteFirst
<1>16. CASE Event
  <2>1. PICK p \in Payloads :
          \/ req' = req /\ resp' = [resp EXCEPT !.received = Append(@, p), !.tokens = TokensAfter(@, p)]
          \/ req' = Over(req)
    BY <1>16 DEF Event
  <2>2. CASE req' = req /\ resp' = [resp EXCEPT !.received = Append(@, p), !.tokens = TokensAfter(@, p)]
    <3>1. resp'.received = Append(resp.received, p)
      BY <1>0, <2>2 DEF Response
    <3>2. resp'.received # <<>>
      BY <1>0, <3>1 DEF Response
    <3>. QED  BY <2>2, <3>2 DEF GateMoves
  <2>3. CASE req' = Over(req)
    BY <1>3, <2>3
  <2>. QED  BY <2>1, <2>2, <2>3
<1>17. CASE Answered \/ LastEvent \/ EndOfStream \/ StreamBreaks
  BY <1>3, <1>17 DEF Answered, LastEvent, EndOfStream, StreamBreaks, FinishStream, Finish
<1>18. CASE Return
  BY <1>18 DEF Return, Idle, GateMoves
<1>. QED  BY <1>2, <1>4, <1>5, <1>6, <1>9, <1>10, <1>12, <1>13, <1>14, <1>15, <1>16,
             <1>17, <1>18 DEF Next


LEMMA ChosenNext ==
    ASSUME Basics, [Next]_vars, Typed', GateMoves, Serving
    PROVE  Chosen'
<1>1. ASSUME NEW c \in req'.cands PROVE Current(c)'
  <2>1. c \in Candidate /\ Current(c)
    BY <1>1 DEF GateMoves, Basics, Chosen, Typed, Request
  <2>. QED  BY <2>1, StaysCurrent
<1>2. ASSUME req'.sel # None PROVE Current(req.sel)'
  <2>1. PICK c \in Candidate : c = req'.sel /\ Current(c)
    BY <1>2 DEF GateMoves, Basics, Chosen, Typed, Request
  <2>2. Current(c)'
    BY <2>1, StaysCurrent
  <2>. QED  BY <2>1, <2>2 DEF Current
<1>3. ASSUME Serves' PROVE req'.sel # None
  <2>1. Serves => req.sel # None
    BY DEF Basics, Chosen, Serves
  <2>2. None \notin req.cands
    BY Sizes DEF Basics, Typed, Request
  <2>. QED  BY <1>3, <2>1, <2>2 DEF Serving
<1>4. req'.pc \in Committed => resp'.received # <<>>
  BY DEF GateMoves
<1>. QED  BY <1>1, <1>2, <1>3, <1>4 DEF Chosen, Serves

LEMMA ScreenedNext ==
    ASSUME Basics, Screened, GateMoves
    PROVE  Screened'
<1>1. CASE req'.client = req.client /\ req'.asked = req.asked
  <2>1. \A u, e : Fits(u, e)' <=> Fits(u, e)
    BY <1>1 DEF Fits
  <2>2. \A c \in req'.cands : Fits(c.object[1], c.at)
    BY DEF GateMoves, Screened
  <2>3. \A p \in req'.refused : ~ Fits(p[1], p[2])
    BY DEF GateMoves, Screened
  <2>4. req'.pc \in Preparing => Fits(req'.sel.object[1], req'.sel.at)
    BY DEF GateMoves, Screened
  <2>. QED  BY <1>1, <2>1, <2>2, <2>3, <2>4 DEF Screened
<1>2. CASE /\ req'.client = req'.asked /\ req'.cands = {} /\ req'.refused = {}
           /\ req'.pc \notin Preparing
  BY <1>2 DEF Screened
<1>. QED  BY <1>1, <1>2 DEF GateMoves

(* Where the parts of the HTTP request are written.                        *)
OutMoves ==
    \/ req'.pc \notin Preparing \ {"build"}
    \/ req'.pc = req.pc /\ req'.sel = req.sel /\ req'.client = req.client /\ out' = out
    \/ Build \/ Address \/ Authorize

LEMMA OutMovesAll ==
    ASSUME Basics, [Next]_vars PROVE OutMoves
<1>. USE DEF Basics, Preparing
<1>0. req \in Request /\ Typed
  BY DEF Typed
<1>1. CASE ((Reconfigure \/ ContextEnds) /\ UNCHANGED resp) \/ UNCHANGED vars
  BY <1>1 DEF OutMoves, Reconfigure, ContextEnds, vars, dvars
<1>2. ASSUME NEW q, req' \in {Over(q), [Over(q) EXCEPT !.pc = "first"]} PROVE OutMoves
  BY <1>2, OverMoves DEF OutMoves
<1>3. CASE NewRequest
  <2>1. PICK q \in ClientRequests :
          req' \in {Over(Idle), [Idle EXCEPT !.pc = "gate", !.client = q, !.asked = q,
                                 !.pool = regCfg.pool, !.todo = regCfg.pool]}
    BY <1>3, Zenon DEF NewRequest
  <2>2. req'.pc \in {"over", "gate"}
    BY <2>1 DEF Over, Idle
  <2>. QED  BY <2>2 DEF OutMoves
<1>4. ASSUME NEW u \in Upstreams, Examine(u) PROVE OutMoves
  <2>1. req'.pc = "gate"
    BY <1>0, <1>4 DEF Examine, At, Request
  <2>. QED  BY <2>1 DEF OutMoves
<1>5. ASSUME NEW q \in Request, NextAttempt(q) PROVE OutMoves
  BY <1>0, <1>5, NextAttemptMoves DEF OutMoves
<1>6. CASE Deny
  <2>1. PICK c \in req.cands : NextAttempt(Selected(c))
    BY <1>6 DEF Deny
  <2>2. Selected(c) \in Request
    BY <1>0, SelectedIsRequest DEF Selected, Request
  <2>. QED  BY <1>5, <2>1, <2>2
<1>7. CASE Admit
  <2>1. PICK c \in req.cands : req' = [Selected(c) EXCEPT !.pc = "build"]
    BY <1>7 DEF Admit
  <2>2. req'.pc = "build"
    BY <1>0, <2>1 DEF Selected, Request
  <2>. QED  BY <2>2 DEF OutMoves
<1>8. CASE NoUpstream \/ DispatchFails
  BY <1>0, <1>2, <1>5, <1>8 DEF NoUpstream, GiveUp, DispatchFails
<1>9. CASE Answered \/ Commit \/ LastEvent \/ EndOfStream \/ StreamBreaks
  BY <1>2, <1>9 DEF Answered, Commit, LastEvent, EndOfStream, StreamBreaks, FinishStream, Finish
<1>10. CASE WriteFirst
  <2>1. req' = [req EXCEPT !.pc = "streaming"] => req'.pc = "streaming"
    BY <1>0 DEF Request
  <2>2. CASE req' = [req EXCEPT !.pc = "streaming"]
    BY <2>1, <2>2 DEF OutMoves
  <2>3. CASE FinishStream(0)
    BY <1>2, <2>3 DEF FinishStream, Finish
  <2>. QED  BY <1>10, <2>2, <2>3 DEF WriteFirst
<1>11. CASE Event
  <2>1. (req' = req /\ req.pc = "streaming") \/ req' = Over(req)
    BY <1>11 DEF Event, Receive, At
  <2>. QED  BY <1>2, <2>1 DEF OutMoves
<1>12. CASE Return
  BY <1>12 DEF Return, Idle, OutMoves
<1>. QED  BY <1>1, <1>3, <1>4, <1>6, <1>7, <1>8, <1>9, <1>10, <1>11, <1>12 DEF Next, OutMoves

LEMMA PreparedNext ==
    ASSUME Basics, Aged, Dated, Built, [Next]_vars, Tracked', Typed', OutMoves
    PROVE  Aged' /\ Dated' /\ Built'
<1>0. req \in Request /\ out \in Outgoing
  BY DEF Basics, Typed
<1>1. CASE req'.pc \notin Preparing \ {"build"}
  BY <1>1 DEF Aged, Dated, Built, At, Preparing
<1>2. ASSUME req.pc \in Preparing
      PROVE  /\ CfgNow \in 0..MaxEdits /\ req.sel.at \in 0..MaxEdits /\ req.sel.at <= CfgNow
             /\ cfgOf'[req.sel.object] \in 0..MaxEdits /\ CfgNow <= cfgOf'[req.sel.object]
  <2>1. req.sel \in Candidate /\ Current(req.sel)
    BY <1>0, <1>2 DEF Basics, Chosen, Request
  <2>2. req.sel.object \in Object /\ req.sel.at \in 0..MaxEdits
    BY <2>1 DEF Candidate
  <2>3. /\ cfgOf[req.sel.object] # None
        /\ cfgOf'[req.sel.object] # None /\ cfgOf[req.sel.object] <= cfgOf'[req.sel.object]
    BY <2>1, <2>2, NewerObjects DEF Current
  <2>4. cfgOf[req.sel.object] \in 0..MaxEdits /\ cfgOf'[req.sel.object] \in 0..MaxEdits
    BY <2>2, <2>3 DEF Basics, Tracked
  <2>. QED  BY <2>1, <2>2, <2>3, <2>4 DEF CfgNow, Current
<1>3. CASE req'.pc = req.pc /\ req'.sel = req.sel /\ req'.client = req.client /\ out' = out
  <2>1. CASE req.pc \in Preparing
    <3>1. Dated'
      BY <1>3 DEF Dated
    <3>2. Built'
      BY <1>3 DEF Built, At, ConfigOf
    <3>3. CfgNow' = cfgOf'[req.sel.object]
      BY <1>3 DEF CfgNow
    <3>4. At("address") => out.bodyOf \in 0..MaxEdits
      BY DEF Dated, At, Preparing
    <3>5. At("authorize") => out.urlOf \in 0..MaxEdits
      BY DEF Dated, At
    <3>6. Aged'
      BY <1>2, <1>3, <2>1, <3>3, <3>4, <3>5, RegistryAssumption DEF Aged, At
    <3>. QED  BY <3>1, <3>2, <3>6
  <2>2. CASE req.pc \notin Preparing
    BY <1>3, <2>2 DEF Aged, Dated, Built, At, Preparing
  <2>. QED  BY <2>1, <2>2
<1>4. CASE Build
  <2>1. /\ req.pc \in Preparing /\ CfgNow' = CfgNow
        /\ req'.pc = "address" /\ req'.sel = req.sel /\ req'.client = req.client
        /\ out'.bodyOf = CfgNow
        /\ out'.body = BuildUpstreamRequest(req.client, ConfigOf(CfgNow))
    <3>1. req' = [req EXCEPT !.pc = "address"]
      BY <1>4 DEF Build
    <3>2. req'.pc = "address" /\ req'.sel = req.sel /\ req'.client = req.client
      BY <1>0, <3>1 DEF Request
    <3>3. /\ out'.bodyOf = CfgNow
          /\ out'.body = BuildUpstreamRequest(req.client, ConfigOf(CfgNow))
      BY <1>0, <1>4 DEF Build, Outgoing
    <3>. QED  BY <1>4, <3>2, <3>3 DEF Build, At, Preparing, CfgNow, regvars
  <2>2. Built'
    BY <2>1 DEF Built, ConfigOf
  <2>3. CfgNow <= CfgNow
    BY <1>2, <2>1
  <2>. QED  BY <1>2, <2>1, <2>2, <2>3 DEF Aged, Dated, At
<1>5. CASE Address
  <2>1. /\ req.pc = "address" /\ CfgNow' = CfgNow
        /\ req'.pc = "authorize" /\ req'.sel = req.sel
        /\ out'.bodyOf = out.bodyOf /\ out'.urlOf = CfgNow
    <3>1. req'.pc = "authorize" /\ req'.sel = req.sel
      BY <1>0, <1>5 DEF Address, Request
    <3>2. out'.bodyOf = out.bodyOf /\ out'.urlOf = CfgNow
      BY <1>0, <1>5 DEF Address, Outgoing
    <3>. QED  BY <1>5, <3>1, <3>2 DEF Address, At, CfgNow, regvars
  <2>2. CfgNow \in 0..MaxEdits /\ CfgNow <= CfgNow
    BY <1>2, <2>1 DEF Preparing
  <2>. QED  BY <2>1, <2>2 DEF Aged, Dated, Built, At, Preparing
<1>6. CASE Authorize
  <2>1. /\ req.pc = "authorize"
        /\ req'.pc = "sent" /\ req'.sel = req.sel
        /\ out'.bodyOf = out.bodyOf /\ out'.urlOf = out.urlOf /\ out'.keyOf = CfgNow
    <3>1. req'.pc = "sent" /\ req'.sel = req.sel
      BY <1>0, <1>6 DEF Authorize, Request
    <3>2. out'.bodyOf = out.bodyOf /\ out'.urlOf = out.urlOf /\ out'.keyOf = CfgNow
      BY <1>0, <1>6 DEF Authorize, Outgoing
    <3>. QED  BY <1>6, <3>1, <3>2 DEF Authorize, At
  <2>2. CfgNow \in 0..MaxEdits
    BY <1>2, <2>1 DEF Preparing
  <2>. QED  BY <2>1, <2>2 DEF Aged, Dated, Built, At, Preparing
<1>. QED  BY <1>1, <1>3, <1>4, <1>5, <1>6 DEF OutMoves

(* What the client has been sent, and what the stream has told, at each    *)
(* point of the handler.                                                   *)
Shape ==
    /\ req.pc \in Silent => log = <<>> /\ resp = NoResponse
    /\ At("first") => log = <<Open>>
    /\ At("streaming") => log # <<>> /\ ~ Promise!Ended

Source == IF req.sel = None THEN None ELSE req.sel.object

LEMMA SourceIs ==
    ASSUME NEW c \in Candidate \cup {None}
    PROVE  LET o == IF c = None THEN None ELSE c.object
           IN  o \in Object \cup {None} /\ (c # None <=> o # None)
  BY Sizes DEF Candidate

LEMMA Refusing ==
    ASSUME log = <<>>, NEW s, log' = <<Fatal(s)>>, Source' \in Object \cup {None}
    PROVE  Promise!Next
<1>1. Promise!Refuse(Fatal(s))
  BY DEF Promise!Refuse, Promise!Kind, Fatal, Source
<1>2. Fatal(s) \in Promise!ToSet(log')
  BY DEF Promise!ToSet
<1>. QED  BY <1>1, <1>2 DEF Promise!Next

LEMMA Answering ==
    ASSUME log = <<>>, NEW x, log' = <<x>>, x[1] \in {"body", "open"},
           Source # None, Source' = Source
    PROVE  Promise!Next
<1>1. Promise!Answer(x)
  BY DEF Promise!Answer, Promise!Kind, Source
<1>2. x \in Promise!ToSet(log')
  BY DEF Promise!ToSet
<1>. QED  BY <1>1, <1>2 DEF Promise!Next

LEMMA Forwarding ==
    ASSUME log \in Seq(Message), log # <<>>, ~ Promise!Ended, NEW x \in Message,
           log' = Append(log, x), x[1] \in {"data", "done"}, Source' = Source
    PROVE  Promise!Next
<1>1. Promise!Forward(x)
  BY DEF Promise!Forward, Promise!Kind, Source
<1>2. x \in Promise!ToSet(log')
  BY DEF Promise!ToSet
<1>. QED  BY <1>1, <1>2 DEF Promise!Next

LEMMA Trying ==
    ASSUME log = <<>>, log' = <<>>, Source' \in Object \/ Source' = Source
    PROVE  [Promise!Next]_(Promise!rvars)
<1>1. CASE Source' \in Object
  BY <1>1 DEF Promise!Next, Promise!Attempt, Source
<1>2. CASE Source' = Source
  BY <1>2 DEF Promise!rvars, Source
<1>. QED  BY <1>1, <1>2

LEMMA Stuttering ==
    ASSUME log' = log, Source' = Source
    PROVE  [Promise!Next]_(Promise!rvars)
  BY DEF Promise!rvars, Source

LEMMA Opened ==
    ASSUME log \in Seq(Message), log # <<>>, NEW x \in Message, log' = Append(log, x),
           x[1] = "data" \/ (log = <<Open>> /\ x[1] = "done")
    PROVE  log' # <<>> /\ ~ Promise!Ended'
<1>1. Len(log') = Len(log) + 1 /\ Last(log') = x /\ Len(log) \in Nat
  BY DEF Last
<1>2. log = <<Open>> => Len(log) = 1
  OBVIOUS
<1>. QED  BY <1>1, <1>2 DEF Promise!Ended, Promise!Kind, Promise!Last, Last

LEMMA LogNext ==
    ASSUME Basics, Shape, [Next]_vars, Typed'
    PROVE  Shape' /\ [Promise!Next]_(Promise!rvars)
<1>. USE DEF Basics, Silent, Preparing, Committed
<1>0. /\ req \in Request /\ Typed /\ log \in Seq(Message)
      /\ Source \in Object \cup {None} /\ (req.sel # None <=> Source # None)
      /\ Source' \in Object \cup {None} /\ (req'.sel # None <=> Source' # None)
  <2>1. /\ req \in Request /\ Typed /\ log \in Seq(Message)
        /\ req.sel \in Candidate \cup {None} /\ req'.sel \in Candidate \cup {None}
    BY DEF Typed, Request
  <2>2. Source \in Object \cup {None} /\ (req.sel # None <=> Source # None)
    BY <2>1, SourceIs DEF Source
  <2>3. Source' \in Object \cup {None} /\ (req'.sel # None <=> Source' # None)
    BY <2>1, SourceIs DEF Source
  <2>. QED  BY <2>1, <2>2, <2>3
<1>1. req'.sel = req.sel => Source' = Source
  BY DEF Source
<1>2. Serves => Source # None
  BY <1>0 DEF Serves, Chosen
<1>3. CASE ((Reconfigure \/ ContextEnds) /\ UNCHANGED resp) \/ UNCHANGED vars
  <2>1. req' = req /\ log' = log /\ resp' = resp
    BY <1>3 DEF Reconfigure, ContextEnds, vars, dvars
  <2>2. Shape'
    BY <2>1 DEF Shape, At, Promise!Ended
  <2>. QED  BY <1>1, <2>1, <2>2, Stuttering
<1>4. ASSUME NewRequest, UNCHANGED resp PROVE Shape' /\ [Promise!Next]_(Promise!rvars)
  <2>1. PICK q \in ClientRequests :
          LET name == StringAt(q, "model")
              accepted == name = PublicModel /\ Readable(q)
          IN  /\ req' = IF ~ accepted THEN Over(Idle)
                        ELSE [Idle EXCEPT !.pc = "gate", !.client = q, !.asked = q,
                                 !.pool = regCfg.pool, !.todo = regCfg.pool]
              /\ log' = CASE accepted -> <<>>
                          [] name \notin {"", PublicModel} -> <<Fatal("404")>>
                          [] OTHER -> <<Fatal("400")>>
    BY <1>4 DEF NewRequest
  <2>2. log = <<>> /\ resp = NoResponse
    BY <1>4 DEF NewRequest, At, Shape
  <2>3. CASE req' = Over(Idle) /\ log' \in {<<Fatal("404")>>, <<Fatal("400")>>}
    <3>1. req'.pc = "over"
      BY <2>3, OverFields
    <3>. QED  BY <1>0, <2>2, <2>3, <3>1, Refusing DEF Shape, At
  <2>4. CASE /\ req' = [Idle EXCEPT !.pc = "gate", !.client = q, !.asked = q,
                                 !.pool = regCfg.pool, !.todo = regCfg.pool]
             /\ log' = <<>>
    <3>1. req'.pc = "gate" /\ req'.sel = None
      BY <2>4 DEF Idle
    <3>2. Promise!Reset
      BY <2>4, <3>1 DEF Promise!Reset
    <3>. QED  BY <1>4, <2>2, <2>4, <3>1, <3>2 DEF Shape, At, Promise!Next
  <2>. QED  BY <2>1, <2>3, <2>4, Zenon
<1>5. ASSUME NEW u \in Upstreams, Examine(u), UNCHANGED resp
      PROVE  Shape' /\ [Promise!Next]_(Promise!rvars)
  <2>1. req'.pc = "gate" /\ req'.sel = req.sel
    BY <1>0, <1>5 DEF Examine, At, Request
  <2>2. log' = log /\ log = <<>> /\ resp' = NoResponse
    BY <1>5 DEF Examine, At, Shape
  <2>. QED  BY <1>1, <2>1, <2>2, Stuttering DEF Shape, At
<1>6. ASSUME NEW q \in Request, NextAttempt(q), UNCHANGED resp, req.pc \in Silent,
             Source' = Source \/ q.sel # None
      PROVE  Shape' /\ [Promise!Next]_(Promise!rvars)
  <2>1. /\ req'.pc \in {"gate", "over"} /\ req'.sel = q.sel
        /\ req'.pc = "gate" => log' = log
        /\ log' = log \/ \E s \in {"502", "504"} : log' = Append(log, Fatal(s))
    BY <1>0, <1>6, NextAttemptMoves
  <2>2. log = <<>> /\ resp' = NoResponse
    BY <1>6 DEF Shape
  <2>3. Shape'
    BY <2>1, <2>2 DEF Shape, At
  <2>4. CASE log' = log
    <3>1. Source' \in Object \/ Source' = Source
      BY <1>0, <1>6, <2>1
    <3>2. log = <<>> /\ log' = <<>>
      BY <2>2, <2>4
    <3>. QED  BY <2>3, <3>1, <3>2, Trying
  <2>5. ASSUME NEW s, log' = Append(log, Fatal(s)) PROVE Promise!Next
    <3>1. log' = <<Fatal(s)>>
      BY <2>2, <2>5
    <3>. QED  BY <1>0, <2>2, <3>1, Refusing
  <2>. QED  BY <2>1, <2>3, <2>4, <2>5
<1>7. ASSUME NoUpstream, UNCHANGED resp PROVE Shape' /\ [Promise!Next]_(Promise!rvars)
  <2>1. req' = Over(req)
    BY <1>7 DEF NoUpstream, GiveUp
  <2>2. log = <<>>
    BY <1>7 DEF NoUpstream, Gated, At, Shape
  <2>3. log' = log \/ \E s \in {"400", "502", "504"} : log' = Append(log, Fatal(s))
    BY <1>0, <1>7 DEF NoUpstream, GiveUp, Typed
  <2>4. req'.pc = "over" /\ req'.sel = req.sel
    BY <2>1, OverFields
  <2>5. ASSUME NEW s, log' = Append(log, Fatal(s)) PROVE Promise!Next
    <3>1. log' = <<Fatal(s)>>
      BY <2>2, <2>5
    <3>. QED  BY <1>0, <2>2, <3>1, Refusing
  <2>6. Shape'
    BY <2>4 DEF Shape, At
  <2>. QED  BY <1>1, <2>3, <2>4, <2>5, <2>6, Stuttering
<1>8. ASSUME NEW c \in req.cands
      PROVE  Selected(c) \in Request /\ Selected(c).sel = c /\ c # None
  <2>1. c \in Candidate
    BY <1>0, <1>8 DEF Request
  <2>2. Selected(c) \in Request
    BY <1>0, <2>1, SelectedIsRequest DEF Selected
  <2>. QED  BY <1>0, <2>1, <2>2, Sizes DEF Selected, Request
<1>9. ASSUME Deny, UNCHANGED resp PROVE Shape' /\ [Promise!Next]_(Promise!rvars)
  <2>1. PICK c \in req.cands : NextAttempt(Selected(c))
    BY <1>9 DEF Deny
  <2>2. req.pc \in Silent
    BY <1>9 DEF Deny, Gated, At
  <2>. QED  BY <1>6, <1>8, <1>9, <2>1, <2>2
<1>10. ASSUME Admit, UNCHANGED resp PROVE Shape' /\ [Promise!Next]_(Promise!rvars)
  <2>1. PICK c \in req.cands : req' = [Selected(c) EXCEPT !.pc = "build"]
    BY <1>10 DEF Admit
  <2>2. req'.pc = "build" /\ req'.sel = c
    BY <1>8, <2>1 DEF Request
  <2>3. log = <<>> /\ log' = log /\ resp' = NoResponse
    BY <1>10 DEF Admit, Gated, At, Shape
  <2>4. Shape'
    BY <2>2, <2>3 DEF Shape, At
  <2>. QED  BY <1>0, <1>8, <2>2, <2>3, <2>4, Trying
<1>11. ASSUME Build \/ Address \/ Authorize, UNCHANGED resp
       PROVE  Shape' /\ [Promise!Next]_(Promise!rvars)
  <2>1. req'.pc \in Preparing /\ req'.sel = req.sel
    BY <1>0, <1>11 DEF Build, Address, Authorize, Request
  <2>2. log = <<>> /\ log' = log /\ resp' = NoResponse
    BY <1>11 DEF Build, Address, Authorize, At, Shape
  <2>. QED  BY <1>1, <2>1, <2>2, Stuttering DEF Shape, At
<1>12. ASSUME DispatchFails, UNCHANGED resp PROVE Shape' /\ [Promise!Next]_(Promise!rvars)
  <2>1. req.pc \in Silent /\ Serves
    BY <1>12 DEF DispatchFails, At, Serves
  <2>2. CASE NextAttempt(req)
    BY <1>0, <1>2, <1>6, <1>12, <2>1, <2>2
  <2>3. CASE req' = Over(req) /\ UNCHANGED log
    <3>1. req'.pc = "over" /\ req'.sel = req.sel
      BY <2>3, OverFields
    <3>. QED  BY <1>1, <2>3, <3>1, Stuttering DEF Shape, At
  <2>. QED  BY <1>12, <2>2, <2>3 DEF DispatchFails
<1>13. ASSUME req' = Over(req) PROVE Shape' /\ Source' = Source
  <2>1. req'.pc = "over" /\ req'.sel = req.sel
    BY <1>13, OverFields
  <2>. QED  BY <1>1, <2>1 DEF Shape, At
<1>14. CASE Answered
  <2>1. PICK p \in Payloads : log' = <<Answer(p)>> /\ Answer(p)[1] = "body"
    BY <1>14 DEF Answered, Answer
  <2>2. log = <<>> /\ Serves /\ req' = Over(req)
    BY <1>14 DEF Answered, At, Shape, Serves
  <2>. QED  BY <1>2, <1>13, <2>1, <2>2, Answering
<1>15. CASE Commit
  <2>1. log' = <<Open>> /\ Open[1] = "open"
    BY <1>15 DEF Commit, Open
  <2>2. log = <<>> /\ Serves /\ req' = [Over(req) EXCEPT !.pc = "first"]
    BY <1>15 DEF Commit, At, Shape, Serves
  <2>3. req'.pc = "first" /\ req'.sel = req.sel
    BY <1>0, <2>2, OverFields, OverIsRequest DEF Request
  <2>4. Shape'
    BY <2>1, <2>3 DEF Shape, At
  <2>. QED  BY <1>1, <1>2, <2>1, <2>2, <2>3, <2>4, Answering
<1>16. ASSUME NEW p \in Payloads, Kind(p) # "bad"
       PROVE  /\ Image(p) \in Message
              /\ Image(p)[1] = "data" \/ (p = Done /\ Image(p)[1] = "done")
  BY <1>16, Events
<1>17. ~ (<<Open>> = <<>>) /\ (log = <<Open>> => ~ Promise!Ended)
  <2>1. log = <<Open>> => Len(log) = 1 /\ Promise!Last(log) = Open
    BY DEF Promise!Last
  <2>. QED  BY <2>1 DEF Promise!Ended, Promise!Kind, Open
<1>18. CASE WriteFirst
  <2>1. log = <<Open>> /\ At("first") /\ Serves
    BY <1>18 DEF WriteFirst, At, Shape, Serves
  <2>2. PICK p \in Payloads : p = resp.received[1]
    BY <1>0, <1>18 DEF WriteFirst, At, Chosen, Typed, Response
  <2>3. CASE log' = Written(p) /\ req' = [req EXCEPT !.pc = "streaming"]
    <3>1. req'.pc = "streaming" /\ req'.sel = req.sel
      BY <1>0, <2>3 DEF Request
    <3>2. CASE log' = log
      <4>1. Shape'
        BY <1>17, <2>1, <3>1, <3>2 DEF Shape, At, Promise!Ended
      <4>. QED  BY <1>1, <3>1, <3>2, <4>1, Stuttering
    <3>3. CASE Kind(p) # "bad" /\ log' = Append(log, Image(p))
      <4>1. log' # <<>> /\ ~ Promise!Ended'
        BY <1>0, <1>16, <1>17, <2>1, <3>3, Opened
      <4>2. Shape'
        BY <3>1, <4>1 DEF Shape, At
      <4>. QED  BY <1>0, <1>1, <1>16, <1>17, <2>1, <3>1, <3>3, <4>2, Forwarding
    <3>. QED  BY <2>3, <3>2, <3>3 DEF Written
  <2>4. CASE FinishStream(0) /\ UNCHANGED log
    BY <1>13, <2>4, Stuttering DEF FinishStream, Finish
  <2>. QED  BY <1>18, <2>2, <2>3, <2>4 DEF WriteFirst
<1>19. ASSUME At("streaming") PROVE log # <<>> /\ ~ Promise!Ended
  BY <1>19 DEF Shape
<1>20. CASE Event
  <2>1. PICK p \in Payloads \ {Done} :
            (log' = Written(p) /\ UNCHANGED req) \/ (log' = log /\ req' = Over(req))
    BY <1>20 DEF Event
  <2>2. At("streaming")
    BY <1>20 DEF Event, Receive
  <2>3. CASE log' = log /\ req' = req
    <3>1. Shape'
      BY <2>2, <2>3 DEF Shape, At, Promise!Ended
    <3>. QED  BY <1>1, <2>3, <3>1, Stuttering
  <2>4. CASE Kind(p) # "bad" /\ log' = Append(log, Image(p)) /\ req' = req
    <3>1. log' # <<>> /\ ~ Promise!Ended'
      BY <1>0, <1>16, <1>19, <2>2, <2>4, Opened
    <3>2. Shape'
      BY <2>2, <2>4, <3>1 DEF Shape, At
    <3>. QED  BY <1>0, <1>1, <1>16, <1>19, <2>2, <2>4, <3>2, Forwarding
  <2>5. CASE log' = log /\ req' = Over(req)
    BY <1>13, <2>5, Stuttering
  <2>. QED  BY <2>1, <2>3, <2>4, <2>5 DEF Written
<1>21. CASE LastEvent
  <2>1. At("streaming") /\ req' = Over(req)
    BY <1>21 DEF LastEvent, FinishStream, Finish
  <2>2. CASE log' = log
    BY <1>13, <2>1, <2>2, Stuttering
  <2>3. CASE log' = Append(log, Done)
    <3>1. Done \in Message /\ Done[1] = "done"
      BY DEF Message, Done
    <3>. QED  BY <1>0, <1>13, <1>19, <2>1, <2>3, <3>1, Forwarding
  <2>. QED  BY <1>21, <2>2, <2>3 DEF LastEvent
<1>22. CASE EndOfStream
  BY <1>13, <1>22, Stuttering DEF EndOfStream, FinishStream, Finish
<1>23. CASE StreamBreaks
  <2>1. At("streaming") /\ req' = Over(req)
    BY <1>23 DEF StreamBreaks, FinishStream, Finish
  <2>2. CASE log' = log
    BY <1>13, <2>1, <2>2, Stuttering
  <2>3. CASE log' = log \o <<Error, Done>>
    <3>1. log' = log \o << <<"error">>, <<"done">> >>
      BY <2>3 DEF Error, Done
    <3>2. Promise!Fail
      BY <1>13, <1>19, <2>1, <3>1 DEF Promise!Fail, Source
    <3>. QED  BY <1>13, <2>1, <3>2 DEF Promise!Next
  <2>. QED  BY <1>23, <2>2, <2>3 DEF StreamBreaks
<1>24. CASE Return
  <2>1. req'.pc = "idle" /\ req'.sel = None /\ log' = <<>> /\ resp' = NoResponse
    BY <1>24 DEF Return, Idle
  <2>2. Promise!Reset
    BY <2>1 DEF Promise!Reset
  <2>. QED  BY <2>1, <2>2 DEF Shape, At, Promise!Next
<1>. QED  BY <1>3, <1>4, <1>5, <1>7, <1>9, <1>10, <1>11, <1>12, <1>14, <1>15, <1>18, <1>20,
             <1>21, <1>22, <1>23, <1>24 DEF Next

(* The last usage that the events s tell is t.                             *)
Tellers(s) == {i \in DOMAIN s : Tells(s[i])}

LastTold(s, t) ==
    IF Tellers(s) = {} THEN t = 0
    ELSE \E i \in Tellers(s) : t = ToldBy(s[i]) /\ \A j \in Tellers(s) : j <= i

LEMMA FirstTold ==
    ASSUME NEW p \in Payloads
    PROVE  LastTold(<<p>>, TokensAfter(0, p))
<1>1. CASE Tells(p)
  <2>1. Tellers(<<p>>) = {1} /\ <<p>>[1] = p
    BY <1>1 DEF Tellers
  <2>. QED  BY <1>1, <2>1 DEF LastTold, TokensAfter
<1>2. CASE ~ Tells(p)
  <2>1. Tellers(<<p>>) = {}
    BY <1>2 DEF Tellers
  <2>. QED  BY <1>2, <2>1 DEF LastTold, TokensAfter
<1>. QED  BY <1>1, <1>2

LEMMA NextTold ==
    ASSUME NEW s \in Seq(Payloads), NEW p \in Payloads, NEW t, LastTold(s, t)
    PROVE  LastTold(Append(s, p), TokensAfter(t, p))
<1>. DEFINE n == Len(s) + 1
            z == Append(s, p)
<1>1. /\ n \in Nat /\ n \in 1..n /\ n <= n /\ DOMAIN z = 1..n /\ z[n] = p
      /\ \A i \in DOMAIN s : i \in 1..n /\ i # n /\ i <= n /\ z[i] = s[i]
      /\ \A i \in DOMAIN z : i = n \/ i \in DOMAIN s
  OBVIOUS
<1>. HIDE DEF z, n
<1>2. CASE Tells(p)
  <2>1. n \in Tellers(z) /\ \A j \in Tellers(z) : j <= n
    BY <1>1, <1>2 DEF Tellers
  <2>. QED  BY <1>1, <1>2, <2>1 DEF LastTold, TokensAfter, z
<1>3. CASE ~ Tells(p)
  <2>1. Tellers(z) = Tellers(s) /\ \A i \in Tellers(s) : z[i] = s[i]
    BY <1>1, <1>3 DEF Tellers
  <2>. QED  BY <1>3, <2>1 DEF LastTold, TokensAfter, z
<1>. QED  BY <1>2, <1>3

Counted ==
    /\ At("first") => Len(resp.received) = 1
    /\ At("streaming") =>
          /\ LastTold(resp.received, resp.tokens)
          /\ log = <<Open>> /\ Len(resp.received) = 1 => resp.tokens = 0
    /\ TokensTold

LEMMA CountedNext ==
    ASSUME Basics, Shape, Counted, [Next]_vars, Typed', GateMoves
    PROVE  Counted'
<1>. USE DEF Basics, Silent, Preparing, Committed
<1>0. /\ req \in Request /\ resp \in Response /\ log \in Seq(Message)
      /\ resp.received \in Seq(Payloads) /\ resp.tokens \in Int
      /\ req'.pc \in Silent \cup Committed \cup {"over"}
  BY DEF Typed, Response, Request
<1>1. ASSUME req'.pc \in Silent PROVE Counted'
  BY <1>1 DEF Counted, At, TokensTold
<1>2. ASSUME req'.pc = "over", Told(resp.applied)', resp'.applied \in Int,
             resp'.applied >= 0 => resp'.recorded = resp'.applied
      PROVE  Counted'
  BY <1>2 DEF Counted, At, TokensTold
<1>3. ASSUME req.pc \in Silent, resp' = resp PROVE Counted'
  <2>1. resp' = NoResponse
    BY <1>3 DEF Shape
  <2>2. Telling' = {}
    BY <2>1 DEF Telling, NoResponse
  <2>3. /\ Told(resp.applied)' /\ resp'.applied \in Int
        /\ resp'.recorded = resp'.applied /\ resp'.received = <<>>
    BY <2>1, <2>2 DEF Told, NoResponse
  <2>4. req'.pc \notin Committed
    BY <2>3 DEF GateMoves
  <2>. QED  BY <1>0, <1>1, <1>2, <2>3, <2>4
<1>4. CASE ((Reconfigure \/ ContextEnds) /\ UNCHANGED resp) \/ UNCHANGED vars
  <2>1. req' = req /\ log' = log /\ resp' = resp
    BY <1>4 DEF Reconfigure, ContextEnds, vars, dvars
  <2>. QED  BY <2>1 DEF Counted, At, TokensTold, Told, Telling
<1>5. ASSUME NewRequest \/ NoUpstream \/ Deny \/ Admit \/ (\E u \in Upstreams : Examine(u))
             \/ Build \/ Address \/ Authorize \/ DispatchFails,
             UNCHANGED resp
      PROVE  Counted'
  <2>1. req.pc \in Silent
    BY <1>5 DEF NewRequest, NoUpstream, Deny, Admit, Examine, Build, Address, Authorize,
                DispatchFails, Gated, At
  <2>. QED  BY <1>3, <1>5, <2>1
<1>6. ASSUME NEW t \in Int, FinishStream(t),
             \/ LastTold(resp.received, t) /\ ~ (log' = <<Open>> /\ Len(resp.received) = 1)
             \/ t = 0 /\ log' = <<Open>> /\ Len(resp.received) = 1
      PROVE  Counted'
  <2>1. /\ resp'.received = resp.received /\ resp'.applied = t
        /\ resp'.recorded = IF t > 0 THEN t ELSE 0
    BY <1>0, <1>6 DEF FinishStream, Finish, Response
  <2>2. req'.pc = "over"
    BY <1>6, OverMoves DEF FinishStream, Finish
  <2>3. Telling' = Tellers(resp.received)
    BY <2>1 DEF Telling, Tellers
  <2>4. Told(resp.applied)'
    BY <1>6, <2>1, <2>3 DEF Told, LastTold
  <2>5. resp'.applied >= 0 => resp'.recorded = resp'.applied
    BY <2>1
  <2>. QED  BY <1>2, <2>1, <2>2, <2>4, <2>5
<1>7. \A p \in Payloads : TokensAfter(0, p) \in Int /\ \A t \in Int : TokensAfter(t, p) \in Int
  BY TokensInt
<1>8. Open # Done /\ Open[1] = "open" /\ \A x : <<x>> = <<Open>> => x = Open
  BY DEF Open, Done
<1>9. CASE Answered
  <2>1. PICK p \in Payloads :
          LET t == TokensAfter(0, p) IN
          /\ log' = <<Answer(p)>>
          /\ resp' = [received |-> <<p>>, tokens |-> 0, recorded |-> t, applied |-> t]
    BY <1>9 DEF Answered, Answer
  <2>2. req'.pc = "over"
    BY <1>9, OverMoves DEF Answered
  <2>3. Answer(p) # Open
    BY <1>8 DEF Answer
  <2>4. log' # <<Open>>
    BY <1>8, <2>1, <2>3
  <2>5. Telling' = Tellers(<<p>>)
    BY <2>1 DEF Telling, Tellers
  <2>6. Told(resp.applied)'
    BY <2>1, <2>4, <2>5, FirstTold DEF Told, LastTold
  <2>. QED  BY <1>2, <1>7, <2>1, <2>2, <2>6
<1>10. CASE Commit
  <2>1. PICK p \in Payloads : resp' = [resp EXCEPT !.received = <<p>>]
    BY <1>10 DEF Commit
  <2>2. resp'.received = <<p>>
    BY <1>0, <2>1 DEF Response
  <2>3. req'.pc = "first"
    BY <1>0, <1>10, OverIsRequest DEF Commit, Request
  <2>. QED  BY <2>2, <2>3 DEF Counted, At, TokensTold
<1>11. CASE WriteFirst
  <2>1. PICK p \in Payloads : p = resp.received[1] /\ resp.received = <<p>>
    BY <1>0, <1>11 DEF WriteFirst, At, Counted
  <2>2. log = <<Open>>
    BY <1>11 DEF WriteFirst, Shape
  <2>3. CASE /\ log' = Written(p)
             /\ resp' = [resp EXCEPT !.tokens = TokensAfter(0, p)]
             /\ req' = [req EXCEPT !.pc = "streaming"]
    <3>1. req'.pc = "streaming"
      BY <1>0, <2>3 DEF Request
    <3>2. resp'.received = <<p>> /\ resp'.tokens = TokensAfter(0, p)
      BY <1>0, <2>1, <2>3 DEF Response
    <3>3. log' = <<Open>> => Kind(p) = "bad"
      <4>1. Append(<<Open>>, Image(p)) # <<Open>>
        OBVIOUS
      <4>. QED  BY <2>2, <2>3, <4>1 DEF Written
    <3>4. Kind(p) = "bad" => TokensAfter(0, p) = 0
      BY DEF TokensAfter, Tells
    <3>5. LastTold(<<p>>, TokensAfter(0, p))
      BY FirstTold
    <3>. QED  BY <3>1, <3>2, <3>3, <3>4, <3>5 DEF Counted, At, TokensTold
  <2>4. CASE FinishStream(0) /\ UNCHANGED log
    <3>1. Len(resp.received) = 1 /\ 0 \in Int
      BY <2>1
    <3>. QED  BY <1>6, <2>2, <2>4, <3>1
  <2>. QED  BY <1>11, <2>1, <2>3, <2>4 DEF WriteFirst
<1>12. ASSUME At("streaming")
       PROVE  /\ LastTold(resp.received, resp.tokens)
              /\ log = <<Open>> /\ Len(resp.received) = 1 => resp.tokens = 0
              /\ log # <<>> /\ resp.received # <<>>
  BY <1>12 DEF Counted, Shape, Chosen, At
<1>13. CASE Event
  <2>1. PICK p \in Payloads :
          LET seen == [resp EXCEPT !.received = Append(@, p), !.tokens = TokensAfter(@, p)]
          IN  \/ log' = Written(p) /\ resp' = seen /\ UNCHANGED req
              \/ /\ req' = Over(req)
                 /\ resp' = [seen EXCEPT !.tokens = 0, !.applied = seen.tokens,
                                !.recorded = IF seen.tokens > 0 THEN seen.tokens ELSE 0]
    BY <1>13 DEF Event
  <2>. DEFINE s == Append(resp.received, p)
              t == TokensAfter(resp.tokens, p)
              seen == [resp EXCEPT !.received = s, !.tokens = t]
  <2>2. At("streaming")
    BY <1>13 DEF Event, Receive
  <2>3. LastTold(s, t) /\ t \in Int
    BY <1>0, <1>7, <1>12, <2>2, NextTold
  <2>4. s \in Seq(Payloads) /\ Len(s) # 1
    BY <1>0, <1>12, <2>2
  <2>5. seen \in Response /\ seen.received = s /\ seen.tokens = t
    <3>. HIDE DEF s, t
    <3>1. seen \in Response
      BY <1>0, <2>3, <2>4, ResponseParts
    <3>. QED  BY <1>0, <3>1 DEF Response
  <2>. HIDE DEF s, t, seen
  <2>6. CASE resp' = seen /\ UNCHANGED req
    BY <2>2, <2>3, <2>4, <2>5, <2>6 DEF Counted, At, TokensTold
  <2>7. CASE /\ req' = Over(req)
             /\ resp' = [seen EXCEPT !.tokens = 0, !.applied = seen.tokens,
                             !.recorded = IF seen.tokens > 0 THEN seen.tokens ELSE 0]
    <3>1. /\ resp'.received = s /\ resp'.applied = t
          /\ resp'.recorded = IF t > 0 THEN t ELSE 0
      BY <2>5, <2>7 DEF Response
    <3>2. req'.pc = "over"
      BY <2>7, OverMoves
    <3>3. Telling' = Tellers(s)
      BY <3>1 DEF Telling, Tellers
    <3>4. Told(resp.applied)'
      BY <2>3, <2>4, <3>1, <3>3 DEF Told, LastTold
    <3>5. resp'.applied \in Int /\ (resp'.applied >= 0 => resp'.recorded = resp'.applied)
      BY <2>3, <3>1
    <3>. QED  BY <1>2, <3>2, <3>4, <3>5
  <2>. QED  BY <2>1, <2>6, <2>7 DEF seen, s, t
<1>14. ASSUME FinishStream(resp.tokens), At("streaming"), log' = <<Open>> => log' = log
       PROVE  Counted'
  BY <1>0, <1>6, <1>12, <1>14
<1>16. CASE LastEvent
  <2>1. log' = <<Open>> => log' = log
    <3>1. Done \in Message
      BY DEF Message
    <3>2. log # <<>> => Append(log, Done) # <<Open>>
      BY <1>0, <3>1
    <3>. QED  BY <1>12, <1>16, <3>2 DEF LastEvent
  <2>. QED  BY <1>14, <1>16, <2>1 DEF LastEvent
<1>17. CASE EndOfStream
  BY <1>14, <1>17 DEF EndOfStream
<1>18. CASE StreamBreaks
  <2>1. log' = <<Open>> => log' = log
    <3>1. <<Error, Done>> \in Seq(Message) /\ Len(<<Error, Done>>) = 2
      BY DEF Message
    <3>2. Len(log \o <<Error, Done>>) = Len(log) + 2 /\ Len(log) \in Nat
      BY <1>0, <3>1
    <3>3. Len(log \o <<Error, Done>>) # Len(<<Open>>)
      <4>1. Len(<<Open>>) = 1
        OBVIOUS
      <4>. QED  BY <3>2, <4>1
    <3>4. log \o <<Error, Done>> # <<Open>>
      BY <3>3, Zenon
    <3>. QED  BY <1>18, <3>4 DEF StreamBreaks
  <2>. QED  BY <1>14, <1>18, <2>1 DEF StreamBreaks
<1>19. CASE Return
  BY <1>1, <1>19 DEF Return, Idle
<1>. QED  BY <1>4, <1>5, <1>9, <1>10, <1>11, <1>13, <1>16, <1>17, <1>18, <1>19 DEF Next

----------------------------------------------------------------------------
(* Ordered maps: the folds of the strip list and of KeepOnly.  No object   *)
(* loses its well-formedness, or the order of the keys it keeps.           *)

(* One step of KeepOnly, and with nothing allowed one of the strip list.   *)
Dropped(o, allow, k) == IF k \in allow THEN o ELSE Delete(o, k)

Drops(iter, m, keys, allow, n) ==
    iter = [s \in SUBSET (1..n) |->
               IF s = {} THEN m
               ELSE Dropped(iter[s \ {Max(s)}], allow, keys[Max(s)])]

LEMMA DropsEmpty ==
    ASSUME NEW iter, NEW m, NEW keys, NEW allow, NEW n, Drops(iter, m, keys, allow, n)
    PROVE  iter[{}] = m
  BY DEF Drops

LEMMA DropsStep ==
    ASSUME NEW iter, NEW m, NEW keys, NEW allow, NEW n, Drops(iter, m, keys, allow, n),
           NEW s \in SUBSET (1..n), s # {}
    PROVE  iter[s] = Dropped(iter[s \ {Max(s)}], allow, keys[Max(s)])
  BY Zenon DEF Drops

LEMMA DropsExtend ==
    ASSUME NEW iter, NEW m, NEW keys, NEW allow, NEW n \in Nat,
           Drops(iter, m, keys, allow, n)
    PROVE  \E j : Drops(j, m, keys, allow, n + 1)
<1>. DEFINE step(s) == Dropped(iter[s \ {Max(s)}], allow, keys[Max(s)])
            j == [s \in SUBSET (1..n + 1) |->
                     IF s = {} THEN m ELSE step(s)]
            j2 == [s \in SUBSET (1..n + 1) |->
                      IF s = {} THEN m
                      ELSE Dropped(j[s \ {Max(s)}], allow, keys[Max(s)])]
<1>2. ASSUME NEW s \in SUBSET (1..n) PROVE j[s] = iter[s]
  <2>1. s \in SUBSET (1..n + 1)
    OBVIOUS
  <2>2. CASE s = {}
    <3>1. iter[{}] = m
      BY DropsEmpty
    <3>2. j[s] = m
      BY <2>1, <2>2, Zenon
    <3>. QED  BY <2>2, <3>1, <3>2, Zenon
  <2>3. CASE s # {}
    <3>1. iter[s] = step(s)
      BY <2>3, Zenon DEF Drops
    <3>. QED  BY <2>1, <2>3, <3>1
  <2>. QED  BY <2>2, <2>3
<1>3. ASSUME NEW s \in SUBSET (1..n + 1) PROVE j[s \ {Max(s)}] = iter[s \ {Max(s)}]
  BY <1>2, WithoutMax
<1>4. j = j2
  BY <1>3, Zenon
<1>. QED  BY <1>4, Zenon DEF Drops

LEMMA DropsExist ==
    ASSUME NEW m, NEW keys, NEW allow
    PROVE  \A n \in Nat : \E iter : Drops(iter, m, keys, allow, n)
<1>. DEFINE Good == {n \in Nat : \E iter : Drops(iter, m, keys, allow, n)}
<1>1. 0 \in Good
  <2>. DEFINE iter == [s \in SUBSET (1..0) |-> m]
  <2>1. \A s \in SUBSET (1..0) : s = {}
    OBVIOUS
  <2>2. iter = [s \in SUBSET (1..0) |->
                   IF s = {} THEN m
                   ELSE Dropped(iter[s \ {Max(s)}], allow, keys[Max(s)])]
    BY <2>1, Zenon
  <2>. HIDE DEF iter
  <2>3. Drops(iter, m, keys, allow, 0)
    BY <2>2, Zenon DEF Drops
  <2>. QED  BY <2>3
<1>2. \A n \in Nat : n \in Good => n + 1 \in Good
  BY DropsExtend
<1>3. Nat \subseteq Good
  <2>. HIDE DEF Good
  <2>. QED  BY <1>1, <1>2, NatSetInduction
<1>. QED  BY <1>3

(* h[i] is what is left after i keys.                                      *)
Run(h, m, keys, allow, n) ==
    /\ h[0] = m
    /\ \A i \in 0..n - 1 : h[i + 1] = Dropped(h[i], allow, keys[i + 1])

LEMMA DropsRun ==
    ASSUME NEW m, NEW keys, NEW allow, NEW n \in Nat, NEW iter, Drops(iter, m, keys, allow, n)
    PROVE  \E h : Run(h, m, keys, allow, n) /\ h[n] = iter[1..n]
<1>. DEFINE h == [i \in 0..n |-> iter[1..i]]
<1>1. h[0] = m
  <2>1. (1..0) = {} /\ 0 \in 0..n
    OBVIOUS
  <2>. QED  BY <2>1, DropsEmpty
<1>2. ASSUME NEW i \in 0..n - 1 PROVE h[i + 1] = Dropped(h[i], allow, keys[i + 1])
  <2>1. i \in Nat /\ i + 1 \in 0..n /\ i \in 0..n
    OBVIOUS
  <2>2. PICK s \in SUBSET (1..n) : s = 1..i + 1
    BY <2>1
  <2>3. s # {} /\ Max(s) = i + 1 /\ s \ {i + 1} = 1..i
    BY <2>1, <2>2, Prefix
  <2>4. iter[s] = Dropped(iter[s \ {Max(s)}], allow, keys[Max(s)])
    BY <2>3, DropsStep
  <2>5. iter[s] = Dropped(iter[1..i], allow, keys[i + 1])
    BY <2>3, <2>4, Zenon
  <2>. QED  BY <2>1, <2>2, <2>5
<1>3. h[n] = iter[1..n]
  OBVIOUS
<1>4. Run(h, m, keys, allow, n)
  BY <1>1, <1>2, Zenon DEF Run
<1>. QED  BY <1>3, <1>4, Zenon

LEMMA StripDrops ==
    ASSUME NEW m, NEW S, NEW s \in Seq(S)
    PROVE  \E iter : Drops(iter, m, s, {}, Len(s)) /\ FoldLeft(Delete, m, s) = iter[1..Len(s)]
<1>. DEFINE P(iter) == iter = [t \in SUBSET (DOMAIN s) |->
                                  IF t = {} THEN m ELSE Delete(iter[t \ {Max(t)}], s[Max(t)])]
<1>1. DOMAIN s = 1..Len(s) /\ Len(s) \in Nat
  OBVIOUS
<1>2. FoldLeft(Delete, m, s) = (CHOOSE iter : P(iter))[DOMAIN s]
  BY Zenon DEF FoldLeft, MapThenFoldSet
<1>3. \A iter : Drops(iter, m, s, {}, Len(s)) <=> P(iter)
  BY <1>1 DEF Drops, Dropped
<1>4. \E iter : P(iter)
  BY <1>1, <1>3, DropsExist
<1>. HIDE DEF P
<1>5. P(CHOOSE iter : P(iter))
  BY <1>4, Zenon
<1>. QED  BY <1>1, <1>2, <1>3, <1>5, Zenon

LEMMA KeepOnlyDrops ==
    ASSUME NEW m, NEW allow, NEW S, m.keys \in Seq(S)
    PROVE  \E iter : /\ Drops(iter, m, m.keys, allow, Len(m.keys))
                     /\ KeepOnly(m, allow) = iter[1..Len(m.keys)]
<1>. DEFINE P(iter) == iter = [t \in SUBSET (DOMAIN m.keys) |->
                IF t = {} THEN m ELSE Dropped(iter[t \ {Max(t)}], allow, m.keys[Max(t)])]
<1>1. DOMAIN m.keys = 1..Len(m.keys) /\ Len(m.keys) \in Nat
  OBVIOUS
<1>2. KeepOnly(m, allow) = (CHOOSE iter : P(iter))[DOMAIN m.keys]
  BY Zenon DEF KeepOnly, FoldLeft, MapThenFoldSet, Dropped
<1>3. \A iter : Drops(iter, m, m.keys, allow, Len(m.keys)) <=> P(iter)
  BY <1>1 DEF Drops
<1>4. \E iter : P(iter)
  BY <1>1, <1>3, DropsExist
<1>. HIDE DEF P
<1>5. P(CHOOSE iter : P(iter))
  BY <1>4, Zenon
<1>. QED  BY <1>1, <1>2, <1>3, <1>5, Zenon

LEMMA RemoveFirstIs ==
    ASSUME NEW T, NEW s \in Seq(T), IsInjective(s), NEW i \in 1..Len(s)
    PROVE  /\ RemoveFirst(s, s[i]) \in Seq(T)
           /\ Len(RemoveFirst(s, s[i])) = Len(s) - 1
           /\ \A j \in 1..Len(s) - 1 :
                 RemoveFirst(s, s[i])[j] = IF j < i THEN s[j] ELSE s[j + 1]
<1>1. {j \in 1..Len(s) : s[j] = s[i]} = {i}
  BY DEF IsInjective
<1>2. SelectInSeq(s, LAMBDA v : v = s[i]) = i
  <2>1. \A x \in {i} : (\A y \in {i} : x =< y) <=> x = i
    OBVIOUS
  <2>2. Min({i}) = i
    BY <2>1 DEF Min
  <2>. QED  BY <1>1, <2>2 DEF SelectInSeq
<1>3. RemoveFirst(s, s[i]) = SubSeq(s, 1, i - 1) \o SubSeq(s, i + 1, Len(s))
  BY <1>2, Zenon DEF RemoveFirst, RemoveAt
<1>. DEFINE a == SubSeq(s, 1, i - 1)
            b == SubSeq(s, i + 1, Len(s))
<1>4. /\ a \in Seq(T) /\ Len(a) = i - 1
      /\ \A j \in 1..i - 1 : a[j] = s[j]
  OBVIOUS
<1>5. /\ b \in Seq(T) /\ Len(b) = Len(s) - i
      /\ \A j \in 1..Len(s) - i : b[j] = s[i + j]
  OBVIOUS
<1>. HIDE DEF a, b
<1>6. /\ a \o b \in Seq(T) /\ Len(a \o b) = Len(a) + Len(b)
      /\ \A j \in 1..Len(a) + Len(b) :
            (a \o b)[j] = IF j <= Len(a) THEN a[j] ELSE b[j - Len(a)]
  <2>1. a \in Seq(T) /\ b \in Seq(T)
    BY <1>4, <1>5
  <2>. QED  BY <2>1
<1>7. /\ Len(s) \in Nat /\ Len(a \o b) = Len(s) - 1
      /\ \A j \in 1..Len(s) - 1 :
            (a \o b)[j] = IF j <= i - 1 THEN a[j] ELSE b[j - (i - 1)]
  BY <1>4, <1>5, <1>6
<1>8. ASSUME NEW j \in 1..Len(s) - 1
      PROVE  (a \o b)[j] = IF j < i THEN s[j] ELSE s[j + 1]
  <2>1. CASE j < i
    BY <1>4, <1>7, <2>1
  <2>2. CASE ~ (j < i)
    <3>1. j - (i - 1) \in 1..Len(s) - i /\ i + (j - (i - 1)) = j + 1
      BY <1>7, <2>2
    <3>2. b[j - (i - 1)] = s[j + 1]
      BY <1>5, <3>1
    <3>. QED  BY <1>7, <2>2, <3>2
  <2>. QED  BY <2>1, <2>2
<1>. QED  BY <1>3, <1>6, <1>7, <1>8 DEF a, b

(* r is s without its i-th element.                                        *)
Without(r, s, i) ==
    /\ Len(r) = Len(s) - 1
    /\ \A j \in 1..Len(s) - 1 : r[j] = IF j < i THEN s[j] ELSE s[j + 1]

LEMMA DeleteKeys ==
    ASSUME NEW m, WellFormed(m), NEW k, Has(m, k)
    PROVE  /\ Delete(m, k).keys \in Seq(DOMAIN m.vals \ {k})
           /\ \E i \in 1..Len(m.keys) :
                 m.keys[i] = k /\ Without(Delete(m, k).keys, m.keys, i)
<1>. DEFINE s == m.keys
            T == DOMAIN m.vals
            r == RemoveFirst(s, k)
<1>1. s \in Seq(T) /\ ToSet(s) = T /\ IsInjective(s) /\ k \in T
  BY DEF WellFormed, Has
<1>2. Delete(m, k).keys = r
  BY DEF Delete
<1>. HIDE DEF s, T
<1>3. PICK i \in 1..Len(s) : s[i] = k
  BY <1>1 DEF ToSet
<1>4. /\ r \in Seq(T) /\ Len(r) = Len(s) - 1
      /\ \A j \in 1..Len(s) - 1 : r[j] = IF j < i THEN s[j] ELSE s[j + 1]
  BY <1>1, <1>3, RemoveFirstIs
<1>. HIDE DEF r
<1>5. \A j \in 1..Len(r) : r[j] \in T \ {k}
  BY <1>1, <1>3, <1>4 DEF IsInjective
<1>6. r \in Seq(T \ {k})
  BY <1>4, <1>5
<1>7. Without(r, s, i)
  BY <1>4 DEF Without
<1>. QED  BY <1>2, <1>3, <1>6, <1>7 DEF s, T

(* r has the keys of m outside of K as m has them, and in their order.     *)
SameOutside(m, r, K) ==
    /\ DOMAIN r.vals \ K = DOMAIN m.vals \ K
    /\ \A k \in DOMAIN m.vals \ K : r.vals[k] = m.vals[k]
    /\ \A k, l \in DOMAIN m.vals \ K : Before(r, k, l) <=> Before(m, k, l)

LEMMA SameTrans ==
    ASSUME NEW a, NEW b, NEW c, NEW K, SameOutside(a, b, K), SameOutside(b, c, K)
    PROVE  SameOutside(a, c, K)
  BY DEF SameOutside

LEMMA SameMore ==
    ASSUME NEW a, NEW b, NEW K, NEW L, SameOutside(a, b, K), K \subseteq L
    PROVE  SameOutside(a, b, L)
  BY DEF SameOutside

LEMMA SameRefl == \A a, K : SameOutside(a, a, K)
  BY DEF SameOutside

LEMMA DeleteWell ==
    ASSUME NEW m, WellFormed(m), NEW k
    PROVE  /\ WellFormed(Delete(m, k))
           /\ DOMAIN Delete(m, k).vals = DOMAIN m.vals \ {k}
           /\ SameOutside(m, Delete(m, k), {k})
<1>1. CASE ~ Has(m, k)
  <2>1. Delete(m, k) = m
    BY <1>1 DEF Delete
  <2>2. DOMAIN m.vals \ {k} = DOMAIN m.vals
    BY <1>1 DEF Has
  <2>. QED  BY <2>1, <2>2, SameRefl
<1>2. CASE Has(m, k)
  <2>. DEFINE r == Delete(m, k)
              n == Len(m.keys)
  <2>1. /\ DOMAIN r.vals = DOMAIN m.vals \ {k}
        /\ \A x \in DOMAIN m.vals \ {k} : r.vals[x] = m.vals[x]
    BY <1>2 DEF Delete, Restrict
  <2>2. PICK i \in 1..n :
          /\ m.keys[i] = k
          /\ r.keys \in Seq(DOMAIN m.vals \ {k})
          /\ Len(r.keys) = n - 1
          /\ \A j \in 1..n - 1 : r.keys[j] = IF j < i THEN m.keys[j] ELSE m.keys[j + 1]
    <3>1. /\ r.keys \in Seq(DOMAIN m.vals \ {k})
          /\ \E i \in 1..n : m.keys[i] = k /\ Without(r.keys, m.keys, i)
      BY <1>2, DeleteKeys, Zenon
    <3>. HIDE DEF r
    <3>. QED  BY <3>1, Zenon DEF Without
  <2>3. /\ m.keys \in Seq(DOMAIN m.vals) /\ ToSet(m.keys) = DOMAIN m.vals
        /\ n \in Nat /\ DOMAIN m.keys = 1..n
        /\ \A a, b \in 1..n : m.keys[a] = m.keys[b] => a = b
    BY DEF WellFormed, IsInjective
  <2>. HIDE DEF r, n
  <2>4. DOMAIN r.keys = 1..n - 1
    BY <2>2, <2>3
  <2>shift. \A a \in 1..n - 1 : \E c \in 1..n :
           ((a < i /\ c = a) \/ (~ (a < i) /\ c = a + 1)) /\ m.keys[c] = r.keys[a]
    <3>. SUFFICES ASSUME NEW a \in 1..n - 1
                  PROVE  \E c \in 1..n : /\ (a < i /\ c = a) \/ (~ (a < i) /\ c = a + 1)
                                         /\ m.keys[c] = r.keys[a]
      OBVIOUS
    <3>1. a \in 1..n /\ a + 1 \in 1..n
      BY <2>3
    <3>2. r.keys[a] = IF a < i THEN m.keys[a] ELSE m.keys[a + 1]
      BY <2>2
    <3>. QED  BY <3>1, <3>2
  <2>5. \A x \in DOMAIN m.vals \ {k} : \E j \in 1..n - 1 : r.keys[j] = x
    <3>. SUFFICES ASSUME NEW x \in DOMAIN m.vals \ {k}
                  PROVE  \E j \in 1..n - 1 : r.keys[j] = x
      OBVIOUS
    <3>1. PICK a \in 1..n : m.keys[a] = x
      BY <2>3 DEF ToSet
    <3>2. a # i
      BY <2>2, <3>1
    <3>3. CASE a < i
      <4>1. a \in 1..n - 1
        BY <2>3, <3>3
      <4>. QED  BY <2>2, <3>1, <3>3, <4>1
    <3>4. CASE a > i
      <4>1. a - 1 \in 1..n - 1 /\ ~ (a - 1 < i) /\ (a - 1) + 1 = a
        BY <2>3, <3>4
      <4>. QED  BY <2>2, <3>1, <4>1
    <3>. QED  BY <3>2, <3>3, <3>4, <2>3
  <2>6. \A j \in 1..n - 1 : r.keys[j] \in DOMAIN m.vals \ {k}
    BY <2>2, <2>4
  <2>7. ToSet(r.keys) = DOMAIN m.vals \ {k}
    BY <2>4, <2>5, <2>6 DEF ToSet
  <2>8. ASSUME NEW a \in 1..n - 1, NEW b \in 1..n - 1, r.keys[a] = r.keys[b]
        PROVE  a = b
    <3>1. PICK c \in 1..n :
            ((a < i /\ c = a) \/ (~ (a < i) /\ c = a + 1)) /\ m.keys[c] = r.keys[a]
      BY <2>shift
    <3>2. PICK d \in 1..n :
            ((b < i /\ d = b) \/ (~ (b < i) /\ d = b + 1)) /\ m.keys[d] = r.keys[b]
      BY <2>shift
    <3>3. c = d
      BY <2>3, <2>8, <3>1, <3>2
    <3>. QED  BY <2>2, <3>1, <3>2, <3>3
  <2>9. WellFormed(r)
    BY <2>1, <2>2, <2>4, <2>7, <2>8 DEF WellFormed, IsInjective
  <2>10. ASSUME NEW x \in DOMAIN m.vals \ {k}, NEW y \in DOMAIN m.vals \ {k}
         PROVE  Before(r, x, y) <=> Before(m, x, y)
    <3>1. ASSUME Before(r, x, y) PROVE Before(m, x, y)
      <4>1. PICK a, b \in 1..n - 1 : a < b /\ r.keys[a] = x /\ r.keys[b] = y
        BY <2>4, <3>1 DEF Before
      <4>2. PICK c \in 1..n :
              ((a < i /\ c = a) \/ (~ (a < i) /\ c = a + 1)) /\ m.keys[c] = x
        BY <2>shift, <4>1
      <4>3. PICK d \in 1..n :
              ((b < i /\ d = b) \/ (~ (b < i) /\ d = b + 1)) /\ m.keys[d] = y
        BY <2>shift, <4>1
      <4>4. c < d
        BY <2>2, <4>1, <4>2, <4>3
      <4>. QED  BY <2>3, <4>2, <4>3, <4>4 DEF Before
    <3>2. ASSUME Before(m, x, y) PROVE Before(r, x, y)
      <4>1. PICK a, b \in 1..n : a < b /\ m.keys[a] = x /\ m.keys[b] = y
        BY <2>3, <3>2 DEF Before
      <4>2. a # i /\ b # i
        BY <2>2, <4>1
      <4>3. PICK c \in 1..n - 1 : c = (IF a < i THEN a ELSE a - 1) /\ r.keys[c] = x
        <5>1. PICK c \in 1..n - 1 : c = (IF a < i THEN a ELSE a - 1)
          BY <2>3, <4>2
        <5>2. r.keys[c] = m.keys[a]
          BY <2>2, <2>3, <4>2, <5>1
        <5>. QED  BY <4>1, <5>1, <5>2
      <4>4. PICK d \in 1..n - 1 : d = (IF b < i THEN b ELSE b - 1) /\ r.keys[d] = y
        <5>1. PICK d \in 1..n - 1 : d = (IF b < i THEN b ELSE b - 1)
          BY <2>3, <4>2
        <5>2. r.keys[d] = m.keys[b]
          BY <2>2, <2>3, <4>2, <5>1
        <5>. QED  BY <4>1, <5>1, <5>2
      <4>5. c < d
        BY <4>1, <4>2, <4>3, <4>4
      <4>. QED  BY <2>4, <4>3, <4>4, <4>5 DEF Before
    <3>. QED  BY <3>1, <3>2
  <2>11. SameOutside(m, r, {k})
    BY <2>1, <2>10 DEF SameOutside
  <2>. QED  BY <2>1, <2>9, <2>11 DEF r
<1>. QED  BY <1>1, <1>2

LEMMA PutGives ==
    ASSUME NEW m, NEW k, NEW v, NEW r, r = Put(m, k, v)
    PROVE  Val(r, k) = v
  BY DEF Put, Val

LEMMA PutWell ==
    ASSUME NEW m, WellFormed(m), NEW k, NEW v
    PROVE  /\ WellFormed(Put(m, k, v))
           /\ DOMAIN Put(m, k, v).vals = DOMAIN m.vals \cup {k}
           /\ SameOutside(m, Put(m, k, v), {k})
<1>. DEFINE r == Put(m, k, v)
            n == Len(m.keys)
<1>1. /\ DOMAIN r.vals = DOMAIN m.vals \cup {k} /\ r.vals[k] = v
      /\ \A x \in DOMAIN m.vals \ {k} : r.vals[x] = m.vals[x]
      /\ r.keys = IF Has(m, k) THEN m.keys ELSE Append(m.keys, k)
  BY DEF Put
<1>2. /\ m.keys \in Seq(DOMAIN m.vals) /\ ToSet(m.keys) = DOMAIN m.vals
      /\ n \in Nat /\ DOMAIN m.keys = 1..n
      /\ \A a, b \in 1..n : m.keys[a] = m.keys[b] => a = b
      /\ \A a \in 1..n : m.keys[a] \in DOMAIN m.vals
  BY DEF WellFormed, IsInjective
<1>. HIDE DEF r, n
<1>3. CASE Has(m, k)
  <2>1. r.keys = m.keys /\ DOMAIN r.vals = DOMAIN m.vals
    BY <1>1, <1>3 DEF Has
  <2>2. WellFormed(r)
    BY <2>1 DEF WellFormed
  <2>3. SameOutside(m, r, {k})
    BY <1>1, <2>1 DEF SameOutside, Before
  <2>. QED  BY <1>1, <2>2, <2>3 DEF r, Val
<1>4. CASE ~ Has(m, k)
  <2>. DEFINE T == DOMAIN m.vals
  <2>1. r.keys = Append(m.keys, k) /\ k \notin T
    BY <1>1, <1>4 DEF Has
  <2>2. /\ r.keys \in Seq(T \cup {k}) /\ DOMAIN r.keys = 1..n + 1
        /\ \A a \in 1..n : r.keys[a] = m.keys[a]
        /\ r.keys[n + 1] = k
        /\ \A a \in 1..n + 1 : r.keys[a] \in T \cup {k}
    <3>1. m.keys \in Seq(T \cup {k})
      BY <1>2
    <3>. QED  BY <1>2, <2>1, <3>1 DEF n
  <2>. HIDE DEF T
  <2>3. \A a \in 1..n : m.keys[a] # k
    BY <1>2, <2>1 DEF T
  <2>4. \A a, b \in 1..n + 1 : r.keys[a] = r.keys[b] => a = b
    <3>. SUFFICES ASSUME NEW a \in 1..n + 1, NEW b \in 1..n + 1, r.keys[a] = r.keys[b]
                  PROVE  a = b
      OBVIOUS
    <3>1. a \in 1..n \/ a = n + 1
      BY <1>2
    <3>2. b \in 1..n \/ b = n + 1
      BY <1>2
    <3>. QED  BY <1>2, <2>2, <2>3, <3>1, <3>2
  <2>5. ToSet(r.keys) = T \cup {k}
    <3>1. \A x \in T : \E a \in 1..n + 1 : r.keys[a] = x
      <4>1. \A x \in T : \E a \in 1..n : m.keys[a] = x
        BY <1>2 DEF ToSet, T
      <4>. QED  BY <1>2, <2>2, <4>1
    <3>2. \A a \in 1..n + 1 : r.keys[a] \in T \cup {k}
      BY <2>2
    <3>3. n + 1 \in 1..n + 1
      BY <1>2
    <3>. QED  BY <2>2, <3>1, <3>2, <3>3 DEF ToSet
  <2>6. WellFormed(r)
    BY <1>1, <2>2, <2>4, <2>5 DEF WellFormed, IsInjective, T
  <2>7. ASSUME NEW x \in T, NEW y \in T
        PROVE  Before(r, x, y) <=> Before(m, x, y)
    <3>1. ASSUME Before(r, x, y) PROVE Before(m, x, y)
      <4>1. PICK a, b \in 1..n + 1 : a < b /\ r.keys[a] = x /\ r.keys[b] = y
        BY <2>2, <3>1 DEF Before
      <4>2. a \in 1..n /\ b \in 1..n
        BY <1>2, <2>1, <2>2, <4>1
      <4>. QED  BY <1>2, <2>2, <4>1, <4>2 DEF Before
    <3>2. ASSUME Before(m, x, y) PROVE Before(r, x, y)
      <4>1. PICK a, b \in 1..n : a < b /\ m.keys[a] = x /\ m.keys[b] = y
        BY <1>2, <3>2 DEF Before
      <4>2. a \in 1..n + 1 /\ b \in 1..n + 1
        BY <1>2
      <4>. QED  BY <2>2, <4>1, <4>2 DEF Before
    <3>. QED  BY <3>1, <3>2
  <2>8. SameOutside(m, r, {k})
    BY <1>1, <2>1, <2>7 DEF SameOutside, T
  <2>. QED  BY <1>1, <2>6, <2>8 DEF r, Val
<1>. QED  BY <1>3, <1>4

(* r is m without some keys.                                               *)
Reduced(m, r, gone) ==
    /\ WellFormed(r)
    /\ DOMAIN r.vals = DOMAIN m.vals \ gone
    /\ SameOutside(m, r, gone)

LEMMA DroppedReduces ==
    ASSUME NEW m, NEW r, NEW gone, Reduced(m, r, gone), NEW allow, NEW k
    PROVE  Reduced(m, Dropped(r, allow, k), gone \cup ({k} \ allow))
<1>1. CASE k \in allow
  <2>1. gone \cup ({k} \ allow) = gone /\ Dropped(r, allow, k) = r
    BY <1>1 DEF Dropped
  <2>. QED  BY <2>1
<1>2. CASE k \notin allow
  <2>. DEFINE d == Delete(r, k)
              more == gone \cup {k}
  <2>1. gone \cup ({k} \ allow) = more /\ Dropped(r, allow, k) = d
    BY <1>2 DEF Dropped
  <2>2. /\ WellFormed(d) /\ DOMAIN d.vals = DOMAIN r.vals \ {k}
        /\ SameOutside(r, d, {k})
    BY DeleteWell DEF Reduced
  <2>3. SameOutside(m, r, gone) /\ DOMAIN r.vals = DOMAIN m.vals \ gone
    BY DEF Reduced
  <2>. HIDE DEF d
  <2>4. gone \subseteq more /\ {k} \subseteq more
    OBVIOUS
  <2>. HIDE DEF more
  <2>5. SameOutside(m, d, more)
    BY <2>2, <2>3, <2>4, SameMore, SameTrans
  <2>6. DOMAIN d.vals = DOMAIN m.vals \ more
    BY <2>2, <2>3 DEF more
  <2>. QED  BY <2>1, <2>2, <2>5, <2>6 DEF Reduced
<1>. QED  BY <1>1, <1>2

FirstKeys(keys, n) == {keys[i] : i \in 1..n}

LEMMA RunReduces ==
    ASSUME NEW m, WellFormed(m), NEW keys, NEW allow, NEW n \in Nat, NEW h,
           Run(h, m, keys, allow, n)
    PROVE  Reduced(m, h[n], FirstKeys(keys, n) \ allow)
<1>. DEFINE gone(i) == FirstKeys(keys, i) \ allow
            Good == {i \in Nat : i <= n => Reduced(m, h[i], gone(i))}
<1>1. 0 \in Good
  <2>1. gone(0) = {}
    BY DEF FirstKeys
  <2>2. Reduced(m, m, {})
    BY SameRefl DEF Reduced
  <2>. HIDE DEF gone
  <2>. QED  BY <2>1, <2>2 DEF Run
<1>2. ASSUME NEW i \in Nat, i \in Good PROVE i + 1 \in Good
  <2>0. CASE ~ (i + 1 <= n)
    <3>. HIDE DEF gone
    <3>. QED  BY <2>0
  <2>1. gone(i + 1) = gone(i) \cup ({keys[i + 1]} \ allow)
    <3>1. \A j : j \in 1..i + 1 <=> j \in 1..i \/ j = i + 1
      OBVIOUS
    <3>2. FirstKeys(keys, i + 1) = FirstKeys(keys, i) \cup {keys[i + 1]}
      BY <3>1, Zenon DEF FirstKeys
    <3>. QED  BY <3>2
  <2>2. CASE i + 1 <= n
    <3>. HIDE DEF gone
    <3>1. i <= n /\ i \in 0..n - 1
      BY <2>2
    <3>2. Reduced(m, h[i], gone(i))
      BY <1>2, <3>1
    <3>3. h[i + 1] = Dropped(h[i], allow, keys[i + 1])
      BY <3>1 DEF Run
    <3>4. Reduced(m, h[i + 1], gone(i + 1))
      BY <2>1, <3>2, <3>3, DroppedReduces
    <3>. QED  BY <3>4
  <2>. QED  BY <2>0, <2>2
<1>3. Nat \subseteq Good
  <2>. HIDE DEF Good
  <2>. QED  BY <1>1, <1>2, NatSetInduction
<1>4. n \in Good
  BY <1>3
<1>. HIDE DEF gone
<1>5. Reduced(m, h[n], gone(n))
  BY <1>4
<1>. QED  BY <1>5 DEF gone

(* What the strip list leaves.                                             *)
LEMMA StripReduces ==
    ASSUME NEW m, WellFormed(m), NEW S, NEW s \in Seq(S)
    PROVE  Reduced(m, FoldLeft(Delete, m, s), ToSet(s))
<1>. DEFINE f == FoldLeft(Delete, m, s)
            n == Len(s)
<1>1. n \in Nat /\ ToSet(s) = FirstKeys(s, n) \ {}
  BY DEF ToSet, FirstKeys
<1>2. PICK iter : Drops(iter, m, s, {}, n) /\ f = iter[1..n]
  BY StripDrops
<1>. HIDE DEF f, n
<1>3. PICK h : Run(h, m, s, {}, n) /\ h[n] = f
  BY <1>1, <1>2, DropsRun
<1>4. Reduced(m, h[n], FirstKeys(s, n) \ {})
  BY <1>1, <1>3, RunReduces
<1>5. Reduced(m, f, ToSet(s))
  BY <1>1, <1>3, <1>4, Zenon
<1>. QED  BY <1>5, Zenon DEF f

(* KeepOnly keeps what is allowed, and nothing else.                       *)
LEMMA KeepOnlyReduces ==
    ASSUME NEW m, WellFormed(m), NEW allow
    PROVE  Reduced(m, KeepOnly(m, allow), DOMAIN m.vals \ allow)
<1>. DEFINE f == KeepOnly(m, allow)
            s == m.keys
            n == Len(s)
<1>1. s \in Seq(DOMAIN m.vals) /\ ToSet(s) = DOMAIN m.vals
  BY DEF WellFormed
<1>2. n \in Nat /\ DOMAIN m.vals = FirstKeys(s, n)
  BY <1>1 DEF ToSet, FirstKeys
<1>3. PICK iter : Drops(iter, m, s, allow, n) /\ f = iter[1..n]
  BY <1>1, KeepOnlyDrops
<1>. HIDE DEF f, n, s
<1>4. PICK h : Run(h, m, s, allow, n) /\ h[n] = f
  BY <1>2, <1>3, DropsRun
<1>5. Reduced(m, h[n], FirstKeys(s, n) \ allow)
  BY <1>2, <1>4, RunReduces
<1>6. Reduced(m, f, DOMAIN m.vals \ allow)
  BY <1>2, <1>4, <1>5, Zenon
<1>. QED  BY <1>6, Zenon DEF f

----------------------------------------------------------------------------
(* The estimate of a request                                               *)

(* The cost of the parts of a message, and of the messages of a request.   *)
LEMMA MessageCostNat ==
    ASSUME NEW m \in ChatMessage
    PROVE  MessageCost(m) \in Nat
<1>. DEFINE s == m.parts
            Part == [type : STRING, chars : Nat]
            base == IF m.calls = "absent" THEN 2 ELSE 3
            w == [i \in 1..Len(s) |-> PartCost(s[i])]
            P(iter) == iter = [t \in SUBSET (DOMAIN s) |->
                          IF t = {} THEN base ELSE iter[t \ {Max(t)}] + PartCost(s[Max(t)])]
<1>1. /\ s \in Seq(Part)
      /\ DOMAIN s = 1..Len(s) /\ Len(s) \in Nat
  BY DEF ChatMessage
<1>2. base \in Nat
  OBVIOUS
<1>3. MessageCost(m) = (CHOOSE iter : P(iter))[DOMAIN s]
  BY Zenon DEF MessageCost, FoldLeft, MapThenFoldSet
<1>. HIDE DEF base, s
<1>4. \A i \in 1..Len(s) : w[i] \in Nat
  <2>. SUFFICES ASSUME NEW i \in 1..Len(s) PROVE PartCost(s[i]) \in Nat
    OBVIOUS
  <2>1. s[i] \in Part
    <3>. HIDE DEF Part
    <3>. QED  BY <1>1
  <2>2. PICK c \in Nat : c = s[i].chars
    BY <2>1
  <2>3. c \div 4 \in Nat
    OBVIOUS
  <2>. QED  BY <2>2, <2>3 DEF PartCost, charsPerToken, imageTokenEstimate, audioTokenEstimate
<1>5. \A iter : Adds(iter, base, w, Len(s)) <=> P(iter)
  <2>1. \A t \in SUBSET (1..Len(s)) : t # {} => w[Max(t)] = PartCost(s[Max(t)])
    <3>1. \A t \in SUBSET (1..Len(s)) : t # {} => Max(t) \in 1..Len(s)
      BY <1>1, MaxOfSome
    <3>. QED  BY <3>1
  <2>. HIDE DEF w
  <2>. QED  BY <1>1, <2>1 DEF Adds
<1>. HIDE DEF P, w
<1>6. \E iter : P(iter)
  BY <1>1, <1>5, AddsExist
<1>7. P(CHOOSE iter : P(iter))
  BY <1>6, Zenon
<1>8. Adds(CHOOSE iter : P(iter), base, w, Len(s))
  BY <1>5, <1>7, Zenon
<1>. QED  BY <1>1, <1>2, <1>3, <1>4, <1>8, AddsNat

LEMMA PromptNat ==
    ASSUME NEW msgs \in Seq(ChatMessage)
    PROVE  EstimatePromptTokens(msgs) \in Nat
<1>. DEFINE w == [i \in 1..Len(msgs) |-> MessageCost(msgs[i])]
            P(iter) == iter = [t \in SUBSET (DOMAIN msgs) |->
                          IF t = {} THEN 0 ELSE iter[t \ {Max(t)}] + MessageCost(msgs[Max(t)])]
<1>1. DOMAIN msgs = 1..Len(msgs) /\ Len(msgs) \in Nat
  OBVIOUS
<1>2. EstimatePromptTokens(msgs) = (CHOOSE iter : P(iter))[DOMAIN msgs]
  BY Zenon DEF EstimatePromptTokens, FoldLeft, MapThenFoldSet
<1>3. \A i \in 1..Len(msgs) : w[i] \in Nat
  BY MessageCostNat
<1>4. \A iter : Adds(iter, 0, w, Len(msgs)) <=> P(iter)
  <2>1. \A t \in SUBSET (1..Len(msgs)) : t # {} => w[Max(t)] = MessageCost(msgs[Max(t)])
    <3>1. \A t \in SUBSET (1..Len(msgs)) : t # {} => Max(t) \in 1..Len(msgs)
      BY <1>1, MaxOfSome
    <3>. QED  BY <3>1
  <2>. HIDE DEF w
  <2>. QED  BY <1>1, <2>1 DEF Adds
<1>. HIDE DEF P, w
<1>5. \E iter : P(iter)
  BY <1>1, <1>4, AddsExist
<1>6. P(CHOOSE iter : P(iter))
  BY <1>5, Zenon
<1>7. Adds(CHOOSE iter : P(iter), 0, w, Len(msgs))
  BY <1>4, <1>6, Zenon
<1>. QED  BY <1>1, <1>2, <1>3, <1>7, 0 \in Nat, AddsNat

(* Nothing precedes nothing: *)
LEMMA PromptEmpty == EstimatePromptTokens(<<>>) = 0
<1>. DEFINE P(iter) == iter = [t \in SUBSET (DOMAIN <<>>) |->
                          IF t = {} THEN 0 ELSE iter[t \ {Max(t)}] + MessageCost(<<>>[Max(t)])]
<1>1. EstimatePromptTokens(<<>>) = (CHOOSE iter : P(iter))[DOMAIN <<>>]
  BY Zenon DEF EstimatePromptTokens, FoldLeft, MapThenFoldSet
<1>2. DOMAIN <<>> = {}
  OBVIOUS
<1>3. P([t \in SUBSET (DOMAIN <<>>) |-> 0])
  <2>1. \A t \in SUBSET (DOMAIN <<>>) : t = {}
    BY <1>2
  <2>. QED  BY <2>1, Zenon
<1>. HIDE DEF P
<1>4. P(CHOOSE iter : P(iter))
  BY <1>3, Zenon
<1>. USE DEF P
<1>5. (CHOOSE iter : P(iter))[{}] = 0
  <2>1. {} \in SUBSET (DOMAIN <<>>)
    OBVIOUS
  <2>2. PICK i : i = CHOOSE iter : P(iter)
    OBVIOUS
  <2>3. P(i)
    BY <1>4, <2>2
  <2>. QED  BY <2>1, <2>2, <2>3
<1>. QED  BY <1>1, <1>2, <1>5, Zenon

----------------------------------------------------------------------------
(* The request for one upstream, quirk by quirk                            *)

Named(q, cfg) == Put(q, "model", Str(cfg.model))

Stripped(q, cfg) == FoldLeft(Delete, Named(q, cfg), cfg.strip)

Cooler(q, cfg) ==
    IF cfg.noTemperature THEN Delete(Stripped(q, cfg), "temperature") ELSE Stripped(q, cfg)

Plainer(q, cfg) ==
    IF cfg.noTopP THEN Delete(Cooler(q, cfg), "top_p") ELSE Cooler(q, cfg)

Renamed(q, cfg) ==
    IF cfg.completionKey THEN RenameLimit(Plainer(q, cfg)) ELSE Plainer(q, cfg)

Clamped(q, cfg) == ClampMaxTokens(Renamed(q, cfg), cfg)

LEMMA BuildIs ==
    ASSUME NEW q, NEW cfg
    PROVE  BuildUpstreamRequest(q, cfg) =
              IF cfg.stopAsString THEN NormalizeStop(Clamped(q, cfg)) ELSE Clamped(q, cfg)
  BY Zenon DEF BuildUpstreamRequest, Named, Stripped, Cooler, Plainer, Renamed, Clamped

Cut(cfg) ==
    ToSet(cfg.strip) \cup (IF cfg.noTemperature THEN {"temperature"} ELSE {})
                     \cup (IF cfg.noTopP THEN {"top_p"} ELSE {})

LEMMA DeleteReduces ==
    ASSUME NEW m, NEW r, NEW gone, Reduced(m, r, gone), NEW k
    PROVE  Reduced(m, Delete(r, k), gone \cup {k})
<1>1. Reduced(m, Dropped(r, {}, k), gone \cup ({k} \ {}))
  BY DroppedReduces
<1>2. {k} \ {} = {k} /\ Dropped(r, {}, k) = Delete(r, k)
  BY DEF Dropped
<1>. QED  BY <1>1, <1>2

LEMMA PlainerReduces ==
    ASSUME NEW q, WellFormed(q), NEW cfg, cfg.strip \in Seq(STRING)
    PROVE  Reduced(Named(q, cfg), Plainer(q, cfg), Cut(cfg))
<1>. DEFINE n == Named(q, cfg)
            A == ToSet(cfg.strip)
            B == A \cup (IF cfg.noTemperature THEN {"temperature"} ELSE {})
            C == B \cup (IF cfg.noTopP THEN {"top_p"} ELSE {})
<1>1. WellFormed(n)
  BY PutWell DEF Named
<1>. HIDE DEF n
<1>2. Reduced(n, Stripped(q, cfg), A)
  BY <1>1, StripReduces DEF Stripped, n
<1>. HIDE DEF A
<1>3. Reduced(n, Cooler(q, cfg), B)
  BY <1>2, DeleteReduces DEF Cooler
<1>. HIDE DEF B
<1>4. Reduced(n, Plainer(q, cfg), C)
  BY <1>3, DeleteReduces DEF Plainer
<1>5. C = Cut(cfg)
  BY Zenon DEF A, B, C, Cut
<1>. QED  BY <1>4, <1>5 DEF n

LEMMA PlainerIs ==
    ASSUME NEW q, WellFormed(q), NEW cfg, cfg.strip \in Seq(STRING)
    PROVE  /\ WellFormed(Plainer(q, cfg))
           /\ SameOutside(q, Plainer(q, cfg), {"model"} \cup Cut(cfg))
           /\ DOMAIN Plainer(q, cfg).vals = (DOMAIN q.vals \cup {"model"}) \ Cut(cfg)
           /\ Has(Plainer(q, cfg), "model") => Val(Plainer(q, cfg), "model") = Str(cfg.model)
<1>. DEFINE n == Named(q, cfg)
            p == Plainer(q, cfg)
            K == Cut(cfg)
            M == {"model"}
            L == M \cup K
<1>1. /\ SameOutside(q, n, M) /\ DOMAIN n.vals = DOMAIN q.vals \cup {"model"}
      /\ Val(n, "model") = Str(cfg.model)
  <2>. DEFINE v == Str(cfg.model)
  <2>0. n = Put(q, "model", v)
    BY DEF Named
  <2>1. PICK k : k = "model"
    OBVIOUS
  <2>. HIDE DEF n, v
  <2>2. n = Put(q, k, v)
    BY <2>0, <2>1
  <2>3. SameOutside(q, n, {k}) /\ DOMAIN n.vals = DOMAIN q.vals \cup {k}
    BY <2>2, PutWell
  <2>4. Val(n, k) = v
    BY <2>2, PutGives
  <2>5. {k} = {"model"}
    BY <2>1
  <2>6. SameOutside(q, n, {"model"}) /\ DOMAIN n.vals = DOMAIN q.vals \cup {"model"}
    BY <2>3, <2>5, Zenon
  <2>7. Val(n, "model") = Str(cfg.model)
    BY <2>1, <2>4 DEF v
  <2>. QED  BY <2>6, <2>7
<1>2. WellFormed(p) /\ DOMAIN p.vals = DOMAIN n.vals \ K /\ SameOutside(n, p, K)
  BY PlainerReduces DEF Reduced
<1>. HIDE DEF n, p, K, M
<1>3. M \subseteq L /\ K \subseteq L
  OBVIOUS
<1>. HIDE DEF L
<1>4. SameOutside(q, p, L)
  BY <1>1, <1>2, <1>3, SameMore, SameTrans
<1>5. Has(p, "model") => Val(p, "model") = Str(cfg.model)
  BY <1>1, <1>2 DEF Has, Val, SameOutside, M
<1>. QED  BY <1>1, <1>2, <1>4, <1>5, Zenon DEF p, K, L, M

Limits == {"max_tokens", "max_completion_tokens"}

(* Of m's output limits r has those that the upstream's parameter leaves.  *)
LEMMA RenameWell ==
    ASSUME NEW m, WellFormed(m), NEW r, r = RenameLimit(m)
    PROVE  /\ WellFormed(r)
           /\ SameOutside(m, r, Limits)
           /\ ~ Has(r, "max_tokens")
           /\ \A k \in Limits : Has(r, k) => \E l \in Limits : Has(m, l) /\ Val(r, k) = Val(m, l)
           /\ Has(r, "max_completion_tokens") =>
                 Has(m, "max_tokens") \/ Has(m, "max_completion_tokens")
<1>1. CASE ~ Has(m, "max_tokens")
  <2>1. r = m
    BY <1>1 DEF RenameLimit
  <2>. QED  BY <1>1, <2>1, SameRefl DEF Limits
<1>2. CASE Has(m, "max_tokens")
  <2>. DEFINE p == Put(m, "max_completion_tokens", Val(m, "max_tokens"))
              A == {"max_completion_tokens"}
              B == {"max_tokens"}
  <2>0. r = Delete(p, "max_tokens")
    BY <1>2 DEF RenameLimit
  <2>1. /\ WellFormed(p) /\ SameOutside(m, p, A)
        /\ DOMAIN p.vals = DOMAIN m.vals \cup A
        /\ Val(p, "max_completion_tokens") = Val(m, "max_tokens")
    <3>1. PICK k, v : k = "max_completion_tokens" /\ v = Val(m, "max_tokens")
      OBVIOUS
    <3>2. p = Put(m, k, v)
      BY <3>1
    <3>. HIDE DEF p
    <3>3. /\ WellFormed(p) /\ SameOutside(m, p, {k})
          /\ DOMAIN p.vals = DOMAIN m.vals \cup {k}
      BY <3>2, PutWell
    <3>4. Val(p, k) = v
      BY <3>2, PutGives
    <3>5. A = {k}
      BY <3>1
    <3>. HIDE DEF A
    <3>6. SameOutside(m, p, A) /\ DOMAIN p.vals = DOMAIN m.vals \cup A
      BY <3>3, <3>5, Zenon
    <3>7. Val(p, "max_completion_tokens") = Val(m, "max_tokens")
      BY <3>1, <3>4
    <3>. QED  BY <3>3, <3>6, <3>7
  <2>2. /\ WellFormed(r) /\ SameOutside(p, r, B)
        /\ DOMAIN r.vals = DOMAIN p.vals \ B
    <3>1. PICK k : k = "max_tokens"
      OBVIOUS
    <3>2. r = Delete(p, k)
      BY <2>0, <3>1
    <3>. HIDE DEF p
    <3>3. /\ WellFormed(r) /\ SameOutside(p, r, {k})
          /\ DOMAIN r.vals = DOMAIN p.vals \ {k}
      BY <2>1, <3>2, DeleteWell
    <3>4. B = {k}
      BY <3>1
    <3>. HIDE DEF B
    <3>5. SameOutside(p, r, B) /\ DOMAIN r.vals = DOMAIN p.vals \ B
      BY <3>3, <3>4, Zenon
    <3>. QED  BY <3>3, <3>5
  <2>. HIDE DEF p
  <2>3. A \subseteq Limits /\ B \subseteq Limits
    BY DEF Limits
  <2>4. SameOutside(m, r, Limits)
    <3>. HIDE DEF A, B
    <3>. QED  BY <2>1, <2>2, <2>3, SameMore, SameTrans
  <2>5. Val(r, "max_completion_tokens") = Val(m, "max_tokens")
    BY <2>1, <2>2 DEF SameOutside, Val
  <2>6. ~ Has(r, "max_tokens")
    BY <2>2 DEF Has
  <2>. QED  BY <1>2, <2>2, <2>4, <2>5, <2>6 DEF Val, Limits
<1>. QED  BY <1>1, <1>2

LEMMA ClampWell ==
    ASSUME NEW m, WellFormed(m), NEW cfg, cfg.maxOutput \in Nat \ {0},
           IntAt(m, LimitKey(cfg)) \in Int, NEW r, r = ClampMaxTokens(m, cfg)
    PROVE  /\ WellFormed(r)
           /\ SameOutside(m, r, Limits)
           /\ DOMAIN r.vals = DOMAIN m.vals
           /\ IntAt(r, LimitKey(cfg)) <= cfg.maxOutput
           /\ \A k \in Limits : Has(r, k) =>
                 \/ Val(r, k) = Val(m, k)
                 \/ /\ k = LimitKey(cfg) /\ Val(r, k) = Num(cfg.maxOutput)
                    /\ cfg.maxOutput < IntAt(m, k)
<1>. DEFINE key == LimitKey(cfg)
            max == cfg.maxOutput
<1>1. key \in Limits
  BY DEF LimitKey, Limits
<1>2. CASE ~ (IntAt(m, key) > max)
  <2>1. r = m
    BY <1>2 DEF ClampMaxTokens
  <2>. QED  BY <1>2, <2>1, SameRefl
<1>3. CASE IntAt(m, key) > max
  <2>. DEFINE K == {key}
              v == Num(max)
              d == Put(m, key, v)
  <2>1. r = d
    BY <1>3 DEF ClampMaxTokens
  <2>2. Has(m, key)
    BY <1>3 DEF IntAt
  <2>. HIDE DEF v, key
  <2>3. WellFormed(r) /\ SameOutside(m, r, K) /\ DOMAIN r.vals = DOMAIN m.vals \cup K
    <3>1. WellFormed(d) /\ SameOutside(m, d, K) /\ DOMAIN d.vals = DOMAIN m.vals \cup K
      BY PutWell
    <3>. HIDE DEF d
    <3>. QED  BY <2>1, <3>1
  <2>4. Val(r, key) = v
    <3>1. Val(d, key) = v
      BY PutGives
    <3>. HIDE DEF d
    <3>. QED  BY <2>1, <3>1
  <2>5. K \subseteq Limits /\ DOMAIN m.vals \cup K = DOMAIN m.vals
    BY <1>1, <2>2 DEF Has
  <2>6. SameOutside(m, r, Limits)
    <3>. HIDE DEF K
    <3>. QED  BY <2>3, <2>5, SameMore
  <2>7. ASSUME NEW k \in Limits, Has(r, k)
        PROVE  Val(r, k) = Val(m, k) \/ k = key
    <3>1. k \in DOMAIN m.vals
      BY <2>3, <2>5, <2>7 DEF Has
    <3>2. \A x \in DOMAIN m.vals \ K : r.vals[x] = m.vals[x]
      BY <2>3 DEF SameOutside
    <3>. QED  BY <3>1, <3>2 DEF Val
  <2>8. IntAt(r, key) = max
    <3>1. Has(r, key)
      BY <2>2, <2>3, <2>5 DEF Has
    <3>2. v[1] = "num" /\ v[2] = max
      BY DEF v, Num
    <3>3. IntAt(r, key) = v[2]
      BY <2>4, <3>1, <3>2, Zenon DEF IntAt, IsInt, IntOf, Kind
    <3>. QED  BY <3>2, <3>3
  <2>9. ASSUME NEW k \in Limits, Has(r, k)
        PROVE  \/ Val(r, k) = Val(m, k)
               \/ k = key /\ Val(r, k) = Num(max) /\ max < IntAt(m, k)
    BY <1>3, <2>4, <2>7, <2>9 DEF v
  <2>. QED  BY <2>3, <2>5, <2>6, <2>8, <2>9 DEF key
<1>. QED  BY <1>2, <1>3

LEMMA StopWell ==
    ASSUME NEW m, WellFormed(m), NEW r, r = NormalizeStop(m)
    PROVE  /\ WellFormed(r)
           /\ SameOutside(m, r, {"stop"})
           /\ DOMAIN r.vals \subseteq DOMAIN m.vals
           /\ Has(r, "stop") => Val(r, "stop") \notin {Null, List(<<>>)}
<1>. DEFINE v == Val(m, "stop")
            K == {"stop"}
            one == Str(Elems(v)[1])
            empty == Len(Elems(v)) = 0
            single == Len(Elems(v)) = 1
<1>0. Len(<<>>) = 0
  OBVIOUS
<1>1. v \in {Null, List(<<>>)} => IsList(v) /\ empty
  <2>1. v = Null => IsList(v) /\ Elems(v) = <<>>
    BY DEF Null, IsList, Elems, Kind
  <2>2. v = List(<<>>) => IsList(v) /\ Elems(v) = <<>>
    BY DEF List, IsList, Elems, Kind
  <2>. QED  BY <1>0, <2>1, <2>2
<1>2. CASE ~ Has(m, "stop") \/ ~ IsList(v)
  <2>1. r = m
    BY <1>2 DEF NormalizeStop
  <2>. QED  BY <1>1, <1>2, <2>1, SameRefl
<1>3. CASE Has(m, "stop") /\ IsList(v) /\ single
  <2>0. ~ empty
    BY <1>3
  <2>1. r = Put(m, "stop", one)
    BY <1>3, <2>0, Zenon DEF NormalizeStop
  <2>2. one \notin {Null, List(<<>>)}
    BY DEF Str, Null, List
  <2>3. PICK k : k = "stop"
    OBVIOUS
  <2>4. {k} = K
    BY <2>3
  <2>. HIDE DEF one, K
  <2>5. r = Put(m, k, one)
    BY <2>1, <2>3
  <2>6. WellFormed(r) /\ SameOutside(m, r, {k}) /\ DOMAIN r.vals = DOMAIN m.vals \cup {k}
    <3>1. LET w == Put(m, k, one)
          IN  /\ WellFormed(w) /\ SameOutside(m, w, {k})
              /\ DOMAIN w.vals = DOMAIN m.vals \cup {k}
      BY PutWell
    <3>. QED  BY <2>5, <3>1, Zenon
  <2>7. Val(r, k) = one
    BY <2>5, PutGives
  <2>8. SameOutside(m, r, K)
    BY <2>4, <2>6
  <2>9. DOMAIN r.vals \subseteq DOMAIN m.vals
    BY <1>3, <2>3, <2>6 DEF Has
  <2>. QED  BY <2>2, <2>3, <2>6, <2>7, <2>8, <2>9 DEF K
<1>4. CASE Has(m, "stop") /\ IsList(v) /\ ~ single /\ empty
  <2>1. r = Delete(m, "stop")
    BY <1>4, Zenon DEF NormalizeStop
  <2>3. PICK k : k = "stop"
    OBVIOUS
  <2>4. {k} = K
    BY <2>3
  <2>. HIDE DEF K
  <2>5. r = Delete(m, k)
    BY <2>1, <2>3
  <2>6. WellFormed(r) /\ SameOutside(m, r, {k}) /\ DOMAIN r.vals = DOMAIN m.vals \ {k}
    BY <2>5, DeleteWell
  <2>7. SameOutside(m, r, K)
    BY <2>4, <2>6
  <2>8. DOMAIN r.vals \subseteq DOMAIN m.vals /\ ~ Has(r, "stop")
    BY <2>3, <2>6 DEF Has
  <2>. QED  BY <2>6, <2>7, <2>8 DEF K
<1>5. CASE Has(m, "stop") /\ IsList(v) /\ ~ single /\ ~ empty
  <2>1. r = m
    BY <1>5, Zenon DEF NormalizeStop
  <2>. QED  BY <1>1, <1>5, <2>1, SameRefl
<1>. QED  BY <1>2, <1>3, <1>4, <1>5

(* The limits of r, a request adapted from q, are among those of q.        *)
LimitsFrom(q, r) ==
    \A k \in Limits : Has(r, k) => \E l \in Limits : Has(q, l) /\ Val(r, k) = Val(q, l)

LEMMA PlainerLimits ==
    ASSUME NEW q, WellFormed(q), NEW cfg, cfg.strip \in Seq(STRING)
    PROVE  \A k \in Limits : Has(Plainer(q, cfg), k) =>
              k \notin Cut(cfg) /\ Has(q, k) /\ Val(Plainer(q, cfg), k) = Val(q, k)
<1>. DEFINE p == Plainer(q, cfg)
            K == Cut(cfg)
<1>1. SameOutside(q, p, {"model"} \cup K) /\ DOMAIN p.vals = (DOMAIN q.vals \cup {"model"}) \ K
  BY PlainerIs, Zenon
<1>. HIDE DEF p, K
<1>2. \A k \in DOMAIN q.vals \ ({"model"} \cup K) : p.vals[k] = q.vals[k]
  BY <1>1, Zenon DEF SameOutside
<1>3. \A k \in Limits : k # "model"
  BY DEF Limits
<1>4. ASSUME NEW k \in Limits, Has(p, k)
      PROVE  k \notin K /\ Has(q, k) /\ Val(p, k) = Val(q, k)
  BY <1>1, <1>2, <1>3, <1>4 DEF Has, Val
<1>. QED  BY <1>4 DEF p, K

LEMMA RenamedIs ==
    ASSUME NEW q, WellFormed(q), NEW cfg, cfg.strip \in Seq(STRING)
    PROVE  /\ WellFormed(Renamed(q, cfg))
           /\ SameOutside(Plainer(q, cfg), Renamed(q, cfg), Limits)
           /\ LimitsFrom(q, Renamed(q, cfg))
           /\ cfg.completionKey => ~ Has(Renamed(q, cfg), "max_tokens")
           /\ Has(Renamed(q, cfg), "max_tokens") => "max_tokens" \notin Cut(cfg)
           /\ Has(Renamed(q, cfg), "max_completion_tokens") =>
                 \/ "max_completion_tokens" \notin Cut(cfg)
                 \/ cfg.completionKey /\ Has(q, "max_tokens")
<1>. DEFINE p == Plainer(q, cfg)
            r == Renamed(q, cfg)
            K == Cut(cfg)
<1>1. WellFormed(p)
  BY PlainerIs
<1>2. \A k \in Limits : Has(p, k) => k \notin K /\ Has(q, k) /\ Val(p, k) = Val(q, k)
  BY PlainerLimits
<1>3. r = IF cfg.completionKey THEN RenameLimit(p) ELSE p
  BY DEF Renamed
<1>. HIDE DEF p, r, K
<1>4. "max_tokens" \in Limits /\ "max_completion_tokens" \in Limits
  BY DEF Limits
<1>5. CASE ~ cfg.completionKey
  <2>1. r = p
    BY <1>3, <1>5
  <2>2. LimitsFrom(q, r)
    BY <1>2, <2>1 DEF LimitsFrom
  <2>3. SameOutside(p, r, Limits)
    BY <2>1, SameRefl
  <2>. QED  BY <1>1, <1>2, <1>4, <1>5, <2>1, <2>2, <2>3 DEF p, r, K
<1>6. CASE cfg.completionKey
  <2>0. r = RenameLimit(p)
    BY <1>3, <1>6
  <2>1. /\ WellFormed(r) /\ SameOutside(p, r, Limits) /\ ~ Has(r, "max_tokens")
        /\ LimitsFrom(p, r)
        /\ Has(r, "max_completion_tokens") =>
              Has(p, "max_tokens") \/ Has(p, "max_completion_tokens")
    BY <1>1, <2>0, RenameWell DEF LimitsFrom
  <2>2. LimitsFrom(q, r)
    BY <1>2, <2>1 DEF LimitsFrom
  <2>3. Has(r, "max_completion_tokens") =>
           "max_completion_tokens" \notin K \/ Has(q, "max_tokens")
    BY <1>2, <1>4, <2>1
  <2>. QED  BY <1>6, <2>1, <2>2, <2>3 DEF p, r, K
<1>. QED  BY <1>5, <1>6

(* A limit of a request adapted from q is one of q's, or the ceiling in    *)
(* the place of a larger one.                                              *)
LimitFrom(q, cfg, b, k) ==
    \/ \E l \in Limits : Has(q, l) /\ Val(b, k) = Val(q, l)
    \/ /\ k = LimitKey(cfg) /\ Val(b, k) = Num(cfg.maxOutput)
       /\ \E l \in Limits : Has(q, l) /\ cfg.maxOutput < IntAt(q, l)

LEMMA IntSame ==
    ASSUME NEW m, NEW r, NEW k, NEW l, Has(m, k), Has(r, l), Val(m, k) = Val(r, l)
    PROVE  IntAt(m, k) = IntAt(r, l)
  BY DEF IntAt

LEMMA ClampedIs ==
    ASSUME NEW q, IsRequest(q), NEW cfg, ValidUpstream(cfg)
    PROVE  /\ WellFormed(Clamped(q, cfg))
           /\ SameOutside(Renamed(q, cfg), Clamped(q, cfg), Limits)
           /\ DOMAIN Clamped(q, cfg).vals = DOMAIN Renamed(q, cfg).vals
           /\ IntAt(Clamped(q, cfg), LimitKey(cfg)) <= cfg.maxOutput
           /\ \A k \in Limits : Has(Clamped(q, cfg), k) => LimitFrom(q, cfg, Clamped(q, cfg), k)
<1>. DEFINE r == Renamed(q, cfg)
            c == Clamped(q, cfg)
            key == LimitKey(cfg)
<1>1. WellFormed(q) /\ cfg.strip \in Seq(STRING) /\ cfg.maxOutput \in Nat \ {0}
  BY WireAssumption DEF IsRequest, ValidUpstream
<1>2. WellFormed(r) /\ LimitsFrom(q, r)
  BY <1>1, RenamedIs
<1>3. key \in Limits
  BY DEF LimitKey, Limits
<1>. HIDE DEF r, key
<1>4. IntAt(r, key) \in Int
  <2>1. CASE ~ Has(r, key)
    BY <2>1 DEF IntAt
  <2>2. CASE Has(r, key)
    <3>1. PICK l \in Limits : Has(q, l) /\ Val(r, key) = Val(q, l)
      BY <1>2, <1>3, <2>2 DEF LimitsFrom
    <3>2. IntAt(r, key) = IntAt(q, l)
      BY <2>2, <3>1, IntSame
    <3>3. IntAt(q, l) \in Int
      BY WireAssumption DEF IsRequest, Limits
    <3>. QED  BY <3>2, <3>3
  <2>. QED  BY <2>1, <2>2
<1>5. /\ WellFormed(c) /\ SameOutside(r, c, Limits) /\ DOMAIN c.vals = DOMAIN r.vals
      /\ IntAt(c, key) <= cfg.maxOutput
      /\ \A k \in Limits : Has(c, k) =>
            \/ Val(c, k) = Val(r, k)
            \/ k = key /\ Val(c, k) = Num(cfg.maxOutput) /\ cfg.maxOutput < IntAt(r, k)
  BY <1>1, <1>2, <1>4, ClampWell DEF Clamped, r, key
<1>. HIDE DEF c
<1>6. ASSUME NEW k \in Limits, Has(c, k) PROVE LimitFrom(q, cfg, c, k)
  <2>1. Has(r, k)
    BY <1>5, <1>6 DEF Has
  <2>2. PICK l \in Limits : Has(q, l) /\ Val(r, k) = Val(q, l)
    BY <1>2, <2>1 DEF LimitsFrom
  <2>3. CASE Val(c, k) = Val(r, k)
    BY <2>2, <2>3 DEF LimitFrom
  <2>4. CASE k = key /\ Val(c, k) = Num(cfg.maxOutput) /\ cfg.maxOutput < IntAt(r, k)
    <3>1. IntAt(r, k) = IntAt(q, l)
      BY <2>1, <2>2, IntSame
    <3>. QED  BY <2>2, <2>4, <3>1 DEF LimitFrom, key
  <2>. QED  BY <1>5, <1>6, <2>3, <2>4
<1>. QED  BY <1>5, <1>6 DEF r, c, key

(* What BuildUpstreamRequest promises of the body b it makes of q.         *)
BodyIs(q, cfg, b) ==
    /\ WellFormed(b)
    /\ SameOutside(q, b, Governed \cup Cut(cfg))
    /\ DOMAIN b.vals \cap Forbidden(cfg, q) = {}
    /\ Has(b, "model") => Val(b, "model") = Str(cfg.model)
    /\ cfg.completionKey => ~ Has(b, "max_tokens")
    /\ IntAt(b, LimitKey(cfg)) <= cfg.maxOutput
    /\ \A k \in Limits : Has(b, k) => LimitFrom(q, cfg, b, k)
    /\ cfg.stopAsString /\ Has(b, "stop") => Val(b, "stop") \notin {Null, List(<<>>)}

LEMMA SameVal ==
    ASSUME NEW m, NEW r, NEW K, SameOutside(m, r, K), NEW k, k \notin K
    PROVE  (Has(r, k) <=> Has(m, k)) /\ (Has(m, k) => Val(r, k) = Val(m, k))
  BY DEF SameOutside, Has, Val

LEMMA BuiltBody ==
    ASSUME NEW q, IsRequest(q), NEW cfg, ValidUpstream(cfg)
    PROVE  BodyIs(q, cfg, BuildUpstreamRequest(q, cfg))
<1>. DEFINE p == Plainer(q, cfg)
            r == Renamed(q, cfg)
            c == Clamped(q, cfg)
            b == BuildUpstreamRequest(q, cfg)
            K == Cut(cfg)
            F == Forbidden(cfg, q)
            G == Governed \cup K
            M == {"model"} \cup K
            stop == {"stop"}
<1>1. WellFormed(q) /\ cfg.strip \in Seq(STRING)
  BY DEF IsRequest, ValidUpstream
<1>2. /\ SameOutside(q, p, M)
      /\ DOMAIN p.vals = (DOMAIN q.vals \cup {"model"}) \ K
      /\ Has(p, "model") => Val(p, "model") = Str(cfg.model)
  BY <1>1, PlainerIs
<1>3. /\ SameOutside(p, r, Limits)
      /\ cfg.completionKey => ~ Has(r, "max_tokens")
      /\ Has(r, "max_tokens") => "max_tokens" \notin K
      /\ Has(r, "max_completion_tokens") =>
            "max_completion_tokens" \notin K \/ (cfg.completionKey /\ Has(q, "max_tokens"))
  BY <1>1, RenamedIs
<1>4. /\ WellFormed(c) /\ SameOutside(r, c, Limits) /\ DOMAIN c.vals = DOMAIN r.vals
      /\ IntAt(c, LimitKey(cfg)) <= cfg.maxOutput
      /\ \A k \in Limits : Has(c, k) => LimitFrom(q, cfg, c, k)
  BY ClampedIs
<1>5. /\ WellFormed(b) /\ SameOutside(c, b, stop)
      /\ DOMAIN b.vals \subseteq DOMAIN c.vals
      /\ cfg.stopAsString /\ Has(b, "stop") => Val(b, "stop") \notin {Null, List(<<>>)}
  <2>1. b = IF cfg.stopAsString THEN NormalizeStop(c) ELSE c
    BY BuildIs
  <2>2. CASE cfg.stopAsString
    <3>1. b = NormalizeStop(c)
      BY <2>1, <2>2
    <3>. HIDE DEF b, c
    <3>. QED  BY <1>4, <3>1, StopWell
  <2>3. CASE ~ cfg.stopAsString
    <3>1. b = c
      BY <2>1, <2>3
    <3>. HIDE DEF b, c
    <3>. QED  BY <1>4, <2>3, <3>1, SameRefl
  <2>. QED  BY <2>2, <2>3
<1>6. F \subseteq K /\ (K \ F) \subseteq {"max_completion_tokens"}
      /\ ("max_completion_tokens" \in F => ~ (cfg.completionKey /\ Has(q, "max_tokens")))
  <2>1. F = K \ (IF cfg.completionKey /\ Has(q, "max_tokens")
                 THEN {"max_completion_tokens"} ELSE {})
    BY Zenon DEF Forbidden, Cut
  <2>. HIDE DEF F, K
  <2>. QED  BY <2>1
<1>. HIDE DEF p, r, c, b, K, F
<1>7. SameOutside(q, b, G)
  <2>1. M \subseteq G /\ Limits \subseteq G /\ stop \subseteq G
    BY DEF Governed, Limits
  <2>. HIDE DEF M, G, stop
  <2>2. SameOutside(q, p, G) /\ SameOutside(p, r, G) /\ SameOutside(r, c, G)
        /\ SameOutside(c, b, G)
    BY <1>2, <1>3, <1>4, <1>5, <2>1, SameMore
  <2>3. SameOutside(q, r, G)
    BY <2>2, SameTrans
  <2>4. SameOutside(q, c, G)
    BY <2>2, <2>3, SameTrans
  <2>. QED  BY <2>2, <2>4, SameTrans
<1>8. \A k \in Limits : k # "stop" /\ k # "model"
  BY DEF Limits
<1>9. \A k : k # "stop" => (Has(b, k) <=> Has(c, k)) /\ (Has(c, k) => Val(b, k) = Val(c, k))
  BY <1>5, SameVal
<1>10. DOMAIN b.vals \cap F = {}
  <2>. SUFFICES ASSUME NEW k \in F, k \in DOMAIN b.vals PROVE FALSE
    OBVIOUS
  <2>1. k \in K /\ k \in DOMAIN r.vals
    BY <1>4, <1>5, <1>6
  <2>2. CASE k \notin Limits
    BY <1>2, <1>3, <2>1, <2>2 DEF SameOutside
  <2>3. CASE k \in Limits
    BY <1>3, <1>6, <2>1, <2>3 DEF Limits, Has
  <2>. QED  BY <2>2, <2>3
<1>11. Has(b, "model") => Val(b, "model") = Str(cfg.model)
  <2>1. "model" \notin Limits /\ "model" \notin stop
    BY DEF Limits
  <2>. HIDE DEF stop
  <2>. QED  BY <1>2, <1>3, <1>4, <1>5, <2>1, SameVal
<1>12. cfg.completionKey => ~ Has(b, "max_tokens")
  BY <1>3, <1>4, <1>5 DEF Has
<1>13. IntAt(b, LimitKey(cfg)) <= cfg.maxOutput
  <2>1. LimitKey(cfg) # "stop"
    BY DEF LimitKey
  <2>2. IntAt(b, LimitKey(cfg)) = IntAt(c, LimitKey(cfg))
    BY <1>9, <2>1 DEF IntAt
  <2>. QED  BY <1>4, <2>2
<1>14. \A k \in Limits : Has(b, k) => LimitFrom(q, cfg, b, k)
  BY <1>4, <1>8, <1>9 DEF LimitFrom
<1>. QED
  BY <1>5, <1>7, <1>10, <1>11, <1>12, <1>13, <1>14 DEF BodyIs, b, K, F

LEMMA KeysOf ==
    ASSUME NEW m, WellFormed(m)
    PROVE  ToSet(m.keys) = DOMAIN m.vals
  BY DEF WellFormed

LEMMA GovernedIs ==
    \A q, cfg : Governed \cup Forbidden(cfg, q) = Governed \cup Cut(cfg)
<1>. SUFFICES ASSUME NEW q, NEW cfg
              PROVE  Governed \cup Forbidden(cfg, q) = Governed \cup Cut(cfg)
  OBVIOUS
<1>1. Forbidden(cfg, q) = Cut(cfg) \ (IF cfg.completionKey /\ Has(q, "max_tokens")
                                      THEN {"max_completion_tokens"} ELSE {})
  BY Zenon DEF Forbidden, Cut
<1>2. "max_completion_tokens" \in Governed
  BY DEF Governed
<1>. QED  BY <1>1, <1>2

LEMMA FitsBody ==
    ASSUME IsRequest(req.asked), ValidUpstream(ConfigOf(out.bodyOf)),
           out.body = BuildUpstreamRequest(req.asked, ConfigOf(out.bodyOf))
    PROVE  BodyFits
<1>. DEFINE cfg == ConfigOf(out.bodyOf)
            q == req.asked
            b == out.body
            F == Forbidden(cfg, q)
            G == Governed \cup Cut(cfg)
            key == LimitKey(cfg)
            free(m) == ToSet(m.keys) \ (Governed \cup F)
<1>1. BodyIs(q, cfg, b) /\ WellFormed(q)
  BY BuiltBody DEF IsRequest
<1>2. WellFormed(b) /\ SameOutside(q, b, G) /\ DOMAIN b.vals \cap F = {}
  BY <1>1 DEF BodyIs
<1>3. /\ Has(b, "model") => Val(b, "model") = Str(cfg.model)
      /\ cfg.completionKey => ~ Has(b, "max_tokens")
      /\ cfg.stopAsString /\ Has(b, "stop") => Val(b, "stop") \notin {Null, List(<<>>)}
      /\ IntAt(b, key) <= cfg.maxOutput
  BY <1>1 DEF BodyIs
<1>4. Has(b, key) =>
         \/ \E k \in {"max_tokens", "max_completion_tokens"} : Has(q, k) /\ Val(b, key) = Val(q, k)
         \/ Val(b, key) = Num(cfg.maxOutput)
  <2>1. key \in Limits
    BY DEF LimitKey, Limits
  <2>2. Has(b, key) => LimitFrom(q, cfg, b, key)
    BY <1>1, <2>1 DEF BodyIs
  <2>. HIDE DEF cfg, q, b, key
  <2>. QED  BY <2>2 DEF LimitFrom, Limits
<1>5. ToSet(b.keys) = DOMAIN b.vals /\ ToSet(q.keys) = DOMAIN q.vals
  BY <1>1, <1>2, KeysOf
<1>6. Governed \cup F = G
  BY GovernedIs
<1>. HIDE DEF cfg, q, b, F, G, key
<1>7. F \cap ToSet(b.keys) = {}
  BY <1>2, <1>5
<1>8. free(q) = DOMAIN q.vals \ G /\ free(b) = DOMAIN b.vals \ G
  BY <1>5, <1>6
<1>. HIDE DEF free
<1>9. free(b) = free(q)
  BY <1>2, <1>8 DEF SameOutside
<1>10. \A k \in free(q) : Val(b, k) = Val(q, k)
  BY <1>2, <1>8 DEF SameOutside, Val
<1>11. \A k, l \in free(q) : Before(b, k, l) <=> Before(q, k, l)
  BY <1>2, <1>8 DEF SameOutside
<1>. USE DEF cfg, q, b, F, key, free
<1>. QED
  BY <1>3, <1>4, <1>7, <1>9, <1>10, <1>11, Zenon DEF BodyFits

LEMMA WrapIs ==
    ASSUME NEW n \in 0..MaxInt
    PROVE  Wrap(n) = n
<1>. DEFINE s == 2 * (MaxInt + 1)
            a == n + MaxInt + 1
<1>1. MaxInt \in Nat /\ s \in Nat \ {0} /\ a \in 0..s - 1 /\ a - (MaxInt + 1) = n
  BY WireAssumption
<1>2. Wrap(n) = (a % s) - (MaxInt + 1)
  BY DEF Wrap
<1>. HIDE DEF s, a
<1>3. a % s = a
  BY <1>1, SmallRemainder
<1>. QED  BY <1>1, <1>2, <1>3

LEMMA LimitsInt ==
    ASSUME NEW q, IsRequest(q)
    PROVE  /\ IntAt(q, "max_tokens") \in Int /\ IntAt(q, "max_completion_tokens") \in Int
           /\ ExtractSignals(q).maxTokens \in Int
           /\ \A l \in Limits : IntAt(q, l) <= ExtractSignals(q).maxTokens \/ IntAt(q, l) = 0
<1>1. /\ IntAt(q, "max_tokens") \in Int /\ IntAt(q, "max_completion_tokens") \in Int
  BY WireAssumption DEF IsRequest
<1>2. CASE /\ Has(q, "max_completion_tokens")
           /\ IsInt(Val(q, "max_completion_tokens"))
  <2>1. ExtractSignals(q).maxTokens =
           IF IntAt(q, "max_completion_tokens") > IntAt(q, "max_tokens")
           THEN IntAt(q, "max_completion_tokens") ELSE IntAt(q, "max_tokens")
    BY <1>2 DEF ExtractSignals
  <2>. QED  BY <1>1, <2>1 DEF Limits
<1>3. CASE ~ /\ Has(q, "max_completion_tokens")
             /\ IsInt(Val(q, "max_completion_tokens"))
  <2>1. ExtractSignals(q).maxTokens = IntAt(q, "max_tokens")
    BY <1>3 DEF ExtractSignals
  <2>2. IntAt(q, "max_completion_tokens") = 0
    BY <1>3 DEF IntAt
  <2>. QED  BY <1>1, <2>1, <2>2 DEF Limits
<1>. QED  BY <1>2, <1>3

(* The estimate of a request, before it wraps around.                      *)
LEMMA Estimates ==
    ASSUME NEW q, IsRequest(q)
    PROVE  /\ Prompt(q) \in Nat
           /\ Completion(q) \in Nat /\ ExtractSignals(q).maxTokens <= Completion(q)
           /\ EstimateTotal(ExtractSignals(q)) = Wrap(Prompt(q) + Completion(q))
<1>. DEFINE s == ExtractSignals(q)
<1>1. Prompt(q) \in Nat
  BY PromptNat DEF Prompt, IsRequest
<1>2. s.maxTokens \in Int
  BY LimitsInt
<1>3. s.messages = Messages(q)
  BY DEF ExtractSignals
<1>4. Completion(q) = IF s.maxTokens > 0 THEN s.maxTokens ELSE 1024
  BY DEF Completion, CompletionEstimate, defaultCompletionEstimate
<1>. HIDE DEF s
<1>5. EstimateTotal(s) = Wrap(Prompt(q) + Completion(q))
  BY <1>3 DEF EstimateTotal, Prompt, Completion, s
<1>. QED  BY <1>1, <1>2, <1>4, <1>5 DEF s

LEMMA SafeWindowIs ==
    ASSUME NEW cfg, ValidUpstream(cfg)
    PROVE  SafeWindow(cfg) \in 0..MaxInt /\ cfg.window > 0
<1>1. PICK w \in 1..MaxInt : w = cfg.window
  BY DEF ValidUpstream
<1>2. PICK x \in Nat : x = w * 95
  OBVIOUS
<1>3. (x \div 100) \in Nat /\ 100 * (x \div 100) <= x
  BY SMT
<1>4. PICK y \in Nat : y = SafeWindow(cfg) /\ 100 * y <= x
  BY <1>1, <1>2, <1>3 DEF SafeWindow
<1>5. y <= MaxInt
  BY <1>1, <1>2, <1>4, WireAssumption
<1>6. cfg.window > 0
  BY <1>1
<1>. QED  BY <1>4, <1>5, <1>6, WireAssumption

(* What the body has outside of the governed names is as the client sent.  *)
LEMMA BodyKeeps ==
    ASSUME NEW q, NEW cfg, NEW b, BodyIs(q, cfg, b)
    PROVE  \A k : k \notin Governed /\ Has(b, k) => Has(q, k) /\ Val(b, k) = Val(q, k)
<1>. SUFFICES ASSUME NEW k, k \notin Governed, Has(b, k)
              PROVE  Has(q, k) /\ Val(b, k) = Val(q, k)
  OBVIOUS
<1>. DEFINE G == Governed \cup Cut(cfg)
            F == Forbidden(cfg, q)
<1>1. SameOutside(q, b, G) /\ DOMAIN b.vals \cap F = {}
  BY DEF BodyIs
<1>2. Governed \cup F = G
  BY GovernedIs
<1>. HIDE DEF G, F
<1>3. k \notin G
  BY <1>1, <1>2 DEF Has
<1>. QED  BY <1>1, <1>3, SameVal

LEMMA BodyMessages ==
    ASSUME NEW q, NEW cfg, NEW b, BodyIs(q, cfg, b)
    PROVE  Messages(b) = Messages(q) \/ Messages(b) = <<>>
<1>1. "messages" \notin Governed
  BY DEF Governed
<1>2. Has(b, "messages") => Has(q, "messages") /\ Val(b, "messages") = Val(q, "messages")
  BY <1>1, BodyKeeps
<1>. QED  BY <1>2 DEF Messages

(* No limit of the body is above what the gates counted.                   *)
LEMMA BodyLimit ==
    ASSUME NEW q, IsRequest(q), NEW cfg, ValidUpstream(cfg), NEW b, BodyIs(q, cfg, b)
    PROVE  ExtractSignals(b).maxTokens \in Int /\ ExtractSignals(b).maxTokens <= Completion(q)
<1>. DEFINE max == ExtractSignals(q).maxTokens
<1>1. /\ \A l \in Limits : IntAt(q, l) \in Int /\ IntAt(q, l) <= Completion(q)
      /\ Completion(q) \in Nat
  <2>1. /\ \A l \in Limits : IntAt(q, l) \in Int /\ (IntAt(q, l) <= max \/ IntAt(q, l) = 0)
        /\ max \in Int
    BY LimitsInt DEF Limits
  <2>2. Completion(q) \in Nat /\ max <= Completion(q)
    BY Estimates
  <2>. HIDE DEF max
  <2>. QED  BY <2>1, <2>2
<1>2. cfg.maxOutput \in Nat
  BY WireAssumption DEF ValidUpstream
<1>3. ASSUME NEW k \in Limits PROVE IntAt(b, k) \in Int /\ IntAt(b, k) <= Completion(q)
  <2>1. CASE ~ Has(b, k)
    BY <1>1, <2>1 DEF IntAt
  <2>2. CASE Has(b, k)
    <3>1. LimitFrom(q, cfg, b, k)
      BY <2>2 DEF BodyIs
    <3>2. ASSUME NEW l \in Limits, Has(q, l), Val(b, k) = Val(q, l)
          PROVE  IntAt(b, k) \in Int /\ IntAt(b, k) <= Completion(q)
      <4>1. IntAt(b, k) = IntAt(q, l)
        BY <2>2, <3>2, IntSame
      <4>. QED  BY <1>1, <4>1
    <3>3. ASSUME NEW l \in Limits, cfg.maxOutput < IntAt(q, l), Val(b, k) = Num(cfg.maxOutput)
          PROVE  IntAt(b, k) \in Int /\ IntAt(b, k) <= Completion(q)
      <4>1. IntAt(b, k) = cfg.maxOutput
        BY <2>2, <3>3 DEF IntAt, IsInt, IntOf, Kind, Num
      <4>. QED  BY <1>1, <1>2, <3>3, <4>1
    <3>. QED  BY <3>1, <3>2, <3>3 DEF LimitFrom
  <2>. QED  BY <2>1, <2>2
<1>4. "max_tokens" \in Limits /\ "max_completion_tokens" \in Limits
  BY DEF Limits
<1>5. \E k \in Limits : ExtractSignals(b).maxTokens = IntAt(b, k)
  BY <1>4 DEF ExtractSignals
<1>. QED  BY <1>3, <1>5

(* What a body asks of an upstream's abilities, its request asked before.  *)
LEMMA BodyMeets ==
    ASSUME NEW q, NEW cfg, NEW b, BodyIs(q, cfg, b), NEW gated,
           CanServe(gated, ExtractSignals(q))
    PROVE  Meets(gated, b)
<1>. DEFINE same(k) == Has(b, k) => Has(q, k) /\ Val(b, k) = Val(q, k)
<1>1. same("tools") /\ same("tool_choice") /\ same("response_format")
  <2>1. "tools" \notin Governed /\ "tool_choice" \notin Governed
        /\ "response_format" \notin Governed
    BY DEF Governed
  <2>. QED  BY <2>1, BodyKeeps
<1>2. Messages(b) = Messages(q) \/ Messages(b) = <<>>
  BY BodyMessages
<1>3. \A type : HasPart(Messages(b), type) => HasPart(Messages(q), type)
  BY <1>2 DEF HasPart
<1>4. /\ HasPart(Messages(q), "image_url") => "image" \in gated.modalities
      /\ HasPart(Messages(q), "input_audio") => "audio" \in gated.modalities
      /\ WantsTools(q, Messages(q)) => gated.tools
      /\ ExtractSignals(q).format \in {"json_object", "json_schema"} => gated.schema
  BY DEF CanServe, ExtractSignals
<1>5. UsesTools(b) => WantsTools(q, Messages(q))
  <2>1. ListsTools(b) => /\ Has(q, "tools") /\ IsList(Val(q, "tools"))
                         /\ Elems(Val(q, "tools")) # <<>>
    BY <1>1 DEF ListsTools, Elems, IsList
  <2>2. Given(b, "tool_choice") /\ ~ Suppressed(b) =>
           Has(q, "tool_choice") /\ Val(q, "tool_choice") # Str("none")
    BY <1>1 DEF Given, Suppressed
  <2>3. ASSUME NEW i \in DOMAIN Messages(b),
               Messages(b)[i].role = "tool" \/ Messages(b)[i].calls = "list"
        PROVE  \E j \in DOMAIN Messages(q) :
                  Messages(q)[j].role = "tool" \/ Messages(q)[j].calls # "absent"
    BY <1>2, <2>3
  <2>. QED  BY <2>1, <2>2, <2>3 DEF UsesTools, WantsTools
<1>6. ExtractSignals(b).format \in {"json_object", "json_schema"} =>
         ExtractSignals(q).format = ExtractSignals(b).format
  BY <1>1 DEF ExtractSignals
<1>. QED  BY <1>3, <1>4, <1>5, <1>6 DEF Meets

LEMMA ServableBody ==
    ASSUME IsRequest(req.asked), ValidUpstream(ConfigOf(out.bodyOf)),
           ValidUpstream(ConfigOf(req.sel.at)),
           CanServe(ConfigOf(req.sel.at), ExtractSignals(req.asked)),
           out.body = BuildUpstreamRequest(req.asked, ConfigOf(out.bodyOf))
    PROVE  Servable
<1>. DEFINE cfg == ConfigOf(out.bodyOf)
            gated == ConfigOf(req.sel.at)
            q == req.asked
            b == out.body
<1>1. BodyIs(q, cfg, b)
  BY BuiltBody
<1>. HIDE DEF cfg, gated, q, b
<1>2. Meets(gated, b)
  BY <1>1, BodyMeets DEF gated, q
<1>3. ASSUME Prompt(q) + Completion(q) <= MaxInt
      PROVE  Prompt(b) + ExtractSignals(b).maxTokens <= SafeWindow(gated)
  <2>1. /\ Prompt(q) \in Nat /\ Completion(q) \in Nat
        /\ EstimateTotal(ExtractSignals(q)) = Wrap(Prompt(q) + Completion(q))
    BY Estimates DEF q
  <2>2. Wrap(Prompt(q) + Completion(q)) = Prompt(q) + Completion(q)
    BY <1>3, <2>1, WrapIs, WireAssumption
  <2>3. SafeWindow(gated) \in Int /\ gated.window > 0
    BY SafeWindowIs, WireAssumption DEF gated
  <2>4. EstimateTotal(ExtractSignals(q)) <= SafeWindow(gated)
    BY <2>3 DEF CanServe, SafeWindow, gated, q
  <2>5. Prompt(b) = Prompt(q) \/ Prompt(b) = 0
    BY <1>1, BodyMessages, PromptEmpty DEF Prompt
  <2>6. ExtractSignals(b).maxTokens \in Int /\ ExtractSignals(b).maxTokens <= Completion(q)
    BY <1>1, BodyLimit DEF cfg, q
  <2>. QED  BY <2>1, <2>2, <2>3, <2>4, <2>5, <2>6
<1>. QED  BY <1>2, <1>3, Zenon DEF Servable, gated, q, b

LEMMA RefusedRightly ==
    ASSUME NEW q, IsRequest(q), NEW cfg, ValidUpstream(cfg), ~ CanServe(cfg, ExtractSignals(q))
    PROVE  \/ ~ Meets(cfg, q)
           \/ Prompt(q) + Completion(q) > SafeWindow(cfg)
           \/ ~ cfg.tools /\ Misread(q)
<1>. SUFFICES ASSUME Meets(cfg, q), ~ (Prompt(q) + Completion(q) > SafeWindow(cfg)),
                     cfg.tools \/ ~ Misread(q)
              PROVE  CanServe(cfg, ExtractSignals(q))
  OBVIOUS
<1>1. EstimateTotal(ExtractSignals(q)) <= SafeWindow(cfg)
  <2>1. /\ Prompt(q) \in Nat /\ Completion(q) \in Nat
        /\ EstimateTotal(ExtractSignals(q)) = Wrap(Prompt(q) + Completion(q))
    BY Estimates
  <2>2. SafeWindow(cfg) \in 0..MaxInt
    BY SafeWindowIs
  <2>3. Prompt(q) + Completion(q) \in 0..MaxInt
    BY <2>1, <2>2, WireAssumption
  <2>. QED  BY <2>1, <2>2, <2>3, WrapIs, WireAssumption
<1>2. ASSUME WantsTools(q, Messages(q)) PROVE cfg.tools
  <2>. SUFFICES ASSUME ~ Misread(q) PROVE UsesTools(q)
    BY DEF Meets
  <2>1. CASE Has(q, "tools") /\ IsList(Val(q, "tools")) /\ Elems(Val(q, "tools")) # <<>>
    BY <2>1 DEF Misread, UsesTools, ListsTools
  <2>2. CASE Has(q, "tool_choice") /\ Val(q, "tool_choice") # Str("none")
    BY <2>2 DEF Misread, UsesTools, Given, Suppressed
  <2>3. ASSUME NEW i \in DOMAIN Messages(q),
               Messages(q)[i].role = "tool" \/ Messages(q)[i].calls # "absent"
        PROVE  UsesTools(q)
    <3>. DEFINE msgs == Messages(q)
    <3>1. msgs \in Seq(ChatMessage) /\ i \in DOMAIN msgs
      BY DEF IsRequest
    <3>2. msgs[i] \in ChatMessage
      <4>. HIDE DEF msgs
      <4>. QED  BY <3>1
    <3>3. msgs[i].calls \in {"absent", "null", "list"}
      BY <3>2 DEF ChatMessage
    <3>4. msgs[i].calls # "null"
      BY <2>3 DEF Misread
    <3>. QED  BY <2>3, <3>3, <3>4 DEF UsesTools
  <2>. QED  BY <1>2, <2>1, <2>2, <2>3 DEF WantsTools
<1>3. /\ ExtractSignals(q).hasImage = HasPart(Messages(q), "image_url")
      /\ ExtractSignals(q).hasAudio = HasPart(Messages(q), "input_audio")
      /\ ExtractSignals(q).hasTools = WantsTools(q, Messages(q))
  BY DEF ExtractSignals
<1>. DEFINE s == ExtractSignals(q)
<1>4. /\ s.hasImage => "image" \in cfg.modalities
      /\ s.hasAudio => "audio" \in cfg.modalities
      /\ s.format \in {"json_object", "json_schema"} => cfg.schema
  BY <1>3, Zenon DEF Meets
<1>. HIDE DEF s
<1>5. s.hasTools => cfg.tools
  BY <1>2, <1>3, Zenon DEF s
<1>6. EstimateTotal(s) <= (cfg.window * 95) \div 100
  BY <1>1, Zenon DEF SafeWindow, s
<1>. QED  BY <1>4, <1>5, <1>6, Zenon DEF CanServe, s

----------------------------------------------------------------------------
(* The response for the client                                             *)

LEMMA OverwriteIs ==
    ASSUME NEW m, WellFormed(m), NEW k, NEW v
    PROVE  /\ WellFormed(Overwrite(m, k, v))
           /\ DOMAIN Overwrite(m, k, v).vals = DOMAIN m.vals
           /\ SameOutside(m, Overwrite(m, k, v), {k})
           /\ Has(Overwrite(m, k, v), k) => Val(Overwrite(m, k, v), k) = v
<1>. DEFINE o == Overwrite(m, k, v)
            d == Put(m, k, v)
<1>1. CASE ~ Has(m, k)
  <2>1. o = m
    BY <1>1 DEF Overwrite
  <2>. QED  BY <1>1, <2>1, SameRefl
<1>2. CASE Has(m, k)
  <2>1. o = d
    BY <1>2 DEF Overwrite
  <2>2. WellFormed(d) /\ SameOutside(m, d, {k}) /\ DOMAIN d.vals = DOMAIN m.vals \cup {k}
    BY PutWell
  <2>3. Val(d, k) = v
    BY PutGives
  <2>4. DOMAIN m.vals \cup {k} = DOMAIN m.vals
    BY <1>2 DEF Has
  <2>. HIDE DEF o, d
  <2>. QED  BY <2>1, <2>2, <2>3, <2>4 DEF o
<1>. QED  BY <1>1, <1>2

(* What Rewrite keeps of a response m.                                     *)
Renewed(m, r, name, id) ==
    /\ WellFormed(r)
    /\ DOMAIN r.vals \subseteq DOMAIN m.vals \cap topLevelAllowlist
    /\ Has(r, "model") => Val(r, "model") = Str(name)
    /\ Has(r, "id") => Val(r, "id") = Str(id)
    /\ \A k \in DOMAIN r.vals : k \notin {"model", "id", "usage"} => Val(r, k) = Val(m, k)

Pinned(m, name, id) == Overwrite(Overwrite(m, "model", Str(name)), "id", Str(id))

LEMMA PinnedIs ==
    ASSUME NEW m, WellFormed(m), NEW name, NEW id, NEW r, r = Pinned(m, name, id)
    PROVE  /\ WellFormed(r)
           /\ DOMAIN r.vals = DOMAIN m.vals
           /\ Has(r, "model") => Val(r, "model") = Str(name)
           /\ Has(r, "id") => Val(r, "id") = Str(id)
           /\ \A k \in DOMAIN r.vals : k \notin {"model", "id"} => Val(r, k) = Val(m, k)
<1>. DEFINE o == Overwrite(m, "model", Str(name))
            A == {"model"}
            B == {"id"}
<1>1. /\ WellFormed(o) /\ DOMAIN o.vals = DOMAIN m.vals /\ SameOutside(m, o, A)
      /\ Has(o, "model") => Val(o, "model") = Str(name)
  <2>1. PICK k, v : k = "model" /\ v = Str(name)
    OBVIOUS
  <2>2. o = Overwrite(m, k, v) /\ A = {k}
    BY <2>1
  <2>. HIDE DEF o, A
  <2>3. /\ WellFormed(o) /\ DOMAIN o.vals = DOMAIN m.vals /\ SameOutside(m, o, {k})
        /\ Has(o, k) => Val(o, k) = v
    BY <2>2, OverwriteIs, Zenon
  <2>. QED  BY <2>1, <2>2, <2>3
<1>2. r = Overwrite(o, "id", Str(id))
  BY DEF Pinned
<1>. HIDE DEF o
<1>3. /\ WellFormed(r) /\ DOMAIN r.vals = DOMAIN o.vals /\ SameOutside(o, r, B)
      /\ Has(r, "id") => Val(r, "id") = Str(id)
  <2>1. PICK k, v : k = "id" /\ v = Str(id)
    OBVIOUS
  <2>. DEFINE d == Overwrite(o, k, v)
  <2>2. r = d /\ B = {k}
    BY <1>2, <2>1
  <2>3. /\ WellFormed(d) /\ DOMAIN d.vals = DOMAIN o.vals /\ SameOutside(o, d, {k})
        /\ Has(d, k) => Val(d, k) = v
    BY <1>1, OverwriteIs, Zenon
  <2>. HIDE DEF d, B
  <2>. QED  BY <2>1, <2>2, <2>3
<1>4. ASSUME NEW k \in DOMAIN r.vals, k \notin A \cup B PROVE Val(r, k) = Val(m, k)
  BY <1>1, <1>3, <1>4 DEF SameOutside, Val
<1>5. Has(r, "model") => Val(r, "model") = Str(name)
  <2>1. "model" \notin B
    OBVIOUS
  <2>. HIDE DEF A, B
  <2>. QED  BY <1>1, <1>3, <2>1, SameVal
<1>. QED  BY <1>1, <1>3, <1>4, <1>5

LEMMA RewriteIs ==
    ASSUME NEW m, IsResponse(m), NEW name, NEW id
    PROVE  /\ Renewed(m, Rewrite(m, name, id), name, id)
           /\ Has(Rewrite(m, name, id), "usage") =>
                 IF Kind(Val(m, "usage")) = "obj"
                 THEN Val(Rewrite(m, name, id), "usage")
                         = Obj(KeepOnly(Val(m, "usage")[2], usageAllowlist))
                 ELSE Val(Rewrite(m, name, id), "usage") = Val(m, "usage")
<1>. DEFINE p == Pinned(m, name, id)
            k == KeepOnly(p, topLevelAllowlist)
            r == Rewrite(m, name, id)
            w == Obj(KeepOnly(Val(k, "usage")[2], usageAllowlist))
            gone == DOMAIN p.vals \ topLevelAllowlist
            U == {"usage"}
<1>0. WellFormed(m)
  BY DEF IsResponse
<1>1. r = ScrubUsage(k)
  BY Zenon DEF Rewrite, Pinned
<1>2. /\ WellFormed(p) /\ DOMAIN p.vals = DOMAIN m.vals
      /\ Has(p, "model") => Val(p, "model") = Str(name)
      /\ Has(p, "id") => Val(p, "id") = Str(id)
      /\ \A x \in DOMAIN p.vals : x \notin {"model", "id"} => Val(p, x) = Val(m, x)
  BY <1>0, PinnedIs
<1>. HIDE DEF p
<1>3. WellFormed(k) /\ DOMAIN k.vals = DOMAIN p.vals \ gone /\ SameOutside(p, k, gone)
  BY <1>2, KeepOnlyReduces DEF Reduced
<1>. HIDE DEF k
<1>4. /\ DOMAIN k.vals = DOMAIN m.vals \cap topLevelAllowlist
      /\ \A x \in DOMAIN k.vals : Val(k, x) = Val(p, x)
  BY <1>2, <1>3 DEF SameOutside, Val
<1>5. /\ WellFormed(r) /\ DOMAIN r.vals = DOMAIN k.vals /\ SameOutside(k, r, U)
      /\ Has(r, "usage") => Val(r, "usage") = IF Kind(Val(k, "usage")) = "obj" THEN w
                                              ELSE Val(k, "usage")
  <2>1. CASE ~ (Has(k, "usage") /\ Kind(Val(k, "usage")) = "obj")
    <3>1. r = k
      BY <1>1, <2>1 DEF ScrubUsage
    <3>. HIDE DEF r, U
    <3>. QED  BY <1>3, <2>1, <3>1, SameRefl
  <2>2. CASE Has(k, "usage") /\ Kind(Val(k, "usage")) = "obj"
    <3>. DEFINE d == Put(k, "usage", w)
    <3>1. r = d
      BY <1>1, <2>2 DEF ScrubUsage
    <3>2. PICK u, v : u = "usage" /\ v = w
      OBVIOUS
    <3>3. d = Put(k, u, v) /\ U = {u}
      BY <3>2
    <3>. HIDE DEF d, r, U, w
    <3>4. WellFormed(d) /\ SameOutside(k, d, {u}) /\ DOMAIN d.vals = DOMAIN k.vals \cup {u}
      BY <1>3, <3>3, PutWell
    <3>5. Val(d, u) = v
      BY <3>3, PutGives
    <3>6. DOMAIN k.vals \cup {u} = DOMAIN k.vals
      BY <2>2, <3>2 DEF Has
    <3>. QED  BY <2>2, <3>1, <3>2, <3>3, <3>4, <3>5, <3>6
  <2>. QED  BY <2>1, <2>2
<1>. HIDE DEF r
<1>6. \A x \in DOMAIN r.vals : x # "usage" => Val(r, x) = Val(p, x)
  BY <1>4, <1>5 DEF SameOutside, Val
<1>7. Has(r, "model") => Val(r, "model") = Str(name)
  BY <1>2, <1>4, <1>5, <1>6 DEF Has
<1>8. Has(r, "id") => Val(r, "id") = Str(id)
  BY <1>2, <1>4, <1>5, <1>6 DEF Has
<1>9. \A x \in DOMAIN r.vals : x \notin {"model", "id", "usage"} => Val(r, x) = Val(m, x)
  BY <1>2, <1>4, <1>5, <1>6
<1>10. Renewed(m, r, name, id)
  BY <1>4, <1>5, <1>7, <1>8, <1>9 DEF Renewed
<1>11. Has(r, "usage") => Val(k, "usage") = Val(m, "usage")
  BY <1>2, <1>4, <1>5 DEF Has
<1>12. Has(r, "usage") => IF Kind(Val(m, "usage")) = "obj"
                          THEN Val(r, "usage") = Obj(KeepOnly(Val(m, "usage")[2], usageAllowlist))
                          ELSE Val(r, "usage") = Val(m, "usage")
  BY <1>5, <1>11
<1>. QED  BY <1>10, <1>12 DEF r

LEMMA RewriteWell ==
    ASSUME NEW m, IsResponse(m), NEW name, NEW id
    PROVE  WellFormed(Rewrite(m, name, id))
  BY RewriteIs DEF Renewed

LEMMA RewriteOpaque ==
    ASSUME NEW m, IsResponse(m), Conventional(m)
    PROVE  ~ Reveals(Rewrite(m, PublicModel, RequestID))
<1>. DEFINE r == Rewrite(m, PublicModel, RequestID)
            u == Val(m, "usage")
            kept == KeepOnly(u[2], usageAllowlist)
<1>1. /\ Renewed(m, r, PublicModel, RequestID)
      /\ Has(r, "usage") => IF Kind(u) = "obj" THEN Val(r, "usage") = Obj(kept)
                            ELSE Val(r, "usage") = u
  BY RewriteIs
<1>. HIDE DEF r
<1>. SUFFICES ASSUME NEW k \in DOMAIN r.vals PROVE ~ Names(Val(r, k))
  BY DEF Reveals, Values, r
<1>2. k \in DOMAIN m.vals /\ k \in topLevelAllowlist
  BY <1>1 DEF Renewed
<1>3. ASSUME NEW x, x \notin Secrets PROVE ~ Names(Str(x))
  BY <1>3 DEF Names, Str, Kind
<1>4. CASE k = "model"
  BY <1>1, <1>3, <1>4, OpacityAssumption DEF Renewed, Has
<1>5. CASE k = "id"
  BY <1>1, <1>3, <1>5, OpacityAssumption DEF Renewed, Has
<1>6. CASE k \notin {"model", "id", "usage"}
  <2>1. Val(r, k) = Val(m, k)
    BY <1>1, <1>6 DEF Renewed
  <2>. QED  BY <1>2, <1>6, <2>1 DEF Conventional, Has
<1>7. CASE k = "usage" /\ Kind(u) # "obj"
  <2>1. Val(r, k) = u /\ Has(m, "usage")
    BY <1>1, <1>2, <1>7 DEF Has
  <2>. QED  BY <1>7, <2>1 DEF Conventional
<1>8. CASE k = "usage" /\ Kind(u) = "obj"
  <2>1. Val(r, k) = Obj(kept) /\ Has(m, "usage")
    BY <1>1, <1>2, <1>8 DEF Has
  <2>2. WellFormed(u[2])
    BY <1>8, <2>1 DEF IsResponse
  <2>3. Reduced(u[2], kept, DOMAIN u[2].vals \ usageAllowlist)
    BY <2>2, KeepOnlyReduces
  <2>. DEFINE gone == DOMAIN u[2].vals \ usageAllowlist
              n == u[2]
  <2>4. DOMAIN kept.vals = DOMAIN n.vals \ gone /\ SameOutside(n, kept, gone)
    BY <2>3 DEF Reduced
  <2>5. ASSUME NEW x \in usageAllowlist, NEW s \in Secrets, Has(n, x)
        PROVE  Val(n, x) # Str(s)
    BY <1>8, <2>1, <2>5 DEF Conventional
  <2>. HIDE DEF kept, n
  <2>6. ASSUME NEW x \in DOMAIN kept.vals, NEW s \in Secrets
        PROVE  Val(kept, x) # Str(s)
    <3>1. x \in usageAllowlist /\ Has(n, x)
      BY <2>4 DEF Has, n
    <3>2. Val(kept, x) = Val(n, x)
      BY <2>4 DEF SameOutside, Val
    <3>. QED  BY <2>5, <3>1, <3>2
  <2>7. \A s \in Secrets : Obj(kept) # Str(s) /\ Str(s) \notin Values(kept)
    BY <2>6 DEF Obj, Str, Values
  <2>8. Obj(kept)[2] = kept
    BY DEF Obj
  <2>. QED  BY <2>1, <2>7, <2>8 DEF Names
<1>. QED  BY <1>4, <1>5, <1>6, <1>7, <1>8

----------------------------------------------------------------------------
(* The inductive invariant.                                                *)
IInv == Basics /\ InFlightExact /\ Prepared /\ Shape /\ Counted

LEMMA InitIInv == Init => IInv
<1>. SUFFICES ASSUME Init PROVE IInv
  OBVIOUS
<1>1. req = Idle /\ log = <<>> /\ resp = NoResponse /\ \A o \in Object : inFlight[o] = 0
  BY DEF Init, InitDispatch
<1>2. req.pc = "idle" /\ req.cands = {} /\ req.refused = {} /\ req.client = req.asked
  BY <1>1 DEF Idle
<1>3. InFlightExact
  BY <1>1, <1>2 DEF InFlightExact
<1>4. Prepared
  BY <1>2 DEF Prepared, Screened, Aged, Dated, Built, At, Preparing
<1>5. Shape
  BY <1>1, <1>2 DEF Shape, At
<1>6. Counted
  BY <1>2 DEF Counted, TokensTold, At
<1>. QED  BY <1>3, <1>4, <1>5, <1>6, InitTyped DEF IInv

LEMMA NextIInv == IInv /\ [Next]_vars => IInv' /\ [Promise!Next]_(Promise!rvars)
<1>. SUFFICES ASSUME IInv, [Next]_vars PROVE IInv' /\ [Promise!Next]_(Promise!rvars)
  OBVIOUS
<1>1. Typed' /\ Tracked'
  BY TypedNext, NewerObjects DEF IInv
<1>2. GateMoves /\ Serving /\ OutMoves
  BY GateMovesAll, ServingMoves, OutMovesAll DEF IInv
<1>3. Chosen'
  BY <1>1, <1>2, ChosenNext DEF IInv
<1>4. InFlightExact'
  BY <1>1, <1>2, <1>3, InFlightNext DEF IInv
<1>5. Screened'
  BY <1>2, ScreenedNext DEF IInv, Prepared
<1>6. Aged' /\ Dated' /\ Built'
  BY <1>1, <1>2, PreparedNext DEF IInv, Prepared
<1>7. Shape' /\ [Promise!Next]_(Promise!rvars)
  BY <1>1, LogNext DEF IInv
<1>8. Counted'
  BY <1>1, <1>2, CountedNext DEF IInv
<1>. QED  BY <1>1, <1>3, <1>4, <1>5, <1>6, <1>7, <1>8 DEF IInv, Basics, Prepared

(* IInv is an invariant of the exchange.                                    *)
THEOREM Invariant == Spec => []IInv
  BY InitIInv, NextIInv, PTL DEF Spec

(* The counter of an object counts the request sent to it, also when the   *)
(* upstream is removed, or removed and added again, while it is served.    *)
THEOREM CountedAtTheObject == Spec => []InFlightExact
<1>1. IInv => InFlightExact
  BY DEF IInv
<1>. QED  BY Invariant, <1>1, PTL

(* The parts of an HTTP request never go back in time, and never behind    *)
(* the configuration that the gates looked at, however often the registry  *)
(* moves the pointer that dispatch reads three times.                      *)
THEOREM PartsAreInOrder == Spec => []PartsInOrder
<1>1. IInv => PartsInOrder
  BY DEF IInv, Prepared, Aged, PartsInOrder, At
<1>. QED  BY Invariant, <1>1, PTL

(* On each way a stream may end, debts, window and syncer learn of the     *)
(* last usage that the upstream told.                                      *)
THEOREM TokensAreTold == Spec => []TokensTold
<1>1. IInv => TokensTold
  BY DEF IInv, Counted
<1>. QED  BY Invariant, <1>1, PTL

LEMMA ClientsAreRequests == \A q \in Clients : IsRequest(q)
<1>1. IsRequest(NewOrderedMap)
  <2>. DEFINE m == NewOrderedMap
  <2>1. m.keys = <<>> /\ DOMAIN m.vals = {} /\ DOMAIN m.keys = {}
    BY DEF NewOrderedMap
  <2>. HIDE DEF m
  <2>2. WellFormed(m)
    BY <2>1 DEF WellFormed, ToSet, IsInjective
  <2>3. Messages(m) = <<>> /\ IntAt(m, "max_tokens") = 0 /\ IntAt(m, "max_completion_tokens") = 0
    BY <2>1 DEF Messages, IntAt, Has
  <2>4. Messages(m) \in Seq(ChatMessage)
    BY <2>3
  <2>5. 0 \in -MaxInt - 1..MaxInt
    BY WireAssumption
  <2>. QED  BY <2>2, <2>3, <2>4, <2>5 DEF IsRequest, m
<1>. QED  BY <1>1, DispatchAssumption DEF Clients

(* At the moment the body exists, the gates have looked at the request it  *)
(* was made from.                                                          *)
LEMMA BuiltAndScreened ==
    ASSUME IInv, At("address")
    PROVE  /\ IsRequest(req.asked)
           /\ ValidUpstream(ConfigOf(out.bodyOf)) /\ ValidUpstream(ConfigOf(req.sel.at))
           /\ CanServe(ConfigOf(req.sel.at), ExtractSignals(req.asked))
           /\ out.body = BuildUpstreamRequest(req.asked, ConfigOf(out.bodyOf))
<1>1. req \in Request /\ req.pc = "address" /\ req.pc \in Preparing
  BY DEF IInv, Basics, Typed, At, Preparing
<1>2. req.sel \in Candidate
  BY <1>1 DEF IInv, Basics, Chosen, Request
<1>3. req.sel.object[1] \in Upstreams /\ req.sel.at \in 0..MaxEdits
  BY <1>2 DEF Candidate, Object
<1>4. out.bodyOf \in 0..MaxEdits
  BY <1>1 DEF IInv, Prepared, Dated
<1>5. req.client = req.asked /\ Fits(req.sel.object[1], req.sel.at)
  BY <1>1 DEF IInv, Prepared, Screened
<1>6. out.body = BuildUpstreamRequest(req.asked, ConfigOf(out.bodyOf))
  BY <1>5 DEF IInv, Prepared, Built
<1>7. IsRequest(req.asked)
  BY <1>1, ClientsAreRequests DEF Request
<1>8. ValidUpstream(ConfigOf(out.bodyOf)) /\ ValidUpstream(ConfigOf(req.sel.at))
  BY <1>3, <1>4, DispatchAssumption DEF ConfigOf
<1>9. CanServe(ConfigOf(req.sel.at), ExtractSignals(req.asked))
  BY <1>5 DEF Fits, ConfigOf
<1>. QED  BY <1>6, <1>7, <1>8, <1>9

(* The body an upstream gets is the client's request adapted to it alone:  *)
(* BuildUpstreamRequest leaves nothing that the quirks forbid, changes and *)
(* reorders nothing that they do not name, and sends no limit above the    *)
(* ceiling, whichever upstreams failed before.                             *)
THEOREM BodiesFit == Spec => []BodyFits
<1>1. IInv => BodyFits
  <2>1. IInv /\ At("address") => BodyFits
    BY BuiltAndScreened, FitsBody
  <2>2. ~ At("address") => BodyFits
    BY Zenon DEF BodyFits
  <2>. QED  BY <2>1, <2>2
<1>. QED  BY Invariant, <1>1, PTL

(* What an upstream is sent asks for nothing that the settings the gates   *)
(* looked at do not support, and fits into 95% of their context window     *)
(* unless the estimate overflowed: whatever the quirks of the settings the *)
(* body was made for, which may be newer ones.                             *)
THEOREM SentIsServable == Spec => []Servable
<1>1. IInv => Servable
  <2>1. IInv /\ At("address") => Servable
    BY BuiltAndScreened, ServableBody
  <2>2. ~ At("address") => Servable
    BY Zenon DEF Servable
  <2>. QED  BY <2>1, <2>2
<1>. QED  BY Invariant, <1>1, PTL

(* The gates turn an upstream down only for a request it could not serve,  *)
(* or one whose tools the code misreads.                                   *)
THEOREM CapableServe == Spec => []CapableNotRefused
<1>1. ASSUME IInv PROVE CapableNotRefused
  <2>1. req \in Request /\ req.client = req.asked
    BY <1>1 DEF IInv, Basics, Typed, Prepared, Screened
  <2>2. IsRequest(req.asked)
    BY <2>1, ClientsAreRequests DEF Request
  <2>. SUFFICES ASSUME NEW p \in req.refused
                PROVE  \/ ~ Meets(Settings[p[1]][p[2]], req.asked)
                       \/ Prompt(req.asked) + Completion(req.asked)
                             > SafeWindow(Settings[p[1]][p[2]])
                       \/ ~ Settings[p[1]][p[2]].tools /\ Misread(req.asked)
    BY Zenon DEF CapableNotRefused
  <2>3. p[1] \in Upstreams /\ p[2] \in 0..MaxEdits
    BY <2>1 DEF Request
  <2>4. ~ CanServe(Settings[p[1]][p[2]], ExtractSignals(req.asked))
    BY <1>1, <2>1 DEF IInv, Prepared, Screened, Fits
  <2>5. ValidUpstream(Settings[p[1]][p[2]])
    BY <2>3, DispatchAssumption
  <2>. QED  BY <2>2, <2>4, <2>5, RefusedRightly
<1>. QED  BY Invariant, <1>1, PTL

(* What the log holds of an object is the rewriting of an event.           *)
LEMMA LogHolds ==
    ASSUME IInv, NEW i \in DOMAIN log, Kind(log[i]) \in {"body", "data"}
    PROVE  \E p \in Objects : log[i][2] = Rewrite(p[2], PublicModel, RequestID)
<1>1. log[i] \in Message
  BY DEF IInv, Basics, Typed
<1>2. log[i] \notin {Open, Done, Error} \cup {Fatal(s) : s \in {"400", "404", "502", "504"}}
  BY DEF Kind, Open, Done, Error, Fatal
<1>3. PICK p \in Objects : log[i] = Image(p) \/ log[i] = Answer(p)
  BY <1>1, <1>2 DEF Message
<1>4. p # Done
  BY DEF Objects, Kind, Done
<1>. QED  BY <1>3, <1>4 DEF Image, Answer

LEMMA ObjectsAre ==
    ASSUME NEW p \in Objects
    PROVE  IsResponse(p[2]) /\ Conventional(p[2])
  BY StreamAssumption, OpacityAssumption DEF Objects, IsPayload, Done, Kind

(* No event and no answer names the upstream that it comes from, at any    *)
(* point of the exchange: whatever an upstream adds to a response is       *)
(* dropped, and its names for the model and the response are replaced.     *)
THEOREM IdentityIsKept == Spec => []Opaque
<1>1. ASSUME IInv PROVE Opaque
  <2>. SUFFICES ASSUME NEW i \in DOMAIN log, Kind(log[i]) \in {"body", "data"}
                PROVE  ~ Reveals(log[i][2])
    BY DEF Opaque
  <2>1. PICK p \in Objects : log[i][2] = Rewrite(p[2], PublicModel, RequestID)
    BY <1>1, LogHolds
  <2>. QED  BY <2>1, ObjectsAre, RewriteOpaque
<1>. QED  BY Invariant, <1>1, PTL

(* The types, and with them that keys and values agree in every object     *)
(* that is sent to an upstream or to the client.                           *)
THEOREM Types == Spec => []TypeOK
<1>1. ASSUME IInv PROVE TypeOK
  <2>1. req \in Request /\ out \in Outgoing
    BY <1>1 DEF IInv, Basics, Typed
  <2>2. WellFormed(out.body)
    <3>1. out.body = NewOrderedMap \/ \E q \in Clients, u \in Upstreams, e \in 0..MaxEdits :
             out.body = BuildUpstreamRequest(q, Settings[u][e])
      BY <2>1 DEF Outgoing, Bodies
    <3>2. WellFormed(NewOrderedMap)
      BY ClientsAreRequests DEF Clients, IsRequest
    <3>3. ASSUME NEW q \in Clients, NEW u \in Upstreams, NEW e \in 0..MaxEdits
          PROVE  WellFormed(BuildUpstreamRequest(q, Settings[u][e]))
      <4>1. IsRequest(q) /\ ValidUpstream(Settings[u][e])
        BY ClientsAreRequests, DispatchAssumption
      <4>. QED  BY <4>1, BuiltBody DEF BodyIs
    <3>. QED  BY <3>1, <3>2, <3>3
  <2>3. ASSUME NEW i \in DOMAIN log, Kind(log[i]) \in {"body", "data"}
        PROVE  WellFormed(log[i][2])
    <3>1. PICK p \in Objects : log[i][2] = Rewrite(p[2], PublicModel, RequestID)
      BY <1>1, <2>3, LogHolds
    <3>. QED  BY <3>1, ObjectsAre, RewriteWell
  <2>4. \A m \in Maps : WellFormed(m)
    BY <2>2, <2>3 DEF Maps
  <2>5. /\ req.pc \in {"idle", "gate", "build", "address", "authorize", "sent", "first",
                       "streaming", "over"}
        /\ req.attempt \in 0..MaxAttempts - 1
        /\ req.pool \cup req.tried \cup req.todo \subseteq Upstreams
        /\ req.cands \subseteq Candidate
        /\ req.sel = None \/ req.sel \in Candidate
    BY <2>1 DEF Request, Silent, Preparing, Committed
  <2>6. ctx \in {"live", "expired", "gone"} /\ inFlight \in [Object -> Int]
    BY <1>1 DEF IInv, Basics, Typed
  <2>. QED  BY <2>4, <2>5, <2>6 DEF TypeOK
<1>. QED  BY Invariant, <1>1, PTL

(* The client sees one error, one answer, or one stream from one upstream  *)
(* that ends once: every step of the exchange is one that Relay.tla allows.*)
THEOREM RelayIsKept == Spec => ImplementsRelay
<1>1. Init => Promise!Init
  BY DEF Init, InitDispatch, Idle, Promise!Init
<1>. QED  BY <1>1, Invariant, NextIInv, PTL DEF Spec, ImplementsRelay, Promise!Spec

=============================================================================
