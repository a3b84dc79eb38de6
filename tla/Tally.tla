------------------------------- MODULE Tally -------------------------------
(***************************************************************************)
(* What cross-instance synchronisation promises about one upstream, as if  *)
(* there were no counter, no messages and no failures to talk about        *)
(* (package comment of internal/redisync): deliveries add to one common    *)
(* tally; an instance accounts for its own at once and catches up with     *)
(* the others' later; it never accounts for more than the tally.  It may   *)
(* leave tokens out for good, its own included (candidates without weight, *)
(* an upstream that a reload took away).  A restarted instance starts over,*)
(* and what it had not published is lost to the tally; what was published  *)
(* without a reply may be in it twice.                                     *)
(***************************************************************************)
EXTENDS Integers

CONSTANT Instances

VARIABLES
    tally,      \* tokens delivered by the cluster
    view        \* tokens each instance's debts account for

tvars == <<tally, view>>

Init ==
    /\ tally = 0
    /\ view = [i \in Instances |-> 0]

Deliver(i) ==
    /\ tally' = tally + 1
    /\ view' \in {view, [view EXCEPT ![i] = @ + 1]}

CatchUp(i) ==
    /\ view[i] < tally
    /\ \E n \in view[i] + 1 .. tally : view' = [view EXCEPT ![i] = n]
    /\ UNCHANGED tally

Republish ==
    /\ tally' \in tally + 1 .. 2 * tally
    /\ UNCHANGED view

Restart(i) ==
    /\ tally' \in 0..tally
    /\ view' = [view EXCEPT ![i] = 0]

Next ==
    \/ \E i \in Instances : Deliver(i) \/ CatchUp(i) \/ Restart(i)
    \/ Republish

Spec == Init /\ [][Next]_tvars
============================================================================
