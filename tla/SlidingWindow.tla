--------------------------- MODULE SlidingWindow ---------------------------
(***************************************************************************)
(* The ring of per-minute token counters behind Upstream.TokensSent and    *)
(* Upstream.tpmWindow: internal/upstream/window.go.                        *)
(*                                                                         *)
(* It has no lock.  Add is an atomic swap of the slot's minute stamp, a    *)
(* store of zero if the stamp was old, and an atomic add: three steps      *)
(* here, which the Adds of concurrent requests may interleave.             *)
(***************************************************************************)
EXTENDS Integers, FiniteSets, Functions

CONSTANTS
    Adders,      \* goroutines that call Add
    Slots,       \* slidingWindowBuckets
    FirstMinute, \* the clock when the window is created
    LastMinute,  \* bound on the clock
    MaxTokens    \* bound on the tokens added in a minute, one per Add

(* A stamp of 0, which every slot starts with, is further back than the    *)
(* window reaches: Unix minutes are about 29 million.                      *)
ASSUME WindowAssumption ==
    /\ IsFiniteSet(Adders)
    /\ Slots \in Nat \ {0, 1}
    /\ FirstMinute \in Nat /\ FirstMinute > Slots
    /\ LastMinute \in Nat /\ LastMinute >= FirstMinute
    /\ MaxTokens \in Nat

VARIABLES
    now,        \* minute()
    stamp,      \* bucketMin
    bucket,     \* buckets
    add,        \* each goroutine's Add: where it is, and its minute
    added,      \* history: tokens whose Add completed, by minute
    overtaken   \* history: minutes in which one Add overtook another's reset

vars == <<now, stamp, bucket, add, added, overtaken>>

Minutes == FirstMinute..LastMinute

Slot(minute) == minute % Slots

Idle == [pc |-> "idle", minute |-> 0]

Init ==
    /\ now = FirstMinute
    /\ stamp = [i \in 0..Slots - 1 |-> 0]
    /\ bucket = [i \in 0..Slots - 1 |-> 0]
    /\ add = [p \in Adders |-> Idle]
    /\ added = [m \in Minutes |-> 0]
    /\ overtaken = {}

Busy(m) == {p \in Adders : add[p].pc # "idle" /\ add[p].minute = m}

(* An Add does not take so long that the ring comes around to its slot:    *)
(* an hour in the code.  The history forgets the minute that falls out of  *)
(* the window.                                                             *)
Tick ==
    /\ now < LastMinute
    /\ Busy(now + 1 - Slots) = {}
    /\ now' = now + 1
    /\ added' = [m \in Minutes |-> IF m = now + 1 - Slots THEN 0 ELSE added[m]]
    /\ overtaken' = overtaken \ {now + 1 - Slots}
    /\ UNCHANGED <<stamp, bucket, add>>

----------------------------------------------------------------------------
(* Add(1)                                                                  *)

Begin(p) ==
    /\ add[p].pc = "idle"
    /\ added[now] + Cardinality(Busy(now)) < MaxTokens
    /\ add' = [add EXCEPT ![p] = [pc |-> "swap", minute |-> now]]
    /\ UNCHANGED <<now, stamp, bucket, added, overtaken>>

Resetting(m) == {p \in Busy(m) : add[p].pc = "reset"}

Swap(p) ==
    LET m == add[p].minute
        i == Slot(m)
    IN
    /\ add[p].pc = "swap"
    /\ stamp' = [stamp EXCEPT ![i] = m]
    /\ add' = [add EXCEPT ![p].pc = IF stamp[i] # m THEN "reset" ELSE "add"]
    /\ overtaken' = IF Resetting(m) # {} THEN overtaken \cup {m} ELSE overtaken
    /\ UNCHANGED <<now, bucket, added>>

Reset(p) ==
    /\ add[p].pc = "reset"
    /\ bucket' = [bucket EXCEPT ![Slot(add[p].minute)] = 0]
    /\ add' = [add EXCEPT ![p].pc = "add"]
    /\ UNCHANGED <<now, stamp, added, overtaken>>

(* Mutant: a compare-and-swap loop that may go on after it succeeded.      *)
AddDeltaAgain(p) ==
    LET m == add[p].minute IN
    /\ add[p].pc = "add"
    /\ bucket' = [bucket EXCEPT ![Slot(m)] = @ + 1]
    /\ added' = [added EXCEPT ![m] = @ + 1]
    /\ add' \in {add, [add EXCEPT ![p] = Idle]}
    /\ UNCHANGED <<now, stamp, overtaken>>

AddDelta(p) ==
    LET m == add[p].minute IN
    /\ add[p].pc = "add"
    /\ bucket' = [bucket EXCEPT ![Slot(m)] = @ + 1]
    /\ added' = [added EXCEPT ![m] = @ + 1]
    /\ add' = [add EXCEPT ![p] = Idle]
    /\ UNCHANGED <<now, stamp, overtaken>>

Next ==
    \/ Tick
    \/ \E p \in Adders : Begin(p) \/ Swap(p) \/ Reset(p) \/ AddDelta(p)

Spec == Init /\ [][Next]_vars

----------------------------------------------------------------------------
(* The sums, as the code takes them from stamps and buckets.               *)

(* Mutant: the window is one minute too long.                              *)
SumTooLong ==
    SumFunctionOnSet(bucket, {i \in 0..Slots - 1 : stamp[i] >= now - Slots})

Sum == SumFunctionOnSet(bucket, {i \in 0..Slots - 1 : stamp[i] > now - Slots})

(* What the slots hold, by the minute asked for.                           *)
Held(minutes) == [m \in minutes |-> bucket[Slot(m)]]

(* Mutant: the current slot is read without looking at its stamp.          *)
SumLastMinutesUnstamped(n) ==
    LET last == {now - i : i \in 0..n - 1} IN SumFunctionOnSet(Held(last), last)

SumLastMinutes(n) ==
    LET current == {m \in {now - i : i \in 0..n - 1} : stamp[Slot(m)] = m}
    IN  SumFunctionOnSet(Held(current), current)

----------------------------------------------------------------------------
(* Properties                                                              *)

TypeOK ==
    /\ now \in Minutes
    /\ stamp \in [0..Slots - 1 -> {0} \cup Minutes]
    /\ bucket \in [0..Slots - 1 -> 0..2 * MaxTokens]
    /\ add \in [Adders -> [pc : {"idle", "swap", "reset", "add"},
                           minute : {0} \cup Minutes]]
    /\ added \in [Minutes -> 0..MaxTokens]
    /\ overtaken \subseteq Minutes

Trailing(n) == {m \in Minutes : m > now - n}

Truth(n) == SumFunctionOnSet(added, Trailing(n))

NoReset(n) == \A m \in Trailing(n) : Resetting(m) = {}

(* As long as no Add overtakes another that has swapped the stamp and not  *)
(* yet reset the bucket, both sums are exact at every moment when no reset *)
(* is pending, however the ring has wrapped and minutes were skipped.      *)
SumsExact ==
    /\ NoReset(Slots) /\ overtaken = {} => Sum = Truth(Slots)
    /\ \A n \in 1..Slots :
          NoReset(n) /\ overtaken \cap Trailing(n) = {} =>
              SumLastMinutes(n) = Truth(n)

(* Even with overtaking Adds, tokens of an earlier hour are never counted  *)
(* as this minute's once the reset is done: the TPM gate may then let too  *)
(* much through, but does not refuse for tokens nobody sent.               *)
NeverOverstated ==
    \A n \in 1..Slots : NoReset(n) => SumLastMinutes(n) <= Truth(n)

(* window.go:42-43: Add "records delta tokens against the current minute's *)
(* bucket".  An Add that passes another's pending reset is wiped out.      *)
AddRecorded ==
    (\A p \in Adders : add[p].pc = "idle") => SumLastMinutes(1) = Truth(1)

=============================================================================
