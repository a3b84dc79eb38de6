----------------------------- MODULE RedisSync -----------------------------
(***************************************************************************)
(* Router instances that share delivery counters through Redis:            *)
(* internal/redisync/redisync.go and store.go, for one key, that is one    *)
(* public model and one of its upstreams.  syncOne treats each key by      *)
(* itself, one after the other.                                            *)
(*                                                                         *)
(* Requests deliver tokens while the syncer's goroutine is between its     *)
(* steps: it reads the pending amount under s.mu, talks to Redis without   *)
(* it, books the reply under s.mu, and nudges the debts after unlocking.   *)
(*                                                                         *)
(* Debts are signed sums over upstreams (Router.tla); what matters here is *)
(* how many tokens of this upstream they account for, own and remote, and  *)
(* how many they leave out for good: ApplyDelivery does nothing for        *)
(* candidates that weigh nothing together (a fallback of weight 0 is       *)
(* valid), but the delivery is recorded for the syncer all the same; and a *)
(* remote delta that cannot be applied, because a reload took the upstream *)
(* or the model away, is gone: the syncer has booked it already.           *)
(***************************************************************************)
EXTENDS Integers, FiniteSets, FiniteSetsExt

CONSTANTS
    Instances,
    MaxDelivered,   \* bound on the tokens delivered in a behaviour
    MaxUnapplied,   \* bound on what the debts of an instance leave out
    MaxRestarts,    \* bound on restarts
    MaxLost         \* bound on what is published with its reply lost

ASSUME RedisAssumption ==
    /\ IsFiniteSet(Instances)
    /\ MaxDelivered \in Nat /\ MaxUnapplied \in Nat
    /\ MaxRestarts \in Nat /\ MaxLost \in Nat

VARIABLES
    own,            \* tokens this instance delivered, applied to its debts
    remote,         \* tokens others delivered, applied to its debts
    unapplied,      \* history: tokens ApplyDelivery was to apply, but did not
    unrecorded,     \* own tokens not yet passed to RecordLocalDelivery
    localSinceSync, \* Syncer.localSinceSync[k]
    lastKnown,      \* Syncer.lastKnownGlobal[k]
    sync,           \* syncOne: where it is, its pending, its newGlobal or delta
    global,         \* the counter in Redis
    published,      \* history: what Redis got from the instance's current life
    lost,           \* history: the part of it whose replies were lost
    delivered,      \* history: tokens delivered, ever
    restarts        \* history: number of restarts

vars == <<own, remote, unapplied, unrecorded, localSinceSync, lastKnown, sync,
          global, published, lost, delivered, restarts>>

Resting == [pc |-> "rest", pending |-> 0, value |-> 0]

Init ==
    /\ own = [i \in Instances |-> 0]
    /\ remote = [i \in Instances |-> 0]
    /\ unapplied = [i \in Instances |-> 0]
    /\ unrecorded = [i \in Instances |-> 0]
    /\ localSinceSync = [i \in Instances |-> 0]
    /\ lastKnown = [i \in Instances |-> 0]
    /\ sync = [i \in Instances |-> Resting]
    /\ global = 0
    /\ published = [i \in Instances |-> 0]
    /\ lost = [i \in Instances |-> 0]
    /\ delivered = 0
    /\ restarts = 0

----------------------------------------------------------------------------
(* A request delivers a token: router.ApplyDelivery, then                  *)
(* RecordLocalDelivery, whatever the former did.                           *)

(* ApplyDelivery is not called, or returns without touching the debts.     *)
LeaveOut(i, tokens) ==
    /\ unapplied[i] + tokens <= MaxUnapplied
    /\ unapplied' = [unapplied EXCEPT ![i] = @ + tokens]

Deliver(i) ==
    /\ delivered < MaxDelivered
    /\ delivered' = delivered + 1
    /\ \/ own' = [own EXCEPT ![i] = @ + 1] /\ UNCHANGED unapplied
       \/ LeaveOut(i, 1) /\ UNCHANGED own
    /\ unrecorded' = [unrecorded EXCEPT ![i] = @ + 1]
    /\ UNCHANGED <<remote, localSinceSync, lastKnown, sync, global,
                   published, lost, restarts>>

(* Mutant: the delivery is not recorded for the syncer.                    *)
RecordNothing(i) ==
    /\ unrecorded[i] > 0
    /\ unrecorded' = [unrecorded EXCEPT ![i] = @ - 1]
    /\ UNCHANGED <<own, remote, unapplied, localSinceSync, lastKnown, sync,
                   global, published, lost, delivered, restarts>>

RecordLocalDelivery(i) ==
    /\ unrecorded[i] > 0
    /\ unrecorded' = [unrecorded EXCEPT ![i] = @ - 1]
    /\ localSinceSync' = [localSinceSync EXCEPT ![i] = @ + 1]
    /\ UNCHANGED <<own, remote, unapplied, lastKnown, sync, global,
                   published, lost, delivered, restarts>>

----------------------------------------------------------------------------
(* syncOne                                                                 *)

(* Mutant: what is pending is taken, and subtracted again when booking.    *)
ReadPendingTakes(i) ==
    /\ sync[i].pc = "rest"
    /\ sync' = [sync EXCEPT ![i] =
           [pc |-> "store", pending |-> localSinceSync[i], value |-> 0]]
    /\ localSinceSync' = [localSinceSync EXCEPT ![i] = 0]
    /\ UNCHANGED <<own, remote, unapplied, unrecorded, lastKnown, global,
                   published, lost, delivered, restarts>>

ReadPending(i) ==
    /\ sync[i].pc = "rest"
    /\ sync' = [sync EXCEPT ![i] =
           [pc |-> "store", pending |-> localSinceSync[i], value |-> 0]]
    /\ UNCHANGED <<own, remote, unapplied, unrecorded, localSinceSync,
                   lastKnown, global, published, lost, delivered, restarts>>

(* IncrByFloat, or Get if nothing is pending, takes effect in Redis.       *)
Store(i) ==
    /\ sync[i].pc = "store"
    /\ global' = global + sync[i].pending
    /\ published' = [published EXCEPT ![i] = @ + sync[i].pending]
    /\ UNCHANGED <<own, remote, unapplied, unrecorded, localSinceSync,
                   lastKnown, delivered, restarts>>

Answer(i) ==
    /\ Store(i)
    /\ sync' = [sync EXCEPT ![i].pc = "book", ![i].value = global']
    /\ UNCHANGED lost

(* The command takes effect, but the call returns an error: the connection *)
(* breaks, or ctx ends, between the command and its reply.                 *)
ReplyLost(i) ==
    /\ sync[i].pending > 0
    /\ lost[i] + sync[i].pending <= MaxLost
    /\ Store(i)
    /\ lost' = [lost EXCEPT ![i] = @ + sync[i].pending]
    /\ sync' = [sync EXCEPT ![i] = Resting]

(* Mutant: a failed call is booked as if it had published.                 *)
StoreFailsBooked(i) ==
    /\ sync[i].pc = "store"
    /\ localSinceSync' = [localSinceSync EXCEPT ![i] = @ - sync[i].pending]
    /\ sync' = [sync EXCEPT ![i] = Resting]
    /\ UNCHANGED <<own, remote, unapplied, unrecorded, lastKnown, global,
                   published, lost, delivered, restarts>>

StoreFails(i) ==
    /\ sync[i].pc = "store"
    /\ sync' = [sync EXCEPT ![i] = Resting]
    /\ UNCHANGED <<own, remote, unapplied, unrecorded, localSinceSync,
                   lastKnown, global, published, lost, delivered, restarts>>

(* Booking with any rule for what is left to publish and what is remote.   *)
BookAs(i, left, remoteDelta) ==
    /\ sync[i].pc = "book"
    /\ localSinceSync' = [localSinceSync EXCEPT ![i] = left]
    /\ lastKnown' = [lastKnown EXCEPT ![i] = sync[i].value]
    /\ sync' = [sync EXCEPT ![i] =
           IF remoteDelta > 0
           THEN [pc |-> "nudge", pending |-> 0, value |-> remoteDelta]
           ELSE Resting]
    /\ UNCHANGED <<own, remote, unapplied, unrecorded, global, published,
                   lost, delivered, restarts>>

(* Mutants: what was delivered during the call is forgotten; the own       *)
(* contribution counts as remote.                                          *)
BookClears(i) ==
    BookAs(i, 0, (sync[i].value - lastKnown[i]) - sync[i].pending)

BookAllRemote(i) ==
    BookAs(i, localSinceSync[i] - sync[i].pending, sync[i].value - lastKnown[i])

Book(i) ==
    BookAs(i, localSinceSync[i] - sync[i].pending,
           (sync[i].value - lastKnown[i]) - sync[i].pending)

(* router.ApplyDelivery of the remote tokens, if upstream and model are    *)
(* still there.                                                            *)
Nudge(i) ==
    /\ sync[i].pc = "nudge"
    /\ \/ /\ remote' = [remote EXCEPT ![i] = @ + sync[i].value]
          /\ UNCHANGED unapplied
       \/ LeaveOut(i, sync[i].value) /\ UNCHANGED remote
    /\ sync' = [sync EXCEPT ![i] = Resting]
    /\ UNCHANGED <<own, unrecorded, localSinceSync, lastKnown, global,
                   published, lost, delivered, restarts>>

----------------------------------------------------------------------------
(* The process restarts: nothing of it is stored outside Redis.            *)
Restart(i) ==
    /\ restarts < MaxRestarts
    /\ restarts' = restarts + 1
    /\ own' = [own EXCEPT ![i] = 0]
    /\ remote' = [remote EXCEPT ![i] = 0]
    /\ unapplied' = [unapplied EXCEPT ![i] = 0]
    /\ unrecorded' = [unrecorded EXCEPT ![i] = 0]
    /\ localSinceSync' = [localSinceSync EXCEPT ![i] = 0]
    /\ lastKnown' = [lastKnown EXCEPT ![i] = 0]
    /\ sync' = [sync EXCEPT ![i] = Resting]
    /\ published' = [published EXCEPT ![i] = 0]
    /\ lost' = [lost EXCEPT ![i] = 0]
    /\ UNCHANGED <<global, delivered>>

Next ==
    \E i \in Instances :
        \/ Deliver(i) \/ RecordLocalDelivery(i)
        \/ ReadPending(i) \/ Answer(i) \/ ReplyLost(i) \/ StoreFails(i)
        \/ Book(i) \/ Nudge(i)
        \/ Restart(i)

Spec == Init /\ [][Next]_vars

(* Every instance's requests and ticker go on; Redis may fail, but not     *)
(* always.                                                                 *)
Fairness ==
    \A i \in Instances :
        /\ WF_vars(RecordLocalDelivery(i))
        /\ WF_vars(ReadPending(i))
        /\ SF_vars(Answer(i))
        /\ WF_vars(Book(i) \/ Nudge(i))

FairSpec == Spec /\ Fairness

----------------------------------------------------------------------------
(* Properties                                                              *)

TypeOK ==
    /\ own \in [Instances -> 0..MaxDelivered]
    /\ remote \in [Instances -> Nat]
    /\ unapplied \in [Instances -> 0..MaxUnapplied]
    /\ unrecorded \in [Instances -> 0..MaxDelivered]
    /\ localSinceSync \in [Instances -> 0..MaxDelivered]
    /\ lastKnown \in [Instances -> Nat]
    /\ sync \in [Instances ->
           [pc : {"rest", "store", "book", "nudge"}, pending : 0..MaxDelivered,
            value : Nat]]
    /\ global \in Nat
    /\ published \in [Instances -> Nat]
    /\ lost \in [Instances -> 0..MaxLost]
    /\ delivered \in 0..MaxDelivered
    /\ restarts \in 0..MaxRestarts

(* redisync.go:14: "no instance double-counts its own deliveries".  What   *)
(* an instance applies as remote is what others gave to Redis, and nothing *)
(* of its own but what was published with its reply lost: that is          *)
(* published once more, and the first time taken for remote.               *)
NoDoubleCount ==
    \A i \in Instances : remote[i] <= (global - published[i]) + lost[i]

(* Between two syncs the books balance: what the debts account for and     *)
(* what they were told of in vain is what the counter said last plus what  *)
(* has not been published, whatever was delivered during the sync and      *)
(* however often Redis failed, with or without effect.                     *)
Booked(i) == own[i] + remote[i] + unapplied[i]

BooksBalance ==
    \A i \in Instances :
        sync[i].pc = "rest" =>
            Booked(i) = lastKnown[i] + localSinceSync[i] + unrecorded[i]

(* Once deliveries stop, every instance has booked the whole counter.  Its *)
(* debts account for all of it, and so for the same tokens as the others', *)
(* but for those it left out: they are not made up for.                    *)
Converges == <>[](\A i \in Instances : Booked(i) = global)

(* The cluster keeps the promise of Tally.tla: the tally is what Redis     *)
(* holds and what is still on its way there.                               *)
OnItsWay(i) ==
    unrecorded[i] + localSinceSync[i]
      - (IF sync[i].pc = "book" THEN sync[i].pending ELSE 0)

OnTheWay == SumFunctionOnSet([i \in Instances |-> OnItsWay(i)], Instances)

Promise == INSTANCE Tally WITH
    tally <- global + OnTheWay,
    view  <- [i \in Instances |-> own[i] + remote[i]]

ImplementsTally == Promise!Spec

=============================================================================
