-------------------------- MODULE RedisSyncProofs --------------------------
(***************************************************************************)
(* Synchronisation through Redis for any instances and any number of       *)
(* deliveries, restarts and lost replies: the books balance, and what is   *)
(* taken for remote exceeds what others published by lost replies at most. *)
(*                                                                         *)
(* The argument: what an instance published with a known reply, plus what  *)
(* it has still to publish, is among the tokens it delivered or left out   *)
(* (OwnBooked); what it booked is what it last read plus what it has to    *)
(* publish (AllBooked); and what it read is not more than Redis holds      *)
(* (Known).                                                                *)
(***************************************************************************)
EXTENDS RedisSync, DataTheorems

InBook(i) == IF sync[i].pc = "book" THEN sync[i].pending ELSE 0
InNudge(i) == IF sync[i].pc = "nudge" THEN sync[i].value ELSE 0

OwnBooked(i) ==
    own[i] + unapplied[i]
        >= (published[i] - lost[i]) + localSinceSync[i] + unrecorded[i] - InBook(i)

AllBooked(i) ==
    Booked(i) + InNudge(i) = lastKnown[i] + localSinceSync[i] + unrecorded[i]

Known(i) ==
    /\ lastKnown[i] <= global
    /\ sync[i].pc = "book" =>
          lastKnown[i] + sync[i].pending <= sync[i].value /\ sync[i].value <= global

(* What is pending has not been booked; what is unpublished was delivered. *)
Unpublished(i) ==
    /\ sync[i].pc \in {"store", "book"} => sync[i].pending <= localSinceSync[i]
    /\ unrecorded[i] + localSinceSync[i] <= delivered
    /\ own[i] <= delivered

Books == \A i \in Instances :
    OwnBooked(i) /\ AllBooked(i) /\ Known(i) /\ Unpublished(i)

IInv == TypeOK /\ Books

USE RedisAssumption DEF RedisAssumption

SyncState == [pc : {"rest", "store", "book", "nudge"}, pending : 0..MaxDelivered,
              value : Nat]

----------------------------------------------------------------------------

LEMMA RestingIsRest ==
    /\ Resting \in SyncState
    /\ Resting.pc = "rest"
  BY DEF Resting, SyncState

LEMMA InitEstablishes == Init => IInv
<1>. SUFFICES ASSUME Init PROVE IInv
  OBVIOUS
<1>1. TypeOK
  BY RestingIsRest DEF Init, TypeOK, SyncState
<1>2. Books
  BY DEF Init, Resting, Books, OwnBooked, AllBooked, Booked, Known, Unpublished, InBook, InNudge
<1>. QED  BY <1>1, <1>2 DEF IInv

(* An instance whose own part of the state a step leaves alone keeps its   *)
(* books: the counter and the number of deliveries only grow.              *)
Untouched(i) ==
    /\ own'[i] = own[i] /\ remote'[i] = remote[i] /\ unapplied'[i] = unapplied[i]
    /\ unrecorded'[i] = unrecorded[i]
    /\ localSinceSync'[i] = localSinceSync[i] /\ lastKnown'[i] = lastKnown[i]
    /\ sync'[i] = sync[i] /\ published'[i] = published[i] /\ lost'[i] = lost[i]

OneBook(i) == OwnBooked(i) /\ AllBooked(i) /\ Known(i) /\ Unpublished(i)

LEMMA OthersKeep ==
    ASSUME TypeOK, NEW i \in Instances, OneBook(i), Untouched(i),
           global' \in Nat, global <= global', delivered' \in Nat, delivered <= delivered'
    PROVE  OneBook(i)'
<1>. USE DEF Untouched, TypeOK
<1>1. OwnBooked(i)' /\ AllBooked(i)'
  BY DEF OneBook, OwnBooked, AllBooked, Booked, InBook, InNudge
<1>2. Known(i)'
  BY DEF OneBook, Known
<1>3. Unpublished(i)'
  BY DEF OneBook, Unpublished
<1>. QED  BY <1>1, <1>2, <1>3 DEF OneBook

(* What a step of one instance has to show.                                *)
Step(j) ==
    /\ \A i \in Instances \ {j} : Untouched(i)
    /\ global <= global' /\ delivered <= delivered'

LEMMA StepKeeps ==
    ASSUME IInv, NEW j \in Instances, TypeOK', OneBook(j)', Step(j)
    PROVE  IInv'
<1>1. ASSUME NEW i \in Instances, i # j
      PROVE  OneBook(i)'
  <2>1. OneBook(i) /\ TypeOK
    BY DEF IInv, Books, OneBook
  <2>2. /\ global' \in Nat /\ global <= global'
        /\ delivered' \in Nat /\ delivered <= delivered'
    BY DEF Step, TypeOK
  <2>3. Untouched(i)
    BY <1>1 DEF Step
  <2>. QED  BY <2>1, <2>2, <2>3, OthersKeep
<1>2. \A i \in Instances : OneBook(i)'
  BY <1>1
<1>. QED  BY <1>2 DEF IInv, Books, OneBook

(* The numbers of one instance.                                            *)
LEMMA Numbers ==
    ASSUME IInv, NEW j \in Instances
    PROVE  /\ own[j] \in Nat /\ remote[j] \in Nat /\ unapplied[j] \in Nat
           /\ unrecorded[j] \in Nat
           /\ localSinceSync[j] \in Nat /\ lastKnown[j] \in Nat
           /\ published[j] \in Nat /\ lost[j] \in Nat
           /\ sync[j].pending \in Nat /\ sync[j].value \in Nat
           /\ global \in Nat /\ delivered \in Nat
           /\ sync[j] \in SyncState
           /\ unrecorded[j] + localSinceSync[j] <= delivered /\ own[j] <= delivered
           /\ delivered <= MaxDelivered
<1>1. TypeOK /\ Unpublished(j)
  BY DEF IInv, Books
<1>. QED  BY <1>1 DEF TypeOK, Unpublished, SyncState

LEMMA DeliverKeeps ==
    ASSUME IInv, NEW j \in Instances, Deliver(j)
    PROVE  IInv'
<1>1. TypeOK /\ OneBook(j)
  BY DEF IInv, Books, OneBook
<1>2. TypeOK'
  <2>1. delivered \in Nat /\ delivered < MaxDelivered /\ delivered' = delivered + 1
    BY Numbers DEF Deliver
  <2>2. delivered' \in 0..MaxDelivered
    BY <2>1
  <2>3. own' \in [Instances -> 0..MaxDelivered]
    <3>1. own[j] + 1 \in 0..MaxDelivered
      BY <2>1, Numbers
    <3>. QED  BY <1>1, <3>1 DEF Deliver, TypeOK
  <2>4. unapplied' \in [Instances -> 0..MaxUnapplied]
    BY <1>1, Numbers DEF Deliver, LeaveOut, TypeOK
  <2>5. unrecorded' \in [Instances -> 0..MaxDelivered]
    <3>1. unrecorded[j] + 1 \in 0..MaxDelivered
      BY <2>1, Numbers
    <3>. QED  BY <1>1, <3>1 DEF Deliver, TypeOK
  <2>. QED  BY <1>1, <2>2, <2>3, <2>4, <2>5 DEF Deliver, TypeOK
<1>3. Step(j)
  BY <1>1 DEF Deliver, LeaveOut, TypeOK, Step, Untouched
<1>4. OwnBooked(j)' /\ AllBooked(j)'
  <2>1. InBook(j)' = InBook(j) /\ InNudge(j)' = InNudge(j)
    BY DEF Deliver, InBook, InNudge
  <2>2. InBook(j) \in Nat /\ InNudge(j) \in Nat
    BY Numbers DEF InBook, InNudge
  <2>3. /\ own'[j] + unapplied'[j] = own[j] + unapplied[j] + 1
        /\ own'[j] \in Nat /\ unapplied'[j] \in Nat
        /\ unrecorded'[j] = unrecorded[j] + 1
    BY <1>1, Numbers DEF Deliver, LeaveOut, TypeOK
  <2>4. OwnBooked(j)'
    <3>1. OwnBooked(j)
      BY <1>1 DEF OneBook
    <3>2. /\ published'[j] = published[j] /\ lost'[j] = lost[j]
          /\ localSinceSync'[j] = localSinceSync[j]
      BY DEF Deliver
    <3>3. /\ own[j] \in Nat /\ published[j] \in Nat /\ lost[j] \in Nat
          /\ unapplied[j] \in Nat /\ unrecorded[j] \in Nat /\ localSinceSync[j] \in Nat
      BY Numbers
    <3>. QED  BY <3>1, <3>2, <3>3, <2>1, <2>2, <2>3, SMTT(30) DEF OwnBooked
  <2>5. AllBooked(j)'
    <3>1. AllBooked(j)
      BY <1>1 DEF OneBook
    <3>2. /\ remote'[j] = remote[j] /\ lastKnown'[j] = lastKnown[j]
          /\ localSinceSync'[j] = localSinceSync[j]
      BY DEF Deliver
    <3>3. /\ own[j] \in Nat /\ remote[j] \in Nat /\ unapplied[j] \in Nat
          /\ unrecorded[j] \in Nat
          /\ localSinceSync[j] \in Nat /\ lastKnown[j] \in Nat
      BY Numbers
    <3>. QED  BY <3>1, <3>2, <3>3, <2>1, <2>2, <2>3, SMTT(30) DEF AllBooked, Booked
  <2>. QED  BY <2>4, <2>5
<1>5. Known(j)' /\ Unpublished(j)'
  BY <1>1, Numbers DEF Deliver, LeaveOut, TypeOK, OneBook, Known, Unpublished
<1>. QED  BY <1>2, <1>3, <1>4, <1>5, StepKeeps DEF OneBook

LEMMA RecordLocalDeliveryKeeps ==
    ASSUME IInv, NEW j \in Instances, RecordLocalDelivery(j)
    PROVE  IInv'
<1>1. TypeOK /\ OneBook(j)
  BY DEF IInv, Books, OneBook
<1>2. TypeOK'
  BY <1>1, Numbers DEF RecordLocalDelivery, TypeOK
<1>3. Step(j)
  BY <1>1 DEF RecordLocalDelivery, TypeOK, Step, Untouched
<1>4. OwnBooked(j)' /\ AllBooked(j)'
  <2>1. InBook(j)' = InBook(j) /\ InNudge(j)' = InNudge(j)
    BY DEF RecordLocalDelivery, InBook, InNudge
  <2>2. InBook(j) \in Nat /\ InNudge(j) \in Nat
    BY Numbers DEF InBook, InNudge
  <2>3. localSinceSync'[j] = localSinceSync[j] + 1
        /\ unrecorded'[j] = unrecorded[j] - 1
    BY <1>1 DEF RecordLocalDelivery, TypeOK
  <2>4. /\ own'[j] = own[j] /\ remote'[j] = remote[j] /\ unapplied'[j] = unapplied[j]
        /\ lastKnown'[j] = lastKnown[j]
        /\ published'[j] = published[j] /\ lost'[j] = lost[j]
    BY DEF RecordLocalDelivery
  <2>5. /\ own[j] \in Nat /\ remote[j] \in Nat /\ unapplied[j] \in Nat
        /\ lastKnown[j] \in Nat
        /\ published[j] \in Nat /\ lost[j] \in Nat
        /\ unrecorded[j] \in Nat /\ localSinceSync[j] \in Nat
    BY Numbers
  <2>6. OwnBooked(j) /\ AllBooked(j)
    BY <1>1 DEF OneBook
  <2>7. OwnBooked(j)'
    BY <2>1, <2>2, <2>3, <2>4, <2>5, <2>6, SMTT(30) DEF OwnBooked
  <2>8. AllBooked(j)'
    <3>1. Booked(j)' = Booked(j) /\ Booked(j) \in Nat
      BY <2>4, <2>5 DEF Booked
    <3>2. unrecorded'[j] + localSinceSync'[j] = unrecorded[j] + localSinceSync[j]
      BY <2>3, <2>5
    <3>3. lastKnown'[j] = lastKnown[j] /\ AllBooked(j)
      BY <2>4, <2>6
    <3>4. unrecorded'[j] \in Int /\ localSinceSync'[j] \in Int
      BY <2>3, <2>5
    <3>. QED  BY <2>1, <2>2, <2>5, <3>1, <3>2, <3>3, <3>4 DEF AllBooked
  <2>. QED  BY <2>7, <2>8
<1>5. Known(j)' /\ Unpublished(j)'
  BY <1>1 DEF RecordLocalDelivery, TypeOK, OneBook, Known, Unpublished
<1>. QED  BY <1>2, <1>3, <1>4, <1>5, StepKeeps DEF OneBook

LEMMA ReadPendingKeeps ==
    ASSUME IInv, NEW j \in Instances, ReadPending(j)
    PROVE  IInv'
<1>1. TypeOK /\ OneBook(j)
  BY DEF IInv, Books, OneBook
<1>2. TypeOK'
  BY <1>1 DEF ReadPending, TypeOK
<1>3. Step(j)
  BY <1>1 DEF ReadPending, TypeOK, Step, Untouched
<1>4. OwnBooked(j)' /\ AllBooked(j)'
  BY <1>1 DEF ReadPending, TypeOK, OneBook, OwnBooked, AllBooked, Booked, Known, InBook, InNudge
<1>5. Known(j)' /\ Unpublished(j)'
  BY <1>1 DEF ReadPending, TypeOK, OneBook, Known, Unpublished
<1>. QED  BY <1>2, <1>3, <1>4, <1>5, StepKeeps DEF OneBook

LEMMA AnswerKeeps ==
    ASSUME IInv, NEW j \in Instances, Answer(j)
    PROVE  IInv'
<1>1. TypeOK /\ OneBook(j)
  BY DEF IInv, Books, OneBook
<1>2. TypeOK'
  <2>1. global' \in Nat
    BY Numbers DEF Answer, Store
  <2>2. sync' \in [Instances -> SyncState]
    <3>1. sync \in [Instances -> SyncState]
      BY <1>1 DEF TypeOK, SyncState
    <3>2. [sync[j] EXCEPT !.pc = "book", !.value = global'] \in SyncState
      BY <2>1, <3>1 DEF SyncState
    <3>. QED  BY <3>1, <3>2 DEF Answer
  <2>3. published' \in [Instances -> Nat]
    BY <1>1, Numbers DEF Answer, Store, TypeOK
  <2>. QED  BY <1>1, <2>1, <2>2, <2>3 DEF Answer, Store, TypeOK, SyncState
<1>3. Step(j)
  BY <1>1 DEF Answer, Store, TypeOK, Step, Untouched
<1>4. OwnBooked(j)' /\ AllBooked(j)'
  BY <1>1 DEF Answer, Store, TypeOK, OneBook, OwnBooked, AllBooked, Booked, Known, InBook, InNudge
<1>5. Known(j)' /\ Unpublished(j)'
  BY <1>1 DEF Answer, Store, TypeOK, OneBook, Known, Unpublished
<1>. QED  BY <1>2, <1>3, <1>4, <1>5, StepKeeps DEF OneBook

LEMMA ReplyLostKeeps ==
    ASSUME IInv, NEW j \in Instances, ReplyLost(j)
    PROVE  IInv'
<1>1. TypeOK /\ OneBook(j)
  BY DEF IInv, Books, OneBook
<1>2. TypeOK'
  BY <1>1 DEF ReplyLost, Store, TypeOK, Resting
<1>3. Step(j)
  BY <1>1 DEF ReplyLost, Store, TypeOK, Step, Untouched
<1>4. OwnBooked(j)' /\ AllBooked(j)'
  BY <1>1 DEF ReplyLost, Store, TypeOK, OneBook, OwnBooked, AllBooked, Booked, Known, InBook, InNudge, Resting
<1>5. Known(j)' /\ Unpublished(j)'
  BY <1>1 DEF ReplyLost, Store, TypeOK, OneBook, Known, Unpublished, Resting
<1>. QED  BY <1>2, <1>3, <1>4, <1>5, StepKeeps DEF OneBook

LEMMA StoreFailsKeeps ==
    ASSUME IInv, NEW j \in Instances, StoreFails(j)
    PROVE  IInv'
<1>1. TypeOK /\ OneBook(j)
  BY DEF IInv, Books, OneBook
<1>2. TypeOK'
  BY <1>1 DEF StoreFails, TypeOK, Resting
<1>3. Step(j)
  BY <1>1 DEF StoreFails, TypeOK, Step, Untouched
<1>4. OwnBooked(j)' /\ AllBooked(j)'
  BY <1>1 DEF StoreFails, TypeOK, OneBook, OwnBooked, AllBooked, Booked, Known, InBook, InNudge, Resting
<1>5. Known(j)' /\ Unpublished(j)'
  BY <1>1 DEF StoreFails, TypeOK, OneBook, Known, Unpublished, Resting
<1>. QED  BY <1>2, <1>3, <1>4, <1>5, StepKeeps DEF OneBook

LEMMA BookKeeps ==
    ASSUME IInv, NEW j \in Instances, Book(j)
    PROVE  IInv'
<1>1. TypeOK /\ OneBook(j)
  BY DEF IInv, Books, OneBook
<1>2. TypeOK'
  <2>. DEFINE left == localSinceSync[j] - sync[j].pending
              delta == (sync[j].value - lastKnown[j]) - sync[j].pending
  <2>1. left \in 0..MaxDelivered
    BY <1>1, Numbers DEF Book, BookAs, OneBook, Unpublished
  <2>2. delta \in Nat
    BY <1>1, Numbers DEF Book, BookAs, OneBook, Known
  <2>3. localSinceSync' \in [Instances -> 0..MaxDelivered]
    BY <1>1, <2>1 DEF Book, BookAs, TypeOK
  <2>4. lastKnown' \in [Instances -> Nat]
    BY <1>1, Numbers DEF Book, BookAs, TypeOK
  <2>5. sync' \in [Instances -> SyncState]
    BY <1>1, <2>2, RestingIsRest DEF Book, BookAs, TypeOK, SyncState
  <2>. QED  BY <1>1, <2>3, <2>4, <2>5 DEF Book, BookAs, TypeOK, SyncState
<1>3. Step(j)
  BY <1>1 DEF Book, BookAs, TypeOK, Step, Untouched
<1>4. OwnBooked(j)' /\ AllBooked(j)'
  BY <1>1 DEF Book, BookAs, TypeOK, OneBook, OwnBooked, AllBooked, Booked, Known, InBook, InNudge, Resting
<1>5. Known(j)' /\ Unpublished(j)'
  BY <1>1 DEF Book, BookAs, TypeOK, OneBook, Known, Unpublished, Resting
<1>. QED  BY <1>2, <1>3, <1>4, <1>5, StepKeeps DEF OneBook

LEMMA NudgeKeeps ==
    ASSUME IInv, NEW j \in Instances, Nudge(j)
    PROVE  IInv'
<1>1. TypeOK /\ OneBook(j)
  BY DEF IInv, Books, OneBook
<1>2. TypeOK'
  BY <1>1 DEF Nudge, LeaveOut, TypeOK, Resting
<1>3. Step(j)
  BY <1>1 DEF Nudge, LeaveOut, TypeOK, Step, Untouched
<1>4. OwnBooked(j)' /\ AllBooked(j)'
  BY <1>1 DEF Nudge, LeaveOut, TypeOK, OneBook, OwnBooked, AllBooked, Booked, Known, InBook, InNudge, Resting
<1>5. Known(j)' /\ Unpublished(j)'
  BY <1>1 DEF Nudge, LeaveOut, TypeOK, OneBook, Known, Unpublished, Resting
<1>. QED  BY <1>2, <1>3, <1>4, <1>5, StepKeeps DEF OneBook

LEMMA RestartKeeps ==
    ASSUME IInv, NEW j \in Instances, Restart(j)
    PROVE  IInv'
<1>1. TypeOK /\ OneBook(j)
  BY DEF IInv, Books, OneBook
<1>2. TypeOK'
  BY <1>1 DEF Restart, TypeOK, Resting
<1>3. Step(j)
  BY <1>1 DEF Restart, TypeOK, Step, Untouched
<1>4. OwnBooked(j)' /\ AllBooked(j)'
  BY <1>1 DEF Restart, TypeOK, OneBook, OwnBooked, AllBooked, Booked, Known, InBook, InNudge, Resting
<1>5. Known(j)' /\ Unpublished(j)'
  BY <1>1 DEF Restart, TypeOK, OneBook, Known, Unpublished, Resting
<1>. QED  BY <1>2, <1>3, <1>4, <1>5, StepKeeps DEF OneBook

LEMMA Invariance == Spec => []IInv
<1>1. IInv /\ [Next]_vars => IInv'
  <2>1. IInv /\ UNCHANGED vars => IInv'
    BY DEF IInv, TypeOK, Books, OwnBooked, AllBooked, Booked, Known, Unpublished, InBook,
       InNudge, vars
  <2>. QED
    BY <2>1, DeliverKeeps, RecordLocalDeliveryKeeps, ReadPendingKeeps, AnswerKeeps,
       ReplyLostKeeps, StoreFailsKeeps, BookKeeps, NudgeKeeps, RestartKeeps DEF Next
<1>. QED  BY InitEstablishes, <1>1, PTL DEF Spec

----------------------------------------------------------------------------
(* Every variable keeps its type; in particular no instance ever has a     *)
(* negative amount to publish.                                             *)
THEOREM TypeCorrect == Spec => []TypeOK
  BY Invariance, PTL DEF IInv

(* redisync.go:14, as far as replies are not lost: what is applied as      *)
(* remote is what others gave to Redis.                                    *)
THEOREM NothingCountedTwice == Spec => []NoDoubleCount
<1>1. IInv => NoDoubleCount
  BY DEF IInv, TypeOK, Books, OwnBooked, AllBooked, Booked, Known, InBook, InNudge, NoDoubleCount
<1>. QED  BY <1>1, Invariance, PTL

(* Between two syncs what the debts account for and what they left out is  *)
(* what Redis said last plus what has not been published, whatever         *)
(* happened during the sync: nothing else is ever lost or counted twice.   *)
THEOREM BooksAreBalanced == Spec => []BooksBalance
<1>1. IInv => BooksBalance
  BY DEF IInv, TypeOK, Books, AllBooked, Booked, InNudge, BooksBalance
<1>. QED  BY <1>1, Invariance, PTL

----------------------------------------------------------------------------
(* The cluster implements Tally.tla.  A step of one instance changes what  *)
(* is on its way by what it does to that instance's own part.              *)

LEMMA WayNumbers ==
    ASSUME IInv, NEW i \in Instances
    PROVE  /\ OnItsWay(i) \in Nat /\ OnTheWay \in Nat /\ OnItsWay(i) <= OnTheWay
           /\ sync[i].pc = "store" => sync[i].pending <= OnItsWay(i)
           /\ own[i] + remote[i] + InNudge(i) <= global + OnItsWay(i)
<1>. DEFINE f == [k \in Instances |-> OnItsWay(k)]
<1>1. ASSUME NEW k \in Instances PROVE f[k] \in Nat
  <2>1. Unpublished(k) /\ sync[k].pending \in Nat /\ localSinceSync[k] \in Nat
        /\ unrecorded[k] \in Nat
    BY Numbers DEF IInv, Books
  <2>. QED  BY <2>1 DEF OnItsWay, Unpublished
<1>2. OnTheWay \in Nat /\ f[i] <= OnTheWay
  <2>. HIDE DEF f
  <2>1. SumFunctionOnSet(f, Instances) \in Nat /\ f[i] <= SumFunctionOnSet(f, Instances)
    BY <1>1, SumNat, SumMember
  <2>. QED  BY <2>1 DEF OnTheWay, f
<1>3. sync[i].pc = "store" => sync[i].pending <= OnItsWay(i)
  BY Numbers DEF IInv, Books, Unpublished, OnItsWay
<1>4. own[i] + remote[i] + InNudge(i) <= global + OnItsWay(i)
  <2>1. AllBooked(i) /\ Known(i)
    BY DEF IInv, Books
  <2>2. /\ own[i] \in Nat /\ remote[i] \in Nat /\ unapplied[i] \in Nat
        /\ unrecorded[i] \in Nat /\ localSinceSync[i] \in Nat /\ lastKnown[i] \in Nat
        /\ sync[i].pending \in Nat /\ sync[i].value \in Nat /\ global \in Nat
    BY Numbers
  <2>3. lastKnown[i] + InBook(i) <= global
    BY <2>1, <2>2 DEF Known, InBook
  <2>4. OnItsWay(i) = unrecorded[i] + localSinceSync[i] - InBook(i)
    BY DEF OnItsWay, InBook
  <2>5. InBook(i) \in Nat /\ InNudge(i) \in Nat
    BY <2>2 DEF InBook, InNudge
  <2>. QED  BY <2>1, <2>2, <2>3, <2>4, <2>5 DEF AllBooked, Booked
<1>. QED  BY <1>1, <1>2, <1>3, <1>4

LEMMA WayMoves ==
    ASSUME IInv, IInv', NEW j \in Instances, \A i \in Instances \ {j} : Untouched(i)
    PROVE  /\ OnItsWay(j) \in Nat /\ OnItsWay(j)' \in Nat
           /\ OnTheWay \in Nat /\ OnTheWay' \in Nat
           /\ OnTheWay' = OnTheWay + (OnItsWay(j)' - OnItsWay(j))
<1>. DEFINE f == [k \in Instances |-> OnItsWay(k)]
            g == [k \in Instances |-> OnItsWay(k)']
<1>1. \A k \in Instances : f[k] \in Nat
  BY WayNumbers
<1>2. \A k \in Instances : g[k] \in Nat
  <2>1. ASSUME NEW k \in Instances PROVE OnItsWay(k)' \in Nat
    <3>1. /\ unrecorded'[k] \in Nat /\ localSinceSync'[k] \in Nat
          /\ sync'[k].pending \in Nat
          /\ sync'[k].pc \in {"store", "book"} => sync'[k].pending <= localSinceSync'[k]
      BY DEF IInv, TypeOK, Books, Unpublished
    <3>. QED  BY <3>1 DEF OnItsWay
  <2>. QED  BY <2>1
<1>3. \A k \in Instances \ {j} : g[k] = f[k]
  BY DEF Untouched, OnItsWay
<1>4. OnTheWay = SumFunctionOnSet(f, Instances) /\ OnTheWay' = SumFunctionOnSet(g, Instances)
  BY DEF OnTheWay
<1>. HIDE DEF f, g
<1>5. SumFunctionOnSet(g, Instances) = SumFunctionOnSet(f, Instances) + (g[j] - f[j])
  BY <1>1, <1>2, <1>3, SumUpdate
<1>6. SumFunctionOnSet(f, Instances) \in Nat /\ SumFunctionOnSet(g, Instances) \in Nat
  BY <1>1, <1>2, SumNat
<1>. QED  BY <1>1, <1>2, <1>4, <1>5, <1>6 DEF f, g

(* A step that the tally does not show.                                    *)
LEMMA Unseen ==
    ASSUME IInv, IInv', NEW j \in Instances, \A i \in Instances \ {j} : Untouched(i),
           global' + OnItsWay(j)' = global + OnItsWay(j),
           UNCHANGED <<own, remote>>
    PROVE  UNCHANGED Promise!tvars
<1>1. /\ OnItsWay(j) \in Nat /\ OnItsWay(j)' \in Nat /\ OnTheWay \in Nat
      /\ OnTheWay' = OnTheWay + (OnItsWay(j)' - OnItsWay(j))
  BY WayMoves
<1>2. global \in Nat /\ global' \in Nat
  BY DEF IInv, TypeOK
<1>. HIDE DEF OnItsWay, OnTheWay
<1>3. global' + OnTheWay' = global + OnTheWay
  BY <1>1, <1>2
<1>. QED  BY <1>3 DEF Promise!tvars

LEMMA OneViewMoves ==
    ASSUME NEW j \in Instances, NEW x, own'[j] + remote'[j] = x,
           \A i \in Instances \ {j} : Untouched(i)
    PROVE  [i \in Instances |-> own'[i] + remote'[i]]
              = [[i \in Instances |-> own[i] + remote[i]] EXCEPT ![j] = x]
<1>1. \A i \in Instances \ {j} : own'[i] + remote'[i] = own[i] + remote[i]
  BY DEF Untouched
<1>. QED  BY <1>1

LEMMA RefinesNext ==
    ASSUME IInv, IInv', Next
    PROVE  Promise!Next \/ UNCHANGED Promise!tvars
<1>. PICK j \in Instances :
        \/ Deliver(j) \/ RecordLocalDelivery(j)
        \/ ReadPending(j) \/ Answer(j) \/ ReplyLost(j) \/ StoreFails(j)
        \/ Book(j) \/ Nudge(j)
        \/ Restart(j)
  BY DEF Next
<1>t. TypeOK
  BY DEF IInv
<1>u. \A i \in Instances \ {j} : Untouched(i)
  BY <1>t DEF TypeOK, Untouched, Deliver, RecordLocalDelivery, ReadPending, Answer, ReplyLost,
         Store, StoreFails, Book, BookAs, Nudge, LeaveOut, Restart
<1>n. /\ own[j] \in Nat /\ remote[j] \in Nat /\ unrecorded[j] \in Nat
      /\ localSinceSync[j] \in Nat /\ sync[j].pending \in Nat /\ sync[j].value \in Nat
      /\ global \in Nat
  BY Numbers
<1>w. /\ OnItsWay(j) \in Nat /\ OnItsWay(j)' \in Nat
      /\ OnTheWay \in Nat /\ OnTheWay' \in Nat
      /\ OnTheWay' = OnTheWay + (OnItsWay(j)' - OnItsWay(j))
  BY <1>u, WayMoves
<1>m. /\ OnItsWay(j) <= OnTheWay
      /\ sync[j].pc = "store" => sync[j].pending <= OnItsWay(j)
      /\ own[j] + remote[j] + InNudge(j) <= global + OnItsWay(j)
  BY WayNumbers
<1>. DEFINE way == unrecorded[j] + localSinceSync[j]
<1>1. CASE Deliver(j)
  <2>1. /\ unrecorded'[j] = unrecorded[j] + 1
        /\ own'[j] = own[j] + 1 \/ own'[j] = own[j]
    BY <1>t, <1>1 DEF Deliver, LeaveOut, TypeOK
  <2>2. UNCHANGED <<localSinceSync, sync, global, remote>>
    BY <1>1 DEF Deliver
  <2>3. OnItsWay(j)' = OnItsWay(j) + 1
    BY <1>n, <2>1, <2>2 DEF OnItsWay
  <2>4. global' + OnTheWay' = (global + OnTheWay) + 1
    BY <1>n, <1>w, <2>2, <2>3
  <2>. DEFINE V == [i \in Instances |-> own[i] + remote[i]]
              W == [i \in Instances |-> own'[i] + remote'[i]]
  <2>5. W \in {V, [V EXCEPT ![j] = @ + 1]}
    <3>1. PICK x \in {own[j] + remote[j], (own[j] + remote[j]) + 1} :
             own'[j] + remote'[j] = x
      BY <1>n, <2>1, <2>2
    <3>2. W = [V EXCEPT ![j] = x]
      BY <1>u, <3>1, OneViewMoves
    <3>3. [V EXCEPT ![j] = own[j] + remote[j]] = V
      OBVIOUS
    <3>. QED  BY <3>1, <3>2, <3>3
  <2>6. Promise!Deliver(j)
    BY <2>4, <2>5 DEF Promise!Deliver
  <2>. QED  BY <2>6 DEF Promise!Next
<1>2. CASE RecordLocalDelivery(j)
  <2>1. /\ unrecorded'[j] = unrecorded[j] - 1 /\ localSinceSync'[j] = localSinceSync[j] + 1
        /\ UNCHANGED <<sync, global, own, remote>>
    BY <1>t, <1>2 DEF RecordLocalDelivery, TypeOK
  <2>2. global' + OnItsWay(j)' = global + OnItsWay(j)
    BY <1>n, <2>1 DEF OnItsWay
  <2>. QED  BY <1>u, <2>1, <2>2, Unseen
<1>3. CASE ReadPending(j) \/ StoreFails(j)
  <2>1. /\ sync[j].pc # "book" /\ sync'[j].pc # "book"
        /\ UNCHANGED <<unrecorded, localSinceSync, global, own, remote>>
    BY <1>t, <1>3 DEF ReadPending, StoreFails, TypeOK, Resting
  <2>2. global' + OnItsWay(j)' = global + OnItsWay(j)
    BY <2>1 DEF OnItsWay
  <2>. QED  BY <1>u, <2>1, <2>2, Unseen
<1>4. CASE Answer(j)
  <2>1. /\ sync[j].pc = "store" /\ sync'[j].pc = "book"
        /\ sync'[j].pending = sync[j].pending /\ global' = global + sync[j].pending
        /\ UNCHANGED <<unrecorded, localSinceSync, own, remote>>
    BY <1>t, <1>4 DEF Answer, Store, TypeOK
  <2>2. global' + OnItsWay(j)' = global + OnItsWay(j)
    BY <1>n, <2>1 DEF OnItsWay
  <2>. QED  BY <1>u, <2>1, <2>2, Unseen
<1>5. CASE ReplyLost(j)
  <2>1. /\ sync[j].pc = "store" /\ sync'[j].pc = "rest"
        /\ sync[j].pending > 0 /\ global' = global + sync[j].pending
        /\ UNCHANGED <<unrecorded, localSinceSync, own, remote>>
    BY <1>t, <1>5 DEF ReplyLost, Store, TypeOK, Resting
  <2>2. OnItsWay(j)' = OnItsWay(j)
    BY <2>1 DEF OnItsWay
  <2>3. /\ global' + OnTheWay' \in (global + OnTheWay) + 1 .. 2 * (global + OnTheWay)
    BY <1>n, <1>w, <1>m, <2>1, <2>2
  <2>4. Promise!Republish
    BY <2>1, <2>3 DEF Promise!Republish
  <2>. QED  BY <2>4 DEF Promise!Next
<1>6. CASE Book(j)
  <2>1. /\ sync[j].pc = "book" /\ sync'[j].pc # "book"
        /\ localSinceSync'[j] = localSinceSync[j] - sync[j].pending
        /\ UNCHANGED <<unrecorded, global, own, remote>>
    BY <1>t, <1>6 DEF Book, BookAs, TypeOK, Resting
  <2>2. global' + OnItsWay(j)' = global + OnItsWay(j)
    BY <1>n, <2>1 DEF OnItsWay
  <2>. QED  BY <1>u, <2>1, <2>2, Unseen
<1>7. CASE Nudge(j)
  <2>1. /\ sync[j].pc = "nudge" /\ sync'[j].pc = "rest"
        /\ UNCHANGED <<unrecorded, localSinceSync, global, own>>
    BY <1>t, <1>7 DEF Nudge, TypeOK, Resting
  <2>2. OnItsWay(j)' = OnItsWay(j)
    BY <2>1 DEF OnItsWay
  <2>3. CASE UNCHANGED remote
    <3>1. global' + OnItsWay(j)' = global + OnItsWay(j)
      BY <2>1, <2>2
    <3>. QED  BY <1>u, <2>1, <2>3, <3>1, Unseen
  <2>4. CASE remote' = [remote EXCEPT ![j] = @ + sync[j].value]
    <3>. DEFINE v == own[j] + remote[j]
                n == v + sync[j].value
                t == global + OnTheWay
    <3>1. n <= t /\ v \in Nat /\ n \in Nat /\ t \in Nat /\ t' = t
      BY <1>n, <1>w, <1>m, <2>1, <2>2 DEF InNudge
    <3>2. [i \in Instances |-> own'[i] + remote'[i]]
             = [[i \in Instances |-> own[i] + remote[i]] EXCEPT ![j] = n]
      <4>1. own'[j] = own[j] /\ remote'[j] = remote[j] + sync[j].value
        BY <1>t, <2>1, <2>4 DEF TypeOK
      <4>2. own'[j] + remote'[j] = n
        BY <1>n, <4>1
      <4>. QED  BY <1>u, <4>2, OneViewMoves
    <3>3. CASE sync[j].value > 0
      <4>1. v < t /\ n \in v + 1 .. t
        BY <1>n, <3>1, <3>3
      <4>2. Promise!CatchUp(j)
        BY <3>1, <3>2, <4>1 DEF Promise!CatchUp
      <4>. QED  BY <4>2 DEF Promise!Next
    <3>4. CASE sync[j].value = 0
      <4>1. n = v
        BY <1>n, <3>4
      <4>2. [[i \in Instances |-> own[i] + remote[i]] EXCEPT ![j] = v]
               = [i \in Instances |-> own[i] + remote[i]]
        OBVIOUS
      <4>3. [i \in Instances |-> own'[i] + remote'[i]]
               = [i \in Instances |-> own[i] + remote[i]]
        BY <3>2, <4>1, <4>2
      <4>. QED  BY <3>1, <4>3 DEF Promise!tvars
    <3>. QED  BY <1>n, <3>3, <3>4
  <2>. QED  BY <1>7, <2>3, <2>4 DEF Nudge
<1>8. CASE Restart(j)
  <2>1. /\ unrecorded'[j] = 0 /\ localSinceSync'[j] = 0 /\ sync'[j].pc = "rest"
        /\ global' = global
    BY <1>t, <1>8 DEF Restart, TypeOK, Resting
  <2>2. OnItsWay(j)' = 0
    BY <2>1 DEF OnItsWay
  <2>3. global' + OnTheWay' \in 0 .. (global + OnTheWay)
    BY <1>n, <1>w, <1>m, <2>1, <2>2
  <2>4. [i \in Instances |-> own'[i] + remote'[i]]
           = [[i \in Instances |-> own[i] + remote[i]] EXCEPT ![j] = 0]
    <3>1. own'[j] = 0 /\ remote'[j] = 0
      BY <1>t, <1>8 DEF Restart, TypeOK
    <3>. QED  BY <1>u, <3>1, OneViewMoves
  <2>5. Promise!Restart(j)
    BY <2>3, <2>4 DEF Promise!Restart
  <2>. QED  BY <2>5 DEF Promise!Next
<1>. QED  BY <1>1, <1>2, <1>3, <1>4, <1>5, <1>6, <1>7, <1>8

(* redisync's package comment: the instances converge on one tally.  Each  *)
(* step, whatever fails or restarts, is one the promise allows: a delivery *)
(* counts once, nobody accounts for more than was delivered, and a tally   *)
(* shrinks by what a restarted process had not published, no more.         *)
THEOREM TallyKept == Spec => ImplementsTally
<1>1. Init => Promise!Init
  <2>. SUFFICES ASSUME Init PROVE Promise!Init
    OBVIOUS
  <2>. DEFINE f == [i \in Instances |-> OnItsWay(i)]
  <2>1. \A i \in Instances : f[i] = 0
    BY DEF Init, OnItsWay, Resting
  <2>2. SumFunctionOnSet(f, Instances) = 0
    <3>. HIDE DEF f
    <3>. QED  BY <2>1, SumZero
  <2>3. global + OnTheWay = 0
    BY <2>2 DEF Init, OnTheWay
  <2>4. [i \in Instances |-> own[i] + remote[i]] = [i \in Instances |-> 0]
    BY DEF Init
  <2>. QED  BY <2>3, <2>4 DEF Promise!Init
<1>2. IInv /\ IInv' /\ [Next]_vars => [Promise!Next]_(Promise!tvars)
  <2>1. IInv /\ UNCHANGED vars => UNCHANGED Promise!tvars
    BY DEF vars, Promise!tvars, OnTheWay, OnItsWay
  <2>. QED  BY <2>1, RefinesNext
<1>. QED  BY <1>1, <1>2, Invariance, PTL DEF Spec, ImplementsTally, Promise!Spec

=============================================================================
