------------------------ MODULE SlidingWindowProofs ------------------------
(***************************************************************************)
(* The ring of minutes, and the TPM gate in front of it, for any number of *)
(* slots and of concurrent Adds, and however long the clock runs.          *)
(***************************************************************************)
EXTENDS TpmGate, DataTheorems

----------------------------------------------------------------------------
(* Minutes and slots: the minutes of one turn of the ring have slots of    *)
(* their own.                                                              *)

Ring == 0..Slots - 1

LEMMA SlotInRing == \A m \in Nat : Slot(m) \in Ring
  BY WindowAssumption, SMT DEF Slot, Ring

LEMMA OneTurn ==
    ASSUME NEW a \in Int, NEW b \in Int, Slot(a) = Slot(b), a < b + Slots, b < a + Slots
    PROVE  a = b
<1>1. ASSUME a < b PROVE FALSE
  BY <1>1, Remainders, WindowAssumption DEF Slot
<1>2. ASSUME b < a PROVE FALSE
  BY <1>2, Remainders, WindowAssumption DEF Slot
<1>. QED
  BY <1>1, <1>2

----------------------------------------------------------------------------
(* The inductive invariant.                                                *)

InWindow(m) == now - Slots < m /\ m <= now

Typed ==
    /\ now \in Minutes
    /\ stamp \in [Ring -> {0} \cup Minutes]
    /\ bucket \in [Ring -> Nat]
    /\ add \in [Adders -> [pc : {"idle", "swap", "reset", "add"},
                           minute : {0} \cup Minutes]]
    /\ added \in [Minutes -> Nat]
    /\ overtaken \in SUBSET Minutes

(* Nobody is still adding to a minute that has left the window.            *)
BusyInWindow ==
    \A p \in Adders : add[p].pc # "idle" => add[p].minute \in Minutes /\ InWindow(add[p].minute)

(* A slot is stamped with a minute that belongs to it and has come.        *)
Stamped == \A i \in Ring : stamp[i] <= now /\ (stamp[i] # 0 => Slot(stamp[i]) = i)

Counted == \A m \in Minutes : added[m] + Cardinality(Busy(m)) <= MaxTokens

Past == \A m \in Minutes :
            /\ m > now => added[m] = 0
            /\ m \in overtaken => InWindow(m)

(* A minute whose stamp has not been written has nothing in it.            *)
Fresh ==
    \A m \in Minutes :
        InWindow(m) /\ stamp[Slot(m)] # m =>
            /\ added[m] = 0 /\ m \notin overtaken
            /\ \A p \in Busy(m) : add[p].pc = "swap"

(* One Add, the first to swap, resets the bucket of a minute.              *)
OneReset == \A m \in Minutes : \A p, q \in Resetting(m) : p = q

(* Until it has, the others wait, unless one has overtaken it.             *)
Pending ==
    \A m \in Minutes \ overtaken :
        Resetting(m) # {} => added[m] = 0 /\ \A p \in Busy(m) : add[p].pc # "add"

(* Afterwards the bucket holds no more than was added, and all of it if    *)
(* no Add was wiped out.                                                   *)
Settled ==
    \A m \in Minutes :
        InWindow(m) /\ stamp[Slot(m)] = m /\ Resetting(m) = {} =>
            /\ bucket[Slot(m)] <= added[m]
            /\ m \notin overtaken => bucket[Slot(m)] = added[m]

(* While a reset is pending, the last hour's tokens lie under this one's.  *)
Bounded ==
    \A i \in Ring :
        \/ bucket[i] <= MaxTokens
        \/ \E m \in Minutes : /\ Slot(m) = i /\ Resetting(m) # {}
                              /\ bucket[i] <= MaxTokens + added[m]

IInv ==
    /\ Typed /\ BusyInWindow /\ Stamped /\ Counted /\ Past
    /\ Fresh /\ OneReset /\ Pending /\ Settled /\ Bounded

LEMMA Clock ==
    /\ Slots \in Nat /\ Slots > 1 /\ FirstMinute \in Nat /\ FirstMinute > Slots
    /\ \A m \in Minutes : m \in Nat /\ m > Slots
  BY WindowAssumption DEF Minutes

LEMMA BusyFinite == \A m : IsFiniteSet(Busy(m)) /\ Cardinality(Busy(m)) \in Nat
<1>. TAKE m
<1>1. Busy(m) \in SUBSET Adders
  BY DEF Busy
<1>. QED
  BY <1>1, FS_Subset, FS_CardinalityType, WindowAssumption

(* Minutes of the window that share a slot are the same minute.            *)
LEMMA OwnSlot ==
    ASSUME Typed, NEW m \in Minutes, NEW k \in Minutes, InWindow(m), InWindow(k), Slot(m) = Slot(k)
    PROVE  m = k
<1>. m \in Int /\ k \in Int /\ now \in Int /\ Slots \in Int
  BY Clock DEF Typed
<1>. m < k + Slots /\ k < m + Slots
  BY DEF InWindow
<1>. QED
  BY OneTurn

LEMMA InitInvariant == Init => IInv
<1>. SUFFICES ASSUME Init PROVE IInv
  OBVIOUS
<1>1. now \in Minutes /\ now = FirstMinute
  BY WindowAssumption DEF Init, Minutes
<1>2. \A m : Busy(m) = {} /\ Resetting(m) = {}
  BY DEF Init, Idle, Busy, Resetting
<1>3. Typed
  BY <1>1, Clock DEF Init, Typed, Ring, Idle
<1>4. Stamped
  BY <1>1, Clock DEF Init, Stamped, Ring
<1>5. Counted
  <2>. SUFFICES ASSUME NEW m \in Minutes
                PROVE  added[m] + Cardinality(Busy(m)) <= MaxTokens
    BY DEF Counted
  <2>1. Cardinality(Busy(m)) = 0 /\ added[m] = 0
    BY <1>2, FS_EmptySet DEF Init
  <2>. QED
    BY <2>1, WindowAssumption
<1>6. BusyInWindow /\ Past /\ Fresh /\ OneReset /\ Pending
  BY <1>2 DEF Init, Idle, BusyInWindow, Past, Fresh, OneReset, Pending
<1>7. Settled
  <2>. SUFFICES ASSUME NEW m \in Minutes
                PROVE  bucket[Slot(m)] = 0 /\ added[m] = 0
    BY DEF Settled
  <2>. QED
    BY SlotInRing, Clock DEF Init, Ring
<1>8. Bounded
  BY WindowAssumption DEF Init, Bounded, Ring
<1>. QED
  BY <1>3, <1>4, <1>5, <1>6, <1>7, <1>8 DEF IInv

LEMMA BeginStep ==
    ASSUME IInv, NEW p \in Adders, Begin(p)
    PROVE  IInv'
<1>. USE DEF IInv
<1>. add[p].pc = "idle" /\ add[p].minute \in {0} \cup Minutes
  BY DEF Begin, Typed
<1>1. /\ add' \in [Adders -> [pc : {"idle", "swap", "reset", "add"}, minute : {0} \cup Minutes]]
      /\ add'[p] = [pc |-> "swap", minute |-> now]
      /\ \A q \in Adders \ {p} : add'[q] = add[q]
  BY DEF Begin, Typed
<1>2. UNCHANGED <<now, stamp, bucket, added, overtaken>>
  BY DEF Begin
<1>3. now \in Minutes /\ now \in Nat /\ InWindow(now)
  BY Clock DEF Typed, InWindow
<1>4. \A m \in Minutes : Busy(m)' = IF m = now THEN Busy(m) \cup {p} ELSE Busy(m)
  BY <1>1 DEF Busy
<1>5. \A m \in Minutes : Resetting(m)' = Resetting(m)
  BY <1>1, <1>4 DEF Resetting, Busy
<1>6. Typed'
  BY <1>1, <1>2 DEF Typed
<1>7. BusyInWindow' /\ Stamped'
  BY <1>1, <1>2, <1>3 DEF BusyInWindow, Stamped, InWindow
<1>8. Counted'
  <2>1. p \notin Busy(now)
    BY DEF Busy
  <2>2. Cardinality(Busy(now) \cup {p}) = Cardinality(Busy(now)) + 1
    BY <2>1, BusyFinite, FS_AddElement
  <2>3. added[now] + Cardinality(Busy(now)) < MaxTokens
    BY DEF Begin
  <2>4. added[now] \in Nat /\ MaxTokens \in Nat
    BY <1>3, WindowAssumption DEF Typed
  <2>5. added[now] + Cardinality(Busy(now) \cup {p}) <= MaxTokens
    BY <2>2, <2>3, <2>4, BusyFinite
  <2>. QED
    BY <2>5, <1>2, <1>4 DEF Counted
<1>9. Past' /\ Settled' /\ OneReset' /\ Bounded'
  BY <1>2, <1>5 DEF Past, Settled, OneReset, Bounded, InWindow
<1>10. \A m \in Minutes : \A q \in Busy(m)' :
          add'[q].pc = "swap" \/ (q \in Busy(m) /\ add'[q] = add[q])
  BY <1>1, <1>4 DEF Busy
<1>11. Fresh'
  BY <1>2, <1>10 DEF Fresh, InWindow
<1>12. Pending'
  BY <1>2, <1>5, <1>10 DEF Pending
<1>. QED
  BY <1>6, <1>7, <1>8, <1>9, <1>11, <1>12

LEMMA TickStep == IInv /\ Tick => IInv'
<1>. SUFFICES ASSUME IInv, Tick PROVE IInv'
  OBVIOUS
<1>. USE DEF IInv
<1>. DEFINE old == now + 1 - Slots
<1>1. /\ now \in Minutes /\ now \in Nat /\ Slots \in Nat /\ Slots > 1
      /\ now' = now + 1 /\ now' \in Minutes /\ old \in Int
  BY Clock, WindowAssumption DEF Typed, Tick, Minutes
<1>2. UNCHANGED <<stamp, bucket, add>> /\ Busy(old) = {} /\ overtaken' = overtaken \ {old}
  BY DEF Tick
<1>3. /\ added' \in [Minutes -> Nat]
      /\ \A m \in Minutes : added'[m] = IF m = old THEN 0 ELSE added[m]
  BY DEF Tick, Typed
<1>4. \A m : Busy(m)' = Busy(m) /\ Resetting(m)' = Resetting(m)
  BY <1>2 DEF Busy, Resetting
<1>. HIDE DEF old
<1>5. \A m \in Minutes : m \in Int /\ (InWindow(m)' <=> (InWindow(m) /\ m # old) \/ m = now + 1)
  BY <1>1, Clock DEF InWindow, old
<1>6. Typed'
  BY <1>1, <1>2, <1>3 DEF Typed
<1>7. BusyInWindow'
  <2>. SUFFICES ASSUME NEW p \in Adders, add[p].pc # "idle"
                PROVE  \E m \in Minutes : m = add[p].minute /\ InWindow(m)'
    BY <1>2 DEF BusyInWindow, InWindow
  <2>1. add[p].minute \in Minutes /\ InWindow(add[p].minute)
    BY DEF BusyInWindow
  <2>2. add[p].minute # old
    BY <1>2 DEF Busy
  <2>. QED
    BY <2>1, <2>2, <1>5
<1>8. Stamped'
  <2>. SUFFICES ASSUME NEW i \in Ring
                PROVE  stamp[i] <= now + 1 /\ (stamp[i] # 0 => Slot(stamp[i]) = i)
    BY <1>1, <1>2 DEF Stamped
  <2>1. stamp[i] \in Int
    BY Clock DEF Typed
  <2>. QED
    BY <1>1, <2>1 DEF Stamped
<1>9. Counted'
  <2>. SUFFICES ASSUME NEW m \in Minutes
                PROVE  added'[m] + Cardinality(Busy(m)) <= MaxTokens
    BY <1>4 DEF Counted
  <2>1. added[m] \in Nat /\ added'[m] \in {0, added[m]} /\ Cardinality(Busy(m)) \in Nat
    BY <1>3, BusyFinite DEF Typed
  <2>2. added[m] + Cardinality(Busy(m)) <= MaxTokens
    BY DEF Counted
  <2>. QED
    BY <2>1, <2>2, WindowAssumption
<1>10. Past'
  <2>. SUFFICES ASSUME NEW m \in Minutes
                PROVE  /\ m > now + 1 => added'[m] = 0
                       /\ m \in overtaken' => InWindow(m)'
    BY <1>1 DEF Past
  <2>1. m > now + 1 => m > now
    BY <1>1, <1>5
  <2>2. m > now => added[m] = 0
    BY DEF Past
  <2>3. m \in overtaken' => InWindow(m) /\ m # old
    BY <1>2 DEF Past
  <2>. QED
    BY <1>3, <1>5, <2>1, <2>2, <2>3
<1>11. ASSUME NEW m \in Minutes, m = now + 1
       PROVE  added[m] = 0 /\ m \notin overtaken /\ Busy(m) = {} /\ stamp[Slot(m)] # m
  <2>1. m > now /\ ~ InWindow(m) /\ m \in Nat
    BY <1>11, <1>1 DEF InWindow
  <2>2. added[m] = 0 /\ m \notin overtaken
    BY <2>1 DEF Past
  <2>3. Busy(m) = {}
    BY <2>1 DEF Busy, BusyInWindow
  <2>4. Slot(m) \in Ring /\ stamp[Slot(m)] <= now
    BY <2>1, SlotInRing DEF Stamped
  <2>. QED
    BY <2>1, <2>2, <2>3, <2>4, <1>1
<1>12. Fresh'
  <2>. SUFFICES ASSUME NEW m \in Minutes, InWindow(m)', stamp[Slot(m)] # m
                PROVE  /\ added'[m] = 0 /\ m \notin overtaken'
                       /\ \A p \in Busy(m) : add[p].pc = "swap"
    BY <1>2, <1>4 DEF Fresh
  <2>1. CASE m = now + 1
    BY <2>1, <1>2, <1>3, <1>11
  <2>2. CASE InWindow(m)
    BY <2>2, <1>2, <1>3 DEF Fresh
  <2>. QED
    BY <2>1, <2>2, <1>5
<1>13. OneReset'
  BY <1>4 DEF OneReset
<1>14. Pending'
  <2>. SUFFICES ASSUME NEW m \in Minutes \ overtaken', Resetting(m) # {}
                PROVE  added'[m] = 0 /\ \A p \in Busy(m) : add[p].pc # "add"
    BY <1>2, <1>4 DEF Pending
  <2>1. m # old
    BY <1>2 DEF Resetting
  <2>2. m \notin overtaken
    BY <1>2, <2>1
  <2>. QED
    BY <2>1, <2>2, <1>3 DEF Pending
<1>15. Settled'
  <2>. SUFFICES ASSUME NEW m \in Minutes, InWindow(m)', stamp[Slot(m)] = m, Resetting(m) = {}
                PROVE  /\ bucket[Slot(m)] <= added'[m]
                       /\ m \notin overtaken' => bucket[Slot(m)] = added'[m]
    BY <1>2, <1>4 DEF Settled
  <2>1. InWindow(m) /\ m # old
    BY <1>5, <1>11
  <2>2. added'[m] = added[m] /\ (m \notin overtaken' => m \notin overtaken)
    BY <1>2, <1>3, <2>1
  <2>. QED
    BY <2>1, <2>2 DEF Settled
<1>16. Bounded'
  <2>. SUFFICES ASSUME NEW i \in Ring, ~ bucket[i] <= MaxTokens
                PROVE  \E m \in Minutes : /\ Slot(m) = i /\ Resetting(m) # {}
                                          /\ bucket[i] <= MaxTokens + added'[m]
    BY <1>2, <1>4 DEF Bounded
  <2>1. PICK m \in Minutes : /\ Slot(m) = i /\ Resetting(m) # {}
                             /\ bucket[i] <= MaxTokens + added[m]
    BY DEF Bounded
  <2>2. added'[m] = added[m]
    BY <1>2, <1>3, <2>1 DEF Resetting
  <2>. QED
    BY <2>1, <2>2
<1>. QED
  BY <1>6, <1>7, <1>8, <1>9, <1>10, <1>12, <1>13, <1>14, <1>15, <1>16

(* The goroutine that takes a step, and its minute.                        *)
LEMMA Stepping ==
    ASSUME IInv, NEW p \in Adders, add[p].pc # "idle"
    PROVE  LET m == add[p].minute IN
           /\ m \in Minutes /\ m \in Nat /\ InWindow(m) /\ p \in Busy(m)
           /\ Slot(m) \in Ring /\ now \in Int /\ Slots \in Int
<1>. DEFINE m == add[p].minute
<1>1. m \in Minutes /\ InWindow(m) /\ p \in Busy(m)
  BY DEF IInv, BusyInWindow, Busy
<1>2. m \in Nat /\ now \in Int /\ Slots \in Int
  BY <1>1, Clock DEF IInv, Typed
<1>. QED
  BY <1>1, <1>2, SlotInRing

LEMMA SwapStep ==
    ASSUME IInv, NEW p \in Adders, Swap(p)
    PROVE  IInv'
<1>. USE DEF IInv
<1>0. add[p].pc = "swap"
  BY DEF Swap
<1>. PICK mine \in Minutes : mine = add[p].minute
  BY <1>0, Stepping
<1>1. /\ mine \in Minutes /\ mine \in Nat /\ InWindow(mine) /\ p \in Busy(mine)
      /\ Slot(mine) \in Ring /\ now \in Int
  BY <1>0, Stepping
<1>2. /\ add' \in [Adders -> [pc : {"idle", "swap", "reset", "add"}, minute : {0} \cup Minutes]]
      /\ add'[p].pc = (IF stamp[Slot(mine)] # mine THEN "reset" ELSE "add")
      /\ add'[p].minute = mine
      /\ \A q \in Adders \ {p} : add'[q] = add[q]
  BY <1>1 DEF Swap, Typed
<1>3. /\ stamp' \in [Ring -> {0} \cup Minutes]
      /\ stamp'[Slot(mine)] = mine
      /\ \A i \in Ring : i # Slot(mine) => stamp'[i] = stamp[i]
  BY <1>1 DEF Swap, Typed
<1>4. UNCHANGED <<now, bucket, added>>
  BY DEF Swap
<1>5. /\ Resetting(mine) # {} => overtaken' = overtaken \cup {mine}
      /\ Resetting(mine) = {} => overtaken' = overtaken
  BY DEF Swap
<1>6. \A m : Busy(m)' = Busy(m)
  BY <1>0, <1>2 DEF Busy
<1>7. \A m \in Minutes : m # mine =>
          /\ Resetting(m)' = Resetting(m)
          /\ \A q \in Busy(m) : add'[q] = add[q]
  BY <1>0, <1>2, <1>6 DEF Resetting, Busy
<1>8. Resetting(mine)' = IF stamp[Slot(mine)] # mine THEN Resetting(mine) \cup {p}
                                                    ELSE Resetting(mine)
  <2>1. \A q \in Busy(mine) : q # p => add'[q] = add[q]
    BY <1>2 DEF Busy
  <2>2. CASE stamp[Slot(mine)] # mine
    BY <2>1, <2>2, <1>0, <1>1, <1>2, <1>6 DEF Resetting
  <2>3. CASE stamp[Slot(mine)] = mine
    <3>1. add'[p].pc = "add" /\ p \in Busy(mine)
      BY <2>3, <1>1, <1>2
    <3>. QED
      BY <2>1, <2>3, <3>1, <1>0, <1>6 DEF Resetting
  <2>. QED
    BY <2>2, <2>3
<1>9. \A m \in Minutes : InWindow(m) /\ m # mine => stamp'[Slot(m)] = stamp[Slot(m)]
  BY <1>1, <1>3, OwnSlot, SlotInRing, Clock
<1>10. stamp[Slot(mine)] # mine =>
           /\ added[mine] = 0 /\ mine \notin overtaken /\ Resetting(mine) = {}
           /\ \A q \in Busy(mine) : add[q].pc = "swap"
  BY <1>1 DEF Fresh, Resetting
<1>11. Typed'
  BY <1>1, <1>2, <1>3, <1>4, <1>5 DEF Typed
<1>12. BusyInWindow'
  BY <1>0, <1>1, <1>2, <1>4 DEF BusyInWindow, InWindow
<1>13. Stamped' /\ Counted'
  <2>1. Stamped'
    BY <1>1, <1>3, <1>4 DEF Stamped, InWindow
  <2>2. Counted'
    BY <1>4, <1>6 DEF Counted
  <2>. QED
    BY <2>1, <2>2
<1>14. Past'
  BY <1>1, <1>4, <1>5 DEF Past, InWindow
<1>15. Fresh'
  <2>. SUFFICES ASSUME NEW m \in Minutes, InWindow(m), stamp'[Slot(m)] # m
                PROVE  /\ added[m] = 0 /\ m \notin overtaken'
                       /\ \A q \in Busy(m) : add'[q].pc = "swap"
    BY <1>4, <1>6 DEF Fresh, InWindow
  <2>1. m # mine
    BY <1>3
  <2>. QED
    BY <2>1, <1>5, <1>7, <1>9 DEF Fresh
<1>16. OneReset'
  <2>. SUFFICES ASSUME NEW m \in Minutes
                PROVE  \A q, r \in Resetting(m)' : q = r
    BY DEF OneReset
  <2>1. \A q, r \in Resetting(m) : q = r
    BY DEF OneReset
  <2>. QED
    BY <2>1, <1>7, <1>8, <1>10
<1>17. Pending'
  <2>. SUFFICES ASSUME NEW m \in Minutes \ overtaken', Resetting(m)' # {}
                PROVE  added[m] = 0 /\ \A q \in Busy(m) : add'[q].pc # "add"
    BY <1>4, <1>6 DEF Pending
  <2>1. CASE m # mine
    BY <2>1, <1>5, <1>7 DEF Pending
  <2>2. CASE m = mine
    <3>1. Resetting(mine) = {} /\ stamp[Slot(mine)] # mine
      BY <2>2, <1>5, <1>8
    <3>. QED
      BY <2>2, <3>1, <1>2, <1>10 DEF Busy
  <2>. QED
    BY <2>1, <2>2
<1>18. Settled'
  <2>. SUFFICES ASSUME NEW m \in Minutes, InWindow(m), stamp'[Slot(m)] = m, Resetting(m)' = {}
                PROVE  /\ bucket[Slot(m)] <= added[m]
                       /\ m \notin overtaken' => bucket[Slot(m)] = added[m]
    BY <1>4 DEF Settled, InWindow
  <2>1. Resetting(m) = {} /\ stamp[Slot(m)] = m
    BY <1>7, <1>8, <1>9
  <2>2. m \notin overtaken' => m \notin overtaken
    BY <1>5
  <2>. QED
    BY <2>1, <2>2 DEF Settled
<1>19. Bounded'
  <2>1. \A m \in Minutes : Resetting(m) # {} => Resetting(m)' # {}
    BY <1>7, <1>8
  <2>. QED
    BY <1>4, <2>1 DEF Bounded
<1>. QED
  BY <1>11, <1>12, <1>13, <1>14, <1>15, <1>16, <1>17, <1>18, <1>19

LEMMA ResetStep ==
    ASSUME IInv, NEW p \in Adders, Reset(p)
    PROVE  IInv'
<1>. USE DEF IInv
<1>0. add[p].pc = "reset"
  BY DEF Reset
<1>. PICK mine \in Minutes : mine = add[p].minute
  BY <1>0, Stepping
<1>1. /\ mine \in Minutes /\ mine \in Nat /\ InWindow(mine) /\ p \in Busy(mine)
      /\ Slot(mine) \in Ring /\ now \in Int
  BY <1>0, Stepping
<1>2. /\ add' \in [Adders -> [pc : {"idle", "swap", "reset", "add"}, minute : {0} \cup Minutes]]
      /\ add'[p].pc = "add" /\ add'[p].minute = mine
      /\ \A q \in Adders \ {p} : add'[q] = add[q]
  BY <1>1 DEF Reset, Typed
<1>3. /\ bucket' \in [Ring -> Nat]
      /\ bucket'[Slot(mine)] = 0
      /\ \A i \in Ring : i # Slot(mine) => bucket'[i] = bucket[i]
  BY <1>1 DEF Reset, Typed
<1>4. UNCHANGED <<now, stamp, added, overtaken>>
  BY DEF Reset
<1>5. \A m : Busy(m)' = Busy(m)
  BY <1>0, <1>2 DEF Busy
<1>6. \A m \in Minutes : m # mine =>
          /\ Resetting(m)' = Resetting(m)
          /\ \A q \in Busy(m) : add'[q] = add[q]
  BY <1>0, <1>2, <1>5 DEF Resetting, Busy
<1>7. Resetting(mine) = {p} /\ Resetting(mine)' = {}
  <2>1. p \in Resetting(mine)
    BY <1>0, <1>1 DEF Resetting
  <2>2. Resetting(mine) = {p}
    BY <2>1 DEF OneReset
  <2>. QED
    BY <2>2, <1>2, <1>5 DEF Resetting, Busy
<1>8. stamp[Slot(mine)] = mine /\ (mine \notin overtaken => added[mine] = 0)
  BY <1>0, <1>1, <1>7 DEF Fresh, Pending
<1>9. \A m \in Minutes : InWindow(m) /\ m # mine => bucket'[Slot(m)] = bucket[Slot(m)]
  BY <1>1, <1>3, OwnSlot, SlotInRing, Clock
<1>10. Typed'
  BY <1>2, <1>3, <1>4 DEF Typed
<1>11. BusyInWindow'
  BY <1>0, <1>1, <1>2, <1>4 DEF BusyInWindow, InWindow
<1>12. Stamped' /\ Counted' /\ Past'
  BY <1>4, <1>5 DEF Stamped, Counted, Past, InWindow
<1>13. Fresh'
  <2>. SUFFICES ASSUME NEW m \in Minutes, InWindow(m), stamp[Slot(m)] # m
                PROVE  /\ added[m] = 0 /\ m \notin overtaken
                       /\ \A q \in Busy(m) : add'[q].pc = "swap"
    BY <1>4, <1>5 DEF Fresh, InWindow
  <2>1. m # mine
    BY <1>8
  <2>. QED
    BY <2>1, <1>6 DEF Fresh
<1>14. OneReset' /\ Pending'
  BY <1>4, <1>5, <1>6, <1>7 DEF OneReset, Pending
<1>15. Settled'
  <2>. SUFFICES ASSUME NEW m \in Minutes, InWindow(m), stamp[Slot(m)] = m, Resetting(m)' = {}
                PROVE  /\ bucket'[Slot(m)] <= added[m]
                       /\ m \notin overtaken => bucket'[Slot(m)] = added[m]
    BY <1>4 DEF Settled, InWindow
  <2>1. CASE m = mine
    BY <2>1, <1>1, <1>3, <1>8 DEF Typed
  <2>2. CASE m # mine
    BY <2>2, <1>6, <1>9 DEF Settled
  <2>. QED
    BY <2>1, <2>2
<1>16. Bounded'
  <2>. SUFFICES ASSUME NEW i \in Ring
                PROVE  \/ bucket'[i] <= MaxTokens
                       \/ \E m \in Minutes : /\ Slot(m) = i /\ Resetting(m)' # {}
                                             /\ bucket'[i] <= MaxTokens + added[m]
    BY <1>4 DEF Bounded
  <2>1. CASE i = Slot(mine)
    BY <2>1, <1>3, WindowAssumption
  <2>2. CASE i # Slot(mine)
    BY <2>2, <1>3, <1>6 DEF Bounded
  <2>. QED
    BY <2>1, <2>2
<1>. QED
  BY <1>10, <1>11, <1>12, <1>13, <1>14, <1>15, <1>16

LEMMA AddDeltaStep ==
    ASSUME IInv, NEW p \in Adders, AddDelta(p)
    PROVE  IInv'
<1>. USE DEF IInv
<1>0. add[p].pc = "add"
  BY DEF AddDelta
<1>. PICK mine \in Minutes : mine = add[p].minute
  BY <1>0, Stepping
<1>1. /\ mine \in Minutes /\ mine \in Nat /\ InWindow(mine) /\ p \in Busy(mine)
      /\ Slot(mine) \in Ring /\ now \in Int
  BY <1>0, Stepping
<1>2. /\ add' \in [Adders -> [pc : {"idle", "swap", "reset", "add"}, minute : {0} \cup Minutes]]
      /\ add'[p].pc = "idle"
      /\ \A q \in Adders \ {p} : add'[q] = add[q]
  BY <1>1 DEF AddDelta, Typed, Idle
<1>3. /\ bucket' \in [Ring -> Nat]
      /\ bucket'[Slot(mine)] = bucket[Slot(mine)] + 1
      /\ \A i \in Ring : i # Slot(mine) => bucket'[i] = bucket[i]
  BY <1>1 DEF AddDelta, Typed
<1>4. /\ added' \in [Minutes -> Nat]
      /\ added'[mine] = added[mine] + 1
      /\ \A m \in Minutes : m # mine => added'[m] = added[m]
  BY <1>1 DEF AddDelta, Typed
<1>5. UNCHANGED <<now, stamp, overtaken>>
  BY DEF AddDelta
<1>6. Busy(mine)' = Busy(mine) \ {p}
  BY <1>0, <1>2 DEF Busy
<1>7. \A m \in Minutes : m # mine => Busy(m)' = Busy(m)
  BY <1>0, <1>2 DEF Busy
<1>8. \A m \in Minutes : /\ Resetting(m)' = Resetting(m)
                         /\ \A q \in Busy(m)' : q \in Busy(m) /\ add'[q] = add[q]
  BY <1>0, <1>2, <1>6, <1>7 DEF Resetting, Busy
<1>9. stamp[Slot(mine)] = mine /\ (Resetting(mine) # {} => mine \in overtaken)
  BY <1>0, <1>1 DEF Fresh, Pending
<1>10. \A m \in Minutes : InWindow(m) /\ m # mine => bucket'[Slot(m)] = bucket[Slot(m)]
  BY <1>1, <1>3, OwnSlot, SlotInRing, Clock
<1>11. added[mine] \in Nat /\ bucket[Slot(mine)] \in Nat /\ MaxTokens \in Nat
  BY <1>1, WindowAssumption DEF Typed
<1>12. Typed'
  BY <1>2, <1>3, <1>4, <1>5 DEF Typed
<1>13. BusyInWindow' /\ Stamped'
  BY <1>2, <1>5 DEF BusyInWindow, Stamped, InWindow
<1>14. Counted' /\ added'[mine] <= MaxTokens
  <2>1. Cardinality(Busy(mine) \ {p}) = Cardinality(Busy(mine)) - 1
    BY <1>1, BusyFinite, FS_RemoveElement
  <2>2. added[mine] + Cardinality(Busy(mine)) <= MaxTokens
    BY DEF Counted
  <2>3. Cardinality(Busy(mine)) \in Nat /\ Cardinality(Busy(mine) \ {p}) \in Nat
    BY BusyFinite, FS_RemoveElement, FS_CardinalityType
  <2>4. added'[mine] + Cardinality(Busy(mine)') <= MaxTokens /\ added'[mine] <= MaxTokens
    BY <2>1, <2>2, <2>3, <1>4, <1>6, <1>11
  <2>. QED
    BY <2>4, <1>4, <1>7 DEF Counted
<1>15. Past'
  BY <1>1, <1>4, <1>5 DEF Past, InWindow
<1>16. Fresh'
  <2>. SUFFICES ASSUME NEW m \in Minutes, InWindow(m), stamp[Slot(m)] # m
                PROVE  /\ added'[m] = 0 /\ m \notin overtaken
                       /\ \A q \in Busy(m)' : add'[q].pc = "swap"
    BY <1>5 DEF Fresh, InWindow
  <2>1. m # mine
    BY <1>9
  <2>. QED
    BY <2>1, <1>4, <1>8 DEF Fresh
<1>17. OneReset'
  BY <1>8 DEF OneReset
<1>18. Pending'
  <2>. SUFFICES ASSUME NEW m \in Minutes \ overtaken, Resetting(m) # {}
                PROVE  added'[m] = 0 /\ \A q \in Busy(m)' : add'[q].pc # "add"
    BY <1>5, <1>8 DEF Pending
  <2>1. m # mine
    BY <1>9
  <2>. QED
    BY <2>1, <1>4, <1>8 DEF Pending
<1>19. Settled'
  <2>. SUFFICES ASSUME NEW m \in Minutes, InWindow(m), stamp[Slot(m)] = m, Resetting(m) = {}
                PROVE  /\ bucket'[Slot(m)] <= added'[m]
                       /\ m \notin overtaken => bucket'[Slot(m)] = added'[m]
    BY <1>5, <1>8 DEF Settled, InWindow
  <2>1. /\ bucket[Slot(m)] <= added[m]
        /\ m \notin overtaken => bucket[Slot(m)] = added[m]
    BY DEF Settled
  <2>2. CASE m = mine
    BY <2>1, <2>2, <1>3, <1>4, <1>11
  <2>3. CASE m # mine
    BY <2>1, <2>3, <1>4, <1>10
  <2>. QED
    BY <2>2, <2>3
<1>20. Bounded'
  <2>. SUFFICES ASSUME NEW i \in Ring
                PROVE  \/ bucket'[i] <= MaxTokens
                       \/ \E m \in Minutes : /\ Slot(m) = i /\ Resetting(m) # {}
                                             /\ bucket'[i] <= MaxTokens + added'[m]
    BY <1>8 DEF Bounded
  <2>1. \A m \in Minutes : added'[m] >= added[m] /\ added'[m] \in Nat /\ added[m] \in Nat
    BY <1>4, <1>11 DEF Typed
  <2>2. CASE i # Slot(mine)
    <3>1. CASE bucket[i] <= MaxTokens
      BY <2>2, <3>1, <1>3
    <3>2. CASE ~ bucket[i] <= MaxTokens
      <4>1. PICK m \in Minutes : Slot(m) = i /\ Resetting(m) # {} /\ bucket[i] <= MaxTokens + added[m]
        BY <3>2 DEF Bounded
      <4>2. bucket[i] \in Nat /\ bucket'[i] = bucket[i]
        BY <2>2, <1>3 DEF Typed
      <4>3. bucket'[i] <= MaxTokens + added'[m]
        BY <2>1, <4>1, <4>2, <1>11
      <4>. QED
        BY <4>1, <4>3
    <3>. QED
      BY <3>1, <3>2
  <2>3. CASE i = Slot(mine) /\ Resetting(mine) = {}
    <3>1. bucket[Slot(mine)] <= added[mine]
      BY <2>3, <1>1, <1>9 DEF Settled
    <3>. QED
      BY <2>3, <3>1, <1>3, <1>4, <1>11, <1>14
  <2>4. CASE i = Slot(mine) /\ Resetting(mine) # {}
    <3>1. bucket[i] <= MaxTokens + added[mine]
      <4>1. CASE bucket[i] <= MaxTokens
        BY <2>4, <4>1, <1>11
      <4>2. CASE ~ bucket[i] <= MaxTokens
        <5>1. PICK m \in Minutes : Slot(m) = i /\ Resetting(m) # {} /\ bucket[i] <= MaxTokens + added[m]
          BY <4>2 DEF Bounded
        <5>2. InWindow(m)
          BY <5>1 DEF Resetting, Busy, BusyInWindow
        <5>3. m = mine
          BY <5>1, <5>2, <2>4, <1>1, OwnSlot
        <5>. QED
          BY <5>1, <5>3
      <4>. QED
        BY <4>1, <4>2
    <3>2. bucket'[i] <= MaxTokens + added'[mine]
      BY <3>1, <2>4, <1>3, <1>4, <1>11
    <3>. QED
      BY <3>2, <2>4
  <2>. QED
    BY <2>2, <2>3, <2>4
<1>. QED
  BY <1>12, <1>13, <1>14, <1>15, <1>16, <1>17, <1>18, <1>19, <1>20

LEMMA Stutter == IInv /\ UNCHANGED vars => IInv'
  BY DEF IInv, vars, Typed, BusyInWindow, Stamped, Counted, Past, Fresh, OneReset, Pending,
         Settled, Bounded, InWindow, Busy, Resetting

LEMMA EveryStep == IInv /\ [Next]_vars => IInv'
<1>. SUFFICES ASSUME IInv, [Next]_vars PROVE IInv'
  OBVIOUS
<1>1. CASE Tick
  BY <1>1, TickStep
<1>2. CASE \E p \in Adders : Begin(p) \/ Swap(p) \/ Reset(p) \/ AddDelta(p)
  BY <1>2, BeginStep, SwapStep, ResetStep, AddDeltaStep
<1>3. CASE UNCHANGED vars
  BY <1>3, Stutter
<1>. QED
  BY <1>1, <1>2, <1>3 DEF Next

(* IInv is an invariant of the ring.                                       *)
THEOREM Invariant == Spec => []IInv
  BY InitInvariant, EveryStep, PTL DEF Spec

(* The counters of the ring keep their types, and no bucket holds more     *)
(* than two hours' tokens of its minute.                                   *)
THEOREM TypeCorrect == Spec => []TypeOK
<1>1. IInv => TypeOK
  <2>. SUFFICES ASSUME IInv PROVE TypeOK
    OBVIOUS
  <2>. USE DEF IInv
  <2>1. \A m \in Minutes : added[m] \in 0..MaxTokens
    <3>. TAKE m \in Minutes
    <3>1. added[m] \in Nat /\ Cardinality(Busy(m)) \in Nat
      BY BusyFinite DEF Typed
    <3>2. added[m] + Cardinality(Busy(m)) <= MaxTokens
      BY DEF Counted
    <3>. QED
      BY <3>1, <3>2, WindowAssumption
  <2>2. \A i \in Ring : bucket[i] \in 0..2 * MaxTokens
    <3>. TAKE i \in Ring
    <3>1. bucket[i] \in Nat /\ MaxTokens \in Nat
      BY WindowAssumption DEF Typed
    <3>2. bucket[i] <= 2 * MaxTokens
      BY <2>1, <3>1 DEF Bounded
    <3>. QED
      BY <3>1, <3>2
  <2>. QED
    BY <2>1, <2>2 DEF TypeOK, Typed, Ring
<1>. QED
  BY <1>1, Invariant, PTL

----------------------------------------------------------------------------
(* The sums.                                                               *)

LastMinutes(n) == {now - i : i \in 0..n - 1}

Current(n) == {m \in LastMinutes(n) : stamp[Slot(m)] = m}

LEMMA MinutesFinite == IsFiniteSet(Minutes)
  BY FS_Interval, WindowAssumption DEF Minutes

(* What has been added in the last n minutes has been added in those whose *)
(* stamp is still there.                                                   *)
LEMMA CurrentMinutes ==
    ASSUME IInv, NEW n \in 1..Slots
    PROVE  /\ Current(n) \in SUBSET Trailing(n) /\ IsFiniteSet(Trailing(n))
           /\ \A m \in Trailing(n) : m \in Minutes /\ added[m] \in Nat
           /\ \A m \in Trailing(n) \ Current(n) : added[m] = 0
           /\ \A m \in Current(n) : /\ m \in Minutes /\ InWindow(m) /\ Slot(m) \in Ring
                                    /\ stamp[Slot(m)] = m /\ bucket[Slot(m)] \in Nat
<1>. USE DEF IInv
<1>1. now \in Nat /\ now > Slots /\ n \in Nat /\ n >= 1 /\ n <= Slots /\ Slots \in Nat
  BY Clock DEF Typed
<1>2. \A m : m \in LastMinutes(n) <=> m \in Int /\ m > now - n /\ m <= now
  <2>1. ASSUME NEW m \in Int, m > now - n, m <= now
        PROVE  m \in LastMinutes(n)
    <3>1. now - m \in 0..n - 1 /\ m = now - (now - m)
      BY <2>1, <1>1
    <3>. QED
      BY <3>1 DEF LastMinutes
  <2>2. ASSUME NEW m \in LastMinutes(n)
        PROVE  m \in Int /\ m > now - n /\ m <= now
    BY <1>1 DEF LastMinutes
  <2>. QED
    BY <2>1, <2>2
<1>3. \A m \in Current(n) : /\ m \in Minutes /\ InWindow(m) /\ Slot(m) \in Ring /\ m > now - n
                            /\ stamp[Slot(m)] = m /\ bucket[Slot(m)] \in Nat
  <2>. TAKE m \in Current(n)
  <2>1. m \in Int /\ m > now - n /\ m <= now /\ stamp[Slot(m)] = m
    BY <1>2 DEF Current
  <2>2. m \in Nat /\ m # 0
    BY <2>1, <1>1
  <2>3. Slot(m) \in Ring
    BY <2>2, SlotInRing
  <2>. QED
    BY <2>1, <2>2, <2>3, <1>1 DEF Typed, InWindow
<1>4. Trailing(n) \in SUBSET Minutes /\ IsFiniteSet(Trailing(n))
  <2>1. Trailing(n) \in SUBSET Minutes
    BY DEF Trailing
  <2>. QED
    BY <2>1, MinutesFinite, FS_Subset
<1>5. ASSUME NEW m \in Trailing(n) \ Current(n)
      PROVE  added[m] = 0
  <2>1. m \in Minutes /\ m \in Nat /\ m > now - n
    BY Clock DEF Trailing
  <2>2. CASE m > now
    BY <2>1, <2>2 DEF Past
  <2>3. CASE m <= now
    <3>1. stamp[Slot(m)] # m /\ InWindow(m)
      BY <2>1, <2>3, <1>1, <1>2 DEF Current, InWindow
    <3>. QED
      BY <2>1, <3>1 DEF Fresh
  <2>. QED
    BY <2>1, <2>2, <2>3, <1>1
<1>6. Current(n) \in SUBSET Trailing(n)
  BY <1>3 DEF Trailing
<1>. QED
  BY <1>3, <1>4, <1>5, <1>6 DEF Typed

LEMMA TruthIsCurrent ==
    ASSUME IInv, NEW n \in 1..Slots
    PROVE  /\ IsFiniteSet(Current(n))
           /\ Truth(n) = SumFunctionOnSet(added, Current(n))
           /\ SumLastMinutes(n) = SumFunctionOnSet(Held(Current(n)), Current(n))
<1>1. IsFiniteSet(Current(n))
  BY CurrentMinutes, FS_Subset
<1>2. SumFunctionOnSet(added, Trailing(n)) = SumFunctionOnSet(added, Current(n))
  BY CurrentMinutes, SumSupport
<1>3. SumLastMinutes(n) = SumFunctionOnSet(Held(Current(n)), Current(n))
  BY DEF SumLastMinutes, Current, LastMinutes
<1>. QED
  BY <1>1, <1>2, <1>3 DEF Truth

LEMMA SumsAreExact == IInv => SumsExact
<1>. SUFFICES ASSUME IInv PROVE SumsExact
  OBVIOUS
<1>1. ASSUME NEW n \in 1..Slots, NoReset(n), overtaken \cap Trailing(n) = {}
      PROVE  SumLastMinutes(n) = Truth(n) /\ \A m \in Current(n) : bucket[Slot(m)] = added[m]
  <2>1. \A m \in Current(n) : added[m] \in Int /\ bucket[Slot(m)] = added[m]
    <3>. TAKE m \in Current(n)
    <3>1. m \in Minutes /\ InWindow(m) /\ stamp[Slot(m)] = m /\ m \in Trailing(n) /\ added[m] \in Nat
      BY CurrentMinutes
    <3>2. Resetting(m) = {} /\ m \notin overtaken
      BY <3>1, <1>1 DEF NoReset
    <3>. QED
      BY <3>1, <3>2 DEF IInv, Settled
  <2>2. \A m \in Current(n) : Held(Current(n))[m] = added[m]
    BY <2>1 DEF Held
  <2>3. SumFunctionOnSet(Held(Current(n)), Current(n)) = SumFunctionOnSet(added, Current(n))
    BY <2>1, <2>2, TruthIsCurrent, SumEqual
  <2>. QED
    BY <2>1, <2>3, TruthIsCurrent
<1>2. ASSUME NoReset(Slots), overtaken = {}
      PROVE  Sum = Truth(Slots)
  <2>. DEFINE Live == {i \in 0..Slots - 1 : stamp[i] > now - Slots}
  <2>0. now \in Nat /\ now > Slots /\ Slots \in 1..Slots
    BY Clock DEF IInv, Typed
  <2>1. \A i \in Live : /\ i \in Ring /\ stamp[i] \in Minutes /\ stamp[i] \in Nat /\ stamp[i] # 0
                        /\ stamp[i] <= now /\ stamp[i] > now - Slots /\ Slot(stamp[i]) = i
    <3>. TAKE i \in Live
    <3>1. i \in Ring /\ stamp[i] > now - Slots
      BY DEF Ring
    <3>2. stamp[i] \in {0} \cup Minutes
      BY <3>1 DEF IInv, Typed
    <3>3. stamp[i] # 0
      BY <3>1, <2>0
    <3>4. stamp[i] \in Nat
      BY <3>2, Clock
    <3>5. stamp[i] <= now /\ Slot(stamp[i]) = i
      BY <3>1, <3>3 DEF IInv, Stamped
    <3>. QED
      BY <3>1, <3>2, <3>3, <3>4, <3>5
  <2>2. Current(Slots) = {stamp[i] : i \in Live}
    <3>1. ASSUME NEW m \in Current(Slots)
          PROVE  m \in {stamp[i] : i \in Live}
      <4>1. InWindow(m) /\ Slot(m) \in Ring /\ stamp[Slot(m)] = m
        BY <2>0, CurrentMinutes
      <4>2. Slot(m) \in Live
        BY <4>1 DEF InWindow, Ring
      <4>. QED
        BY <4>1, <4>2
    <3>2. ASSUME NEW i \in Live
          PROVE  stamp[i] \in Current(Slots)
      <4>1. now - stamp[i] \in 0..Slots - 1 /\ stamp[i] = now - (now - stamp[i])
        BY <2>0, <2>1
      <4>2. stamp[i] \in LastMinutes(Slots)
        BY <4>1 DEF LastMinutes
      <4>. QED
        BY <4>2, <2>1 DEF Current
    <3>. QED
      BY <3>1, <3>2
  <2>3. IsFiniteSet(Live)
    <3>1. Live \in SUBSET (0..Slots - 1) /\ IsFiniteSet(0..Slots - 1)
      BY FS_Interval, Clock
    <3>. QED
      BY <3>1, FS_Subset
  <2>4. \A i \in Live : bucket[i] \in Int /\ added[stamp[i]] = bucket[i]
    <3>1. overtaken \cap Trailing(Slots) = {}
      BY <1>2
    <3>2. \A m \in Current(Slots) : bucket[Slot(m)] = added[m]
      BY <3>1, <1>1, <1>2, <2>0
    <3>. QED
      BY <2>1, <2>2, <3>2 DEF IInv, Typed
  <2>5. \A i, j \in Live : stamp[i] = stamp[j] => i = j
    BY <2>1
  <2>. HIDE DEF Live
  <2>6. SumFunctionOnSet(added, {stamp[i] : i \in Live}) = SumFunctionOnSet(bucket, Live)
    BY <2>3, <2>4, <2>5, SumReindex
  <2>7. Sum = SumFunctionOnSet(bucket, Live)
    BY DEF Sum, Live
  <2>. QED
    BY <2>0, <2>2, <2>6, <2>7, TruthIsCurrent
<1>. QED
  BY <1>1, <1>2 DEF SumsExact

LEMMA NothingInvented == IInv => NeverOverstated
<1>. SUFFICES ASSUME IInv, NEW n \in 1..Slots, NoReset(n)
              PROVE  SumLastMinutes(n) <= Truth(n)
  BY DEF NeverOverstated
<1>1. \A m \in Current(n) : /\ Held(Current(n))[m] \in Int /\ added[m] \in Int
                            /\ Held(Current(n))[m] <= added[m]
  <2>. TAKE m \in Current(n)
  <2>1. /\ m \in Minutes /\ InWindow(m) /\ stamp[Slot(m)] = m
        /\ m \in Trailing(n) /\ added[m] \in Nat /\ bucket[Slot(m)] \in Nat
    BY CurrentMinutes
  <2>2. Resetting(m) = {}
    BY <2>1 DEF NoReset
  <2>3. bucket[Slot(m)] <= added[m]
    BY <2>1, <2>2 DEF IInv, Settled
  <2>. QED
    BY <2>1, <2>3 DEF Held
<1>2. SumFunctionOnSet(Held(Current(n)), Current(n)) <= SumFunctionOnSet(added, Current(n))
  BY <1>1, TruthIsCurrent, SumMonotone
<1>. QED
  BY <1>2, TruthIsCurrent

(* The trailing sums are exact whenever no reset is pending and no Add has *)
(* overtaken one, however often the ring has wrapped.                      *)
THEOREM ExactSums == Spec => []SumsExact
  BY Invariant, SumsAreExact, PTL

(* Even with Adds that overtake a reset, the gate never sees tokens nobody *)
(* sent in the last minutes.                                               *)
THEOREM NoPhantomTokens == Spec => []NeverOverstated
  BY Invariant, NothingInvented, PTL

----------------------------------------------------------------------------
(* The TPM gate.                                                           *)

(* The requests that may still charge minute m without being asked again.  *)
Claims(m) ==
    Busy(m) \cup {p \in Adders :
        m = now /\ \/ gate[p].pc = "passed"
                   \/ gate[p].pc = "load" /\ gate[p].minute # now}

GateTyped ==
    /\ gate \in [Adders -> [pc : {"outside", "load", "passed"}, minute : {0} \cup Minutes]]
    /\ \A p \in Adders : gate[p].pc # "outside" => add[p].pc = "idle"

(* A pending reset hides nothing from the gate: what overtook it lies on   *)
(* top of the last hour's tokens.                                          *)
Covered == \A m \in Minutes : Resetting(m) # {} => added[m] <= bucket[Slot(m)]

Ceiling == TPMLimit + Cardinality(Adders) - 1

(* Until tokens are wiped out, what has been and may be charged stays      *)
(* below the ceiling; afterwards what the bucket holds and may get does,   *)
(* and so does what was wiped out, none of it the resetting request's.     *)
CapAt(m) ==
    /\ m \notin overtaken \/ Resetting(m) # {} =>
           added[m] + Cardinality(Claims(m)) <= Ceiling
    /\ m \in overtaken /\ Resetting(m) = {} =>
           /\ bucket[Slot(m)] + Cardinality(Claims(m)) <= Ceiling
           /\ added[m] <= bucket[Slot(m)] + Ceiling - 1

Capped == \A m \in Minutes : InWindow(m) => CapAt(m)

GateInv == IInv /\ GateTyped /\ Covered /\ Capped

LEMMA Within ==
    ASSUME NEW C \in SUBSET Adders
    PROVE  /\ IsFiniteSet(C) /\ Cardinality(C) \in Nat /\ Cardinality(Adders) \in Nat
           /\ Cardinality(C) <= Cardinality(Adders)
           /\ Ceiling \in Nat /\ Cardinality(C) <= Ceiling
<1>1. IsFiniteSet(C) /\ Cardinality(C) \in Nat /\ Cardinality(Adders) \in Nat
  BY FS_Subset, FS_CardinalityType, WindowAssumption
<1>2. Cardinality(C) <= Cardinality(Adders)
  BY FS_Subset, WindowAssumption
<1>. QED
  BY <1>1, <1>2, LimitAssumption DEF Ceiling

LEMMA ClaimsWithin == \A m : Claims(m) \in SUBSET Adders
  BY DEF Claims, Busy

(* A minute whose books a step does not touch, and which it gives nobody   *)
(* a claim to.                                                             *)
LEMMA CapKept ==
    ASSUME Typed, NEW m \in Minutes, CapAt(m),
           added'[m] = added[m], bucket'[Slot(m)] = bucket[Slot(m)],
           m \in overtaken' <=> m \in overtaken, Resetting(m)' = Resetting(m),
           Claims(m)' \in SUBSET Claims(m)
    PROVE  CapAt(m)'
<1>1. /\ Cardinality(Claims(m)) \in Nat /\ Cardinality(Claims(m)') \in Nat
      /\ Cardinality(Claims(m)') <= Cardinality(Claims(m))
  <2>1. IsFiniteSet(Claims(m))
    BY ClaimsWithin, Within
  <2>. QED
    BY <2>1, FS_Subset, FS_CardinalityType
<1>2. added[m] \in Nat /\ bucket[Slot(m)] \in Nat /\ Ceiling \in Nat
  BY Within, SlotInRing, Clock DEF Typed
<1>3. m \notin overtaken' \/ Resetting(m)' # {} =>
          added'[m] + Cardinality(Claims(m)') <= Ceiling
  BY <1>1, <1>2 DEF CapAt
<1>4. m \in overtaken' /\ Resetting(m)' = {} =>
          /\ bucket'[Slot(m)] + Cardinality(Claims(m)') <= Ceiling
          /\ added'[m] <= bucket'[Slot(m)] + Ceiling - 1
  BY <1>1, <1>2 DEF CapAt
<1>. QED
  BY <1>3, <1>4 DEF CapAt, Ceiling

LEMMA GateInitInv == GateInit => GateInv
<1>. SUFFICES ASSUME GateInit PROVE GateInv
  OBVIOUS
<1>1. IInv
  BY InitInvariant DEF GateInit
<1>2. GateTyped
  BY DEF GateInit, Init, Outside, Idle, GateTyped
<1>3. \A m : Resetting(m) = {}
  BY DEF GateInit, Init, Idle, Busy, Resetting
<1>4. Covered
  BY <1>3 DEF Covered
<1>5. Capped
  <2>. SUFFICES ASSUME NEW m \in Minutes PROVE CapAt(m)
    BY DEF Capped
  <2>1. added[m] = 0 /\ m \notin overtaken
    BY DEF GateInit, Init
  <2>. QED
    BY <2>1, ClaimsWithin, Within DEF CapAt
<1>. QED
  BY <1>1, <1>2, <1>4, <1>5 DEF GateInv

(* A request that only asks, or gives up, leaves the books as they are.    *)
LEMMA AskStep ==
    ASSUME GateInv, UNCHANGED vars, GateTyped',
           \A m \in Minutes : InWindow(m) =>
               \/ Claims(m)' \in SUBSET Claims(m)
               \/ added[m] = 0 /\ m \notin overtaken
               \/ bucket[Slot(m)] + 1 <= TPMLimit /\ stamp[Slot(m)] = m
    PROVE  GateInv'
<1>. USE DEF GateInv
<1>1. UNCHANGED <<now, stamp, bucket, add, added, overtaken>>
  BY DEF vars
<1>2. IInv' /\ \A m : Resetting(m)' = Resetting(m)
  BY <1>1, Stutter DEF Resetting, Busy
<1>3. Covered'
  BY <1>1, <1>2 DEF Covered
<1>4. ASSUME NEW m \in Minutes, InWindow(m)
      PROVE  CapAt(m)'
  <2>1. CapAt(m) /\ Typed
    BY <1>4 DEF Capped, IInv
  <2>2. added[m] \in Nat /\ bucket[Slot(m)] \in Nat /\ TPMLimit \in Nat \ {0}
    BY <2>1, SlotInRing, Clock, LimitAssumption DEF Typed
  <2>3. Claims(m)' \in SUBSET Adders
    BY DEF Claims, Busy
  <2>4. /\ Cardinality(Claims(m)') \in Nat /\ Cardinality(Adders) \in Nat
        /\ Cardinality(Claims(m)') <= Cardinality(Adders) /\ Ceiling \in Nat
    BY <2>3, Within
  <2>5. CASE Claims(m)' \in SUBSET Claims(m)
    BY <2>1, <2>5, <1>1, <1>2, CapKept
  <2>6. CASE added[m] = 0 /\ m \notin overtaken
    <3>1. added'[m] + Cardinality(Claims(m)') <= Ceiling
      BY <2>2, <2>4, <2>6, <1>1 DEF Ceiling
    <3>. QED
      BY <3>1, <2>6, <1>1 DEF CapAt, Ceiling
  <2>7. CASE bucket[Slot(m)] + 1 <= TPMLimit /\ stamp[Slot(m)] = m
    <3>1. m \notin overtaken \/ Resetting(m) # {} => added[m] <= bucket[Slot(m)]
      BY <1>4, <2>7 DEF Covered, IInv, Settled
    <3>2. m \notin overtaken \/ Resetting(m) # {} =>
              added[m] + Cardinality(Claims(m)') <= Ceiling
      BY <2>2, <2>4, <2>7, <3>1 DEF Ceiling
    <3>3. bucket[Slot(m)] + Cardinality(Claims(m)') <= Ceiling
      BY <2>2, <2>4, <2>7 DEF Ceiling
    <3>4. m \in overtaken /\ Resetting(m) = {} => added[m] <= bucket[Slot(m)] + Ceiling - 1
      BY <2>1 DEF CapAt
    <3>. QED
      BY <3>2, <3>3, <3>4, <1>1, <1>2 DEF CapAt, Ceiling
  <2>. QED
    BY <1>4, <2>5, <2>6, <2>7
<1>5. Capped'
  BY <1>1, <1>4 DEF Capped, InWindow
<1>. QED
  BY <1>2, <1>3, <1>5

LEMMA LookStep ==
    ASSUME GateInv, NEW p \in Adders, Look(p)
    PROVE  GateInv'
<1>. USE DEF GateInv
<1>1. UNCHANGED vars /\ UNCHANGED <<now, add>> /\ now \in Minutes
  BY DEF Look, vars, IInv, Typed
<1>2. /\ gate' \in [Adders -> [pc : {"outside", "load", "passed"}, minute : {0} \cup Minutes]]
      /\ gate'[p].pc = (IF stamp[Slot(now)] # now THEN "passed" ELSE "load")
      /\ gate'[p].minute = now
      /\ \A q \in Adders : q # p => gate'[q] = gate[q]
  BY <1>1 DEF Look, GateTyped
<1>3. GateTyped'
  BY <1>1, <1>2 DEF Look, GateTyped
<1>4. ASSUME NEW m \in Minutes, InWindow(m)
      PROVE  \/ Claims(m)' \in SUBSET Claims(m)
             \/ added[m] = 0 /\ m \notin overtaken
  <2>1. CASE m # now \/ stamp[Slot(now)] = now
    BY <2>1, <1>1, <1>2 DEF Claims, Busy
  <2>2. CASE m = now /\ stamp[Slot(now)] # now
    BY <2>2, <1>4 DEF IInv, Fresh
  <2>. QED
    BY <2>1, <2>2
<1>. QED
  BY <1>1, <1>3, <1>4, AskStep

LEMMA LoadStep ==
    ASSUME GateInv, NEW p \in Adders, Load(p)
    PROVE  GateInv'
<1>. USE DEF GateInv
<1>1. UNCHANGED vars /\ UNCHANGED <<now, add>> /\ now \in Minutes
  BY DEF Load, vars, IInv, Typed
<1>2. /\ gate' \in [Adders -> [pc : {"outside", "load", "passed"}, minute : {0} \cup Minutes]]
      /\ gate'[p].pc = (IF bucket[Slot(gate[p].minute)] + 1 <= TPMLimit
                        THEN "passed" ELSE "outside")
      /\ \A q \in Adders : q # p => gate'[q] = gate[q]
      /\ gate[p].pc = "load"
  BY <1>1 DEF Load, GateTyped, Outside
<1>3. GateTyped'
  BY <1>1, <1>2 DEF GateTyped
<1>4. ASSUME NEW m \in Minutes, InWindow(m)
      PROVE  \/ Claims(m)' \in SUBSET Claims(m)
             \/ added[m] = 0 /\ m \notin overtaken
             \/ bucket[Slot(m)] + 1 <= TPMLimit /\ stamp[Slot(m)] = m
  <2>1. CASE m # now \/ gate[p].minute # now \/ gate'[p].pc = "outside"
    BY <2>1, <1>1, <1>2 DEF Claims, Busy
  <2>2. CASE m = now /\ gate[p].minute = now /\ gate'[p].pc # "outside"
    <3>1. bucket[Slot(m)] + 1 <= TPMLimit
      BY <2>2, <1>2
    <3>2. CASE stamp[Slot(m)] # m
      BY <3>2, <1>4 DEF IInv, Fresh
    <3>. QED
      BY <3>1, <3>2
  <2>. QED
    BY <2>1, <2>2
<1>. QED
  BY <1>1, <1>3, <1>4, AskStep

LEMMA PassedOverStep ==
    ASSUME GateInv, NEW p \in Adders, PassedOver(p)
    PROVE  GateInv'
<1>. USE DEF GateInv
<1>1. UNCHANGED vars /\ UNCHANGED <<now, add>>
  BY DEF PassedOver, vars
<1>2. /\ gate' \in [Adders -> [pc : {"outside", "load", "passed"}, minute : {0} \cup Minutes]]
      /\ gate'[p].pc = "outside"
      /\ \A q \in Adders : q # p => gate'[q] = gate[q]
  BY DEF PassedOver, GateTyped, Outside
<1>3. GateTyped'
  BY <1>1, <1>2 DEF GateTyped
<1>4. \A m \in Minutes : Claims(m)' \in SUBSET Claims(m)
  BY <1>1, <1>2 DEF Claims, Busy
<1>. QED
  BY <1>1, <1>3, <1>4, AskStep

(* Admission turns a claim into an Add.                                    *)
LEMMA ReserveStep ==
    ASSUME GateInv, NEW p \in Adders, Reserve(p)
    PROVE  GateInv'
<1>. USE DEF GateInv
<1>1. IInv'
  BY BeginStep DEF Reserve
<1>2. /\ UNCHANGED <<now, stamp, bucket, added, overtaken>>
      /\ add' = [add EXCEPT ![p] = [pc |-> "swap", minute |-> now]]
      /\ gate[p].pc = "passed" /\ gate' = [gate EXCEPT ![p] = Outside]
      /\ Typed /\ Typed'
  BY <1>1 DEF Reserve, Begin, IInv
<1>3. /\ add'[p] = [pc |-> "swap", minute |-> now] /\ gate'[p].pc = "outside"
      /\ \A q \in Adders : q # p => add'[q] = add[q] /\ gate'[q] = gate[q]
      /\ add[p].pc = "idle"
  BY <1>2 DEF Typed, GateTyped, Outside
<1>4. GateTyped'
  BY <1>2, <1>3 DEF GateTyped, Outside
<1>5. \A m \in Minutes : Resetting(m)' = Resetting(m)
  BY <1>3 DEF Resetting, Busy
<1>6. \A m \in Minutes : Claims(m)' \in SUBSET Claims(m)
  BY <1>2, <1>3 DEF Claims, Busy
<1>7. Covered'
  BY <1>2, <1>5 DEF Covered
<1>8. Capped'
  BY <1>2, <1>5, <1>6, CapKept DEF Capped, InWindow
<1>. QED
  BY <1>1, <1>4, <1>7, <1>8

(* In a new minute everybody who passed may still come.                    *)
LEMMA GateTickStep ==
    ASSUME GateInv, Tick, UNCHANGED gate
    PROVE  GateInv'
<1>. USE DEF GateInv
<1>. DEFINE old == now + 1 - Slots
<1>1. IInv'
  BY TickStep
<1>2. /\ UNCHANGED <<stamp, bucket, add, gate>> /\ now' = now + 1
      /\ overtaken' = overtaken \ {old}
      /\ \A m \in Minutes : added'[m] = IF m = old THEN 0 ELSE added[m]
      /\ Busy(old) = {} /\ Typed /\ now \in Nat /\ Slots \in Nat /\ Slots > 1
  BY Clock DEF Tick, IInv, Typed
<1>3. \A m : Busy(m)' = Busy(m) /\ Resetting(m)' = Resetting(m)
  BY <1>2 DEF Busy, Resetting
<1>4. GateTyped'
  BY <1>2 DEF GateTyped
<1>5. Covered'
  BY <1>2, <1>3 DEF Covered, Resetting
<1>6. ASSUME NEW m \in Minutes, InWindow(m)'
      PROVE  CapAt(m)'
  <2>. m \in Nat
    BY Clock
  <2>1. CASE m = now + 1
    <3>1. m > now /\ ~ InWindow(m)
      BY <2>1, <1>2 DEF InWindow
    <3>2. added[m] = 0 /\ m \notin overtaken
      BY <3>1 DEF IInv, Past
    <3>3. Claims(m)' \in SUBSET Adders
      BY DEF Claims, Busy
    <3>4. /\ Cardinality(Claims(m)') \in Nat /\ Cardinality(Claims(m)') <= Ceiling
          /\ Ceiling \in Nat
      BY <3>3, Within
    <3>5. added'[m] = 0 /\ m \notin overtaken'
      BY <3>2, <1>2
    <3>6. added'[m] + Cardinality(Claims(m)') <= Ceiling
      BY <3>4, <3>5
    <3>. QED
      BY <3>5, <3>6 DEF CapAt, Ceiling
  <2>2. CASE m # now + 1
    <3>1. InWindow(m) /\ m # old
      BY <2>2, <1>2, <1>6 DEF InWindow
    <3>2. CapAt(m)
      BY <3>1 DEF Capped
    <3>3. /\ added'[m] = added[m] /\ bucket'[Slot(m)] = bucket[Slot(m)]
          /\ m \in overtaken' <=> m \in overtaken
          /\ Resetting(m)' = Resetting(m)
      BY <3>1, <1>2, <1>3
    <3>4. Claims(m)' \in SUBSET Claims(m)
      BY <2>2, <1>2, <1>3 DEF Claims
    <3>. QED
      BY <3>2, <3>3, <3>4, <1>2, CapKept
  <2>. QED
    BY <2>1, <2>2
<1>7. Capped'
  BY <1>6 DEF Capped
<1>. QED
  BY <1>1, <1>4, <1>5, <1>7

(* An Add that takes the stamp: the first finds nothing charged, one that  *)
(* overtakes the reset changes no books.                                   *)
LEMMA GateSwapStep ==
    ASSUME GateInv, NEW p \in Adders, Swap(p), UNCHANGED gate
    PROVE  GateInv'
<1>. USE DEF GateInv
<1>0. add[p].pc = "swap"
  BY DEF Swap
<1>. PICK mine \in Minutes : mine = add[p].minute
  BY <1>0, Stepping
<1>1. /\ InWindow(mine) /\ p \in Busy(mine) /\ Slot(mine) \in Ring /\ mine \in Nat /\ Typed
  BY <1>0, Stepping DEF IInv
<1>2. IInv'
  BY SwapStep
<1>3. /\ add'[p].pc = (IF stamp[Slot(mine)] # mine THEN "reset" ELSE "add")
      /\ add'[p].minute = mine
      /\ \A q \in Adders : q # p => add'[q] = add[q]
  BY <1>1 DEF Swap, Typed
<1>4. UNCHANGED <<now, bucket, added, gate>>
  BY DEF Swap
<1>5. overtaken' = IF Resetting(mine) # {} THEN overtaken \cup {mine} ELSE overtaken
  BY DEF Swap
<1>6. GateTyped'
  BY <1>0, <1>3, <1>4 DEF GateTyped
<1>7. \A m : Busy(m)' = Busy(m)
  BY <1>0, <1>3 DEF Busy
<1>8. \A m \in Minutes : Claims(m)' = Claims(m)
  BY <1>4, <1>7 DEF Claims
<1>9. \A m \in Minutes : m # mine => Resetting(m)' = Resetting(m)
  BY <1>0, <1>3, <1>7 DEF Resetting, Busy
<1>10. stamp[Slot(mine)] # mine => added[mine] = 0 /\ mine \notin overtaken
  BY <1>1 DEF IInv, Fresh
<1>11. stamp[Slot(mine)] = mine => Resetting(mine)' = Resetting(mine)
  BY <1>0, <1>3, <1>7 DEF Resetting, Busy
<1>12. stamp[Slot(mine)] # mine => Resetting(mine)' # {} /\ Resetting(mine) = {}
  BY <1>0, <1>1, <1>3, <1>7 DEF Resetting, IInv, Fresh
<1>13. bucket[Slot(mine)] \in Nat
  BY <1>1 DEF Typed
<1>14. Covered'
  BY <1>4, <1>9, <1>10, <1>11, <1>13 DEF Covered
<1>15. ASSUME NEW m \in Minutes, InWindow(m)
       PROVE  CapAt(m)'
  <2>1. CapAt(m)
    BY <1>15 DEF Capped
  <2>2. CASE m # mine
    BY <2>1, <2>2, <1>1, <1>4, <1>5, <1>8, <1>9, CapKept
  <2>3. CASE m = mine /\ stamp[Slot(mine)] # mine
    <3>1. added[m] + Cardinality(Claims(m)) <= Ceiling
      BY <2>1, <2>3, <1>10 DEF CapAt
    <3>2. added'[m] + Cardinality(Claims(m)') <= Ceiling
      BY <3>1, <1>4, <1>8
    <3>. QED
      BY <3>2, <2>3, <1>12 DEF CapAt, Ceiling
  <2>4. CASE m = mine /\ stamp[Slot(mine)] = mine /\ Resetting(mine) # {}
    <3>1. added[m] + Cardinality(Claims(m)) <= Ceiling
      BY <2>1, <2>4 DEF CapAt
    <3>2. added'[m] + Cardinality(Claims(m)') <= Ceiling
      BY <3>1, <1>4, <1>8
    <3>. QED
      BY <3>2, <2>4, <1>11 DEF CapAt, Ceiling
  <2>5. CASE m = mine /\ stamp[Slot(mine)] = mine /\ Resetting(mine) = {}
    BY <2>1, <2>5, <1>1, <1>4, <1>5, <1>8, <1>11, CapKept
  <2>. QED
    BY <2>2, <2>3, <2>4, <2>5
<1>16. Capped'
  BY <1>4, <1>15 DEF Capped, InWindow
<1>. QED
  BY <1>2, <1>6, <1>14, <1>16

(* The reset wipes out what had overtaken it, none of which was its own.   *)
LEMMA GateResetStep ==
    ASSUME GateInv, NEW p \in Adders, Reset(p), UNCHANGED gate
    PROVE  GateInv'
<1>. USE DEF GateInv
<1>0. add[p].pc = "reset"
  BY DEF Reset
<1>. PICK mine \in Minutes : mine = add[p].minute
  BY <1>0, Stepping
<1>1. /\ InWindow(mine) /\ p \in Busy(mine) /\ Slot(mine) \in Ring /\ mine \in Nat /\ Typed
  BY <1>0, Stepping DEF IInv
<1>2. IInv'
  BY ResetStep
<1>3. /\ add'[p].pc = "add" /\ add'[p].minute = mine
      /\ \A q \in Adders : q # p => add'[q] = add[q]
  BY <1>1 DEF Reset, Typed
<1>4. UNCHANGED <<now, added, overtaken, gate>>
  BY DEF Reset
<1>5. /\ bucket'[Slot(mine)] = 0
      /\ \A i \in Ring : i # Slot(mine) => bucket'[i] = bucket[i]
  BY <1>1 DEF Reset, Typed
<1>6. GateTyped'
  BY <1>0, <1>3, <1>4 DEF GateTyped
<1>7. \A m : Busy(m)' = Busy(m)
  BY <1>0, <1>3 DEF Busy
<1>8. \A m \in Minutes : Claims(m)' = Claims(m)
  BY <1>4, <1>7 DEF Claims
<1>9. \A m \in Minutes : m # mine => Resetting(m)' = Resetting(m)
  BY <1>0, <1>3, <1>7 DEF Resetting, Busy
<1>10. Resetting(mine) # {} /\ Resetting(mine)' = {}
  <2>1. p \in Resetting(mine)
    BY <1>0, <1>1 DEF Resetting
  <2>2. Resetting(mine) = {p}
    BY <2>1 DEF IInv, OneReset
  <2>. QED
    BY <2>1, <2>2, <1>3, <1>7 DEF Resetting, Busy
<1>11. \A m \in Minutes : InWindow(m) /\ m # mine => bucket'[Slot(m)] = bucket[Slot(m)]
  BY <1>1, <1>5, OwnSlot, SlotInRing, Clock
<1>12. Covered'
  <2>. SUFFICES ASSUME NEW m \in Minutes, Resetting(m)' # {}
                PROVE  added[m] <= bucket'[Slot(m)]
    BY <1>4 DEF Covered
  <2>1. m # mine /\ Resetting(m) # {}
    BY <1>9, <1>10
  <2>2. InWindow(m)
    BY <2>1 DEF Resetting, Busy, IInv, BusyInWindow
  <2>. QED
    BY <2>1, <2>2, <1>11 DEF Covered
<1>13. ASSUME NEW m \in Minutes, InWindow(m)
       PROVE  CapAt(m)'
  <2>1. CapAt(m)
    BY <1>13 DEF Capped
  <2>2. CASE m # mine
    <3>1. /\ added'[m] = added[m] /\ bucket'[Slot(m)] = bucket[Slot(m)]
          /\ m \in overtaken' <=> m \in overtaken
          /\ Resetting(m)' = Resetting(m) /\ Claims(m)' \in SUBSET Claims(m)
      BY <2>2, <1>4, <1>8, <1>9, <1>11, <1>13
    <3>. QED
      BY <2>1, <3>1, <1>1, CapKept
  <2>3. CASE m = mine
    <3>1. added[m] + Cardinality(Claims(m)) <= Ceiling
      BY <2>1, <2>3, <1>10 DEF CapAt
    <3>2. p \in Claims(m)
      BY <2>3, <1>1 DEF Claims
    <3>3. /\ IsFiniteSet(Claims(m)) /\ Cardinality(Claims(m)) \in Nat
          /\ Cardinality(Claims(m)) <= Ceiling /\ Ceiling \in Nat
      BY ClaimsWithin, Within
    <3>4. Cardinality(Claims(m)) # 0
      BY <3>2, <3>3, FS_EmptySet
    <3>5. added[m] \in Nat
      BY <1>1 DEF Typed
    <3>6. added[m] <= Ceiling - 1
      BY <3>1, <3>3, <3>4, <3>5
    <3>7. m \notin overtaken' \/ Resetting(m)' # {} =>
              added'[m] + Cardinality(Claims(m)') <= Ceiling
      BY <3>1, <1>4, <1>8
    <3>8. m \in overtaken' /\ Resetting(m)' = {} =>
              /\ bucket'[Slot(m)] + Cardinality(Claims(m)') <= Ceiling
              /\ added'[m] <= bucket'[Slot(m)] + Ceiling - 1
      BY <2>3, <3>3, <3>5, <3>6, <1>4, <1>5, <1>8
    <3>. QED
      BY <3>7, <3>8 DEF CapAt, Ceiling
  <2>. QED
    BY <2>2, <2>3
<1>14. Capped'
  BY <1>4, <1>13 DEF Capped, InWindow
<1>. QED
  BY <1>2, <1>6, <1>12, <1>14

(* An Add completed is a claim spent.                                      *)
LEMMA GateAddStep ==
    ASSUME GateInv, NEW p \in Adders, AddDelta(p), UNCHANGED gate
    PROVE  GateInv'
<1>. USE DEF GateInv
<1>0. add[p].pc = "add"
  BY DEF AddDelta
<1>. PICK mine \in Minutes : mine = add[p].minute
  BY <1>0, Stepping
<1>1. /\ InWindow(mine) /\ p \in Busy(mine) /\ Slot(mine) \in Ring /\ mine \in Nat /\ Typed
  BY <1>0, Stepping DEF IInv
<1>2. IInv'
  BY AddDeltaStep
<1>3. /\ add'[p].pc = "idle" /\ \A q \in Adders : q # p => add'[q] = add[q]
  BY <1>1 DEF AddDelta, Typed, Idle
<1>4. UNCHANGED <<now, overtaken, gate>>
  BY DEF AddDelta
<1>5. /\ bucket'[Slot(mine)] = bucket[Slot(mine)] + 1
      /\ \A i \in Ring : i # Slot(mine) => bucket'[i] = bucket[i]
  BY <1>1 DEF AddDelta, Typed
<1>6. /\ added'[mine] = added[mine] + 1
      /\ \A m \in Minutes : m # mine => added'[m] = added[m]
  BY <1>1 DEF AddDelta, Typed
<1>7. GateTyped'
  BY <1>3, <1>4 DEF GateTyped
<1>8. gate[p].pc = "outside"
  BY <1>0 DEF GateTyped
<1>9. Busy(mine)' = Busy(mine) \ {p} /\ \A m \in Minutes : m # mine => Busy(m)' = Busy(m)
  BY <1>0, <1>3 DEF Busy
<1>10. /\ Claims(mine)' = Claims(mine) \ {p} /\ p \in Claims(mine)
       /\ \A m \in Minutes : m # mine => Claims(m)' = Claims(m)
  BY <1>1, <1>4, <1>8, <1>9 DEF Claims
<1>11. \A m \in Minutes : Resetting(m)' = Resetting(m)
  BY <1>0, <1>3, <1>9 DEF Resetting, Busy
<1>12. \A m \in Minutes : InWindow(m) /\ m # mine => bucket'[Slot(m)] = bucket[Slot(m)]
  BY <1>1, <1>5, OwnSlot, SlotInRing, Clock
<1>13. added[mine] \in Nat /\ bucket[Slot(mine)] \in Nat
  BY <1>1 DEF Typed
<1>14. Covered'
  <2>. SUFFICES ASSUME NEW m \in Minutes, Resetting(m) # {}
                PROVE  added'[m] <= bucket'[Slot(m)]
    BY <1>11 DEF Covered
  <2>1. added[m] <= bucket[Slot(m)] /\ InWindow(m)
    BY DEF Covered, Resetting, Busy, IInv, BusyInWindow
  <2>2. CASE m = mine
    BY <2>1, <2>2, <1>5, <1>6, <1>13
  <2>3. CASE m # mine
    BY <2>1, <2>3, <1>6, <1>12
  <2>. QED
    BY <2>2, <2>3
<1>15. ASSUME NEW m \in Minutes, InWindow(m)
       PROVE  CapAt(m)'
  <2>1. CapAt(m)
    BY <1>15 DEF Capped
  <2>2. CASE m # mine
    <3>1. /\ added'[m] = added[m] /\ bucket'[Slot(m)] = bucket[Slot(m)]
          /\ m \in overtaken' <=> m \in overtaken
          /\ Resetting(m)' = Resetting(m) /\ Claims(m)' \in SUBSET Claims(m)
      BY <2>2, <1>4, <1>6, <1>10, <1>11, <1>12, <1>15
    <3>. QED
      BY <2>1, <3>1, <1>1, CapKept
  <2>3. CASE m = mine
    <3>1. /\ IsFiniteSet(Claims(m)) /\ Cardinality(Claims(m)) \in Nat
          /\ Ceiling \in Nat
      BY ClaimsWithin, Within
    <3>2. Cardinality(Claims(m)') = Cardinality(Claims(m)) - 1
      BY <2>3, <3>1, <1>10, FS_RemoveElement
    <3>3. m \notin overtaken' \/ Resetting(m)' # {} =>
              added'[m] + Cardinality(Claims(m)') <= Ceiling
      BY <2>1, <2>3, <3>1, <3>2, <1>4, <1>6, <1>11, <1>13 DEF CapAt
    <3>4. m \in overtaken' /\ Resetting(m)' = {} =>
              /\ bucket'[Slot(m)] + Cardinality(Claims(m)') <= Ceiling
              /\ added'[m] <= bucket'[Slot(m)] + Ceiling - 1
      BY <2>1, <2>3, <3>1, <3>2, <1>4, <1>5, <1>6, <1>11, <1>13 DEF CapAt
    <3>. QED
      BY <3>3, <3>4 DEF CapAt, Ceiling
  <2>. QED
    BY <2>2, <2>3
<1>16. Capped'
  BY <1>4, <1>15 DEF Capped, InWindow
<1>. QED
  BY <1>2, <1>7, <1>14, <1>16

LEMMA EveryGateStep == GateInv /\ [GateNext]_gateVars => GateInv'
<1>. SUFFICES ASSUME GateInv, [GateNext]_gateVars PROVE GateInv'
  OBVIOUS
<1>1. CASE Tick /\ UNCHANGED gate
  BY <1>1, GateTickStep
<1>2. ASSUME NEW p \in Adders, Look(p) \/ Load(p) \/ PassedOver(p) \/ Reserve(p)
      PROVE  GateInv'
  BY <1>2, LookStep, LoadStep, PassedOverStep, ReserveStep
<1>3. ASSUME NEW p \in Adders, Swap(p) \/ Reset(p) \/ AddDelta(p), UNCHANGED gate
      PROVE  GateInv'
  BY <1>3, GateSwapStep, GateResetStep, GateAddStep
<1>4. CASE UNCHANGED gateVars
  <2>1. UNCHANGED vars /\ UNCHANGED <<now, add, gate>>
    BY <1>4 DEF gateVars, vars
  <2>2. GateTyped' /\ \A m \in Minutes : Claims(m)' \in SUBSET Claims(m)
    BY <2>1 DEF GateInv, GateTyped, Claims, Busy
  <2>. QED
    BY <2>1, <2>2, AskStep
<1>. QED
  BY <1>1, <1>2, <1>3, <1>4 DEF GateNext

(* The requests that ask before they add are goroutines of the ring: what  *)
(* is proved of it holds of the bucket behind the gate.                    *)
THEOREM GateImplementsRing == GateSpec => Spec
<1>1. GateInit => Init
  BY DEF GateInit
<1>2. [GateNext]_gateVars => [Next]_vars
  BY DEF GateNext, gateVars, vars, Look, Load, PassedOver, Reserve, Next
<1>. QED
  BY <1>1, <1>2, PTL DEF GateSpec, Spec

(* However many requests pass the gate on the same reading, and whenever   *)
(* they are admitted, a minute's reservations exceed the limit by at most  *)
(* the other requests in progress; twice that for a minute whose first Add *)
(* was overtaken on its way to the reset.                                  *)
THEOREM OvershootCeiling == GateSpec => []OvershootBounded
<1>1. GateInv => OvershootBounded
  <2>. SUFFICES ASSUME GateInv, NEW m \in Trailing(Slots)
                PROVE  /\ m \notin overtaken => added[m] <= Ceiling
                       /\ m \in overtaken => added[m] <= Ceiling - 1 + Ceiling
    BY Within, LimitAssumption DEF OvershootBounded, Ceiling
  <2>. USE DEF GateInv
  <2>0. m \in Minutes /\ m \in Nat /\ now \in Nat /\ m > now - Slots
    BY Clock DEF Trailing, IInv, Typed
  <2>1. /\ added[m] \in Nat /\ bucket[Slot(m)] \in Nat /\ Ceiling \in Nat
        /\ Cardinality(Claims(m)) \in Nat
    BY <2>0, SlotInRing, ClaimsWithin, Within DEF IInv, Typed
  <2>2. CASE m > now
    <3>1. added[m] = 0 /\ m \notin overtaken
      BY <2>0, <2>2 DEF IInv, Past, InWindow
    <3>. QED
      BY <2>1, <3>1
  <2>3. CASE m <= now
    <3>1. CapAt(m)
      BY <2>0, <2>3 DEF Capped, InWindow
    <3>2. CASE m \notin overtaken
      BY <2>1, <3>1, <3>2 DEF CapAt
    <3>3. CASE m \in overtaken /\ Resetting(m) # {}
      <4>1. PICK p \in Resetting(m) : TRUE
        BY <3>3
      <4>2. p \in Claims(m)
        BY <4>1 DEF Resetting, Claims
      <4>3. Cardinality(Claims(m)) # 0
        BY <4>2, ClaimsWithin, Within, FS_EmptySet
      <4>. QED
        BY <2>1, <3>1, <3>3, <4>3 DEF CapAt
    <3>4. CASE m \in overtaken /\ Resetting(m) = {}
      BY <2>1, <3>1, <3>4 DEF CapAt
    <3>. QED
      BY <3>2, <3>3, <3>4
  <2>. QED
    BY <2>0, <2>2, <2>3
<1>. QED
  BY <1>1, GateInitInv, EveryGateStep, PTL DEF GateSpec
=============================================================================
