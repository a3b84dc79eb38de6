---------------------------- MODULE StatsProofs ----------------------------
(***************************************************************************)
(* The recorder for any number of goroutines and of upstreams, any size of *)
(* the ring, and any number of calls.                                      *)
(***************************************************************************)
EXTENDS Stats, DataTheorems

----------------------------------------------------------------------------
(* Sorting: every sequence of numbers can be put in order, and what has    *)
(* been put in order has the same members.                                 *)

Orders(p, s) ==
    /\ p \in Bijection(DOMAIN s, DOMAIN s)
    /\ \A i, j \in DOMAIN s : i < j => s[p[i]] <= s[p[j]]

(* A number is inserted into what is in order.                             *)
LEMMA Insertion ==
    ASSUME NEW n \in Nat, NEW s \in [1..n + 1 -> Int], NEW t \in [1..n -> Int],
           \A i \in 1..n : t[i] = s[i],
           NEW q, Orders(q, t)
    PROVE  \E p : Orders(p, s)
<1>. PICK x \in Nat : x = n + 1
  OBVIOUS
<1>0. q \in [1..n -> 1..n] /\ x \in Nat /\ DOMAIN s = 1..x /\ DOMAIN t = 1..n
  BY DEF Orders, Bijection, Injection
<1>1. \A i, j \in 1..n : q[i] = q[j] => i = j
  BY <1>0 DEF Orders, Bijection, Injection, IsInjective
<1>2. \A j \in 1..n : \E i \in 1..n : q[i] = j
  BY <1>0 DEF Orders, Bijection, Surjection
<1>3. \A i, j \in 1..n : i < j => t[q[i]] <= t[q[j]]
  BY <1>0 DEF Orders
<1>4. PICK k \in 1..x : /\ \A i \in 1..n : i < k => t[q[i]] <= s[x]
                        /\ \A i \in 1..n : i >= k => s[x] <= t[q[i]]
  <2>. SUFFICES ASSUME \A k \in 1..x :
                           \/ \E i \in 1..n : i < k /\ ~ t[q[i]] <= s[x]
                           \/ \E i \in 1..n : i >= k /\ ~ s[x] <= t[q[i]]
                PROVE  FALSE
    OBVIOUS
  <2>. DEFINE Good == {m \in Nat : \A i \in 1..n : i <= m => t[q[i]] <= s[x]}
  <2>1. \A i \in 1..n : t[q[i]] \in Int
    BY <1>0
  <2>2. s[x] \in Int
    BY <1>0
  <2>3. 0 \in Good
    OBVIOUS
  <2>4. ASSUME NEW m \in Nat, m \in Good PROVE m + 1 \in Good
    <3>1. CASE m + 1 > n
      BY <2>4, <3>1
    <3>2. CASE m + 1 <= n
      <4>1. m + 1 \in 1..x /\ m + 1 \in 1..n
        BY <3>2
      <4>2. \A i \in 1..n : i < m + 1 => t[q[i]] <= s[x]
        BY <2>4
      <4>3. PICK i \in 1..n : i >= m + 1 /\ ~ s[x] <= t[q[i]]
        BY <4>1, <4>2
      <4>4. t[q[m + 1]] <= t[q[i]]
        <5>1. CASE i = m + 1
          BY <2>1, <4>1, <5>1
        <5>2. CASE m + 1 < i
          BY <1>3, <4>1, <5>2
        <5>. QED  BY <4>3, <5>1, <5>2
      <4>5. t[q[m + 1]] <= s[x]
        BY <4>1, <4>3, <4>4, <2>1, <2>2
      <4>6. ASSUME NEW l \in 1..n, l <= m + 1 PROVE t[q[l]] <= s[x]
        <5>1. l < m + 1 \/ l = m + 1
          BY <4>6
        <5>. QED  BY <4>2, <4>5, <5>1
      <4>. QED  BY <4>6
    <3>. QED  BY <3>1, <3>2
  <2>5. n \in Good
    <3>. HIDE DEF Good
    <3>. QED  BY <2>3, <2>4, NatSetInduction
  <2>6. \A i \in 1..n : t[q[i]] <= s[x]
    BY <2>5
  <2>. QED  BY <2>6
<1>. DEFINE p == [i \in 1..x |-> IF i < k THEN q[i] ELSE IF i = k THEN x ELSE q[i - 1]]
<1>5. p \in [1..x -> 1..x]
  BY <1>0
<1>. \A i \in 1..x : i < k => i \in 1..n /\ p[i] = q[i] /\ p[i] \in 1..n
  BY <1>0
<1>. p[k] = x
  BY <1>0
<1>. \A i \in 1..x : i > k => i - 1 \in 1..n /\ p[i] = q[i - 1] /\ p[i] \in 1..n
  <2>. TAKE i \in 1..x
  <2>. HAVE i > k
  <2>1. i - 1 \in 1..n /\ ~ (i < k) /\ i # k
    BY <1>0
  <2>. QED  BY <1>0, <2>1
<1>. \A i \in 1..n : i >= k => i + 1 \in 1..x /\ i + 1 > k /\ p[i + 1] = q[i]
  <2>. TAKE i \in 1..n
  <2>. HAVE i >= k
  <2>1. i + 1 \in 1..x /\ ~ (i + 1 < k) /\ i + 1 # k /\ (i + 1) - 1 = i /\ i + 1 > k
    BY <1>0
  <2>. QED  BY <1>0, <2>1
<1>. HIDE DEF p
<1>6. \A i, j \in 1..x : p[i] = p[j] => i = j
  <2>. TAKE i, j \in 1..x
  <2>. HAVE p[i] = p[j]
  <2>1. CASE i = k \/ j = k
    BY <2>1
  <2>2. CASE i < k /\ j < k
    BY <2>2, <1>1
  <2>3. CASE i > k /\ j > k
    BY <2>3, <1>1
  <2>4. CASE i < k /\ j > k
    <3>1. i \in 1..n /\ j - 1 \in 1..n /\ q[i] = q[j - 1]
      BY <2>4
    <3>. QED  BY <2>4, <3>1, <1>1
  <2>5. CASE i > k /\ j < k
    <3>1. j \in 1..n /\ i - 1 \in 1..n /\ q[j] = q[i - 1]
      BY <2>5
    <3>. QED  BY <2>5, <3>1, <1>1
  <2>. QED  BY <2>1, <2>2, <2>3, <2>4, <2>5
<1>7. \A j \in 1..x : \E i \in 1..x : p[i] = j
  <2>. SUFFICES ASSUME NEW j \in 1..x PROVE \E l \in 1..x : p[l] = j
    OBVIOUS
  <2>1. CASE j = x
    BY <2>1
  <2>2. CASE j # x
    <3>1. PICK i \in 1..n : q[i] = j
      <4>1. j \in 1..n
        BY <2>2
      <4>. QED  BY <4>1, <1>2
    <3>2. CASE i < k
      <4>1. i \in 1..x /\ p[i] = j
        BY <3>1, <3>2
      <4>. QED  BY <4>1
    <3>3. CASE i >= k
      <4>1. i + 1 \in 1..x /\ p[i + 1] = j
        BY <3>1, <3>3
      <4>. QED  BY <4>1
    <3>. QED  BY <3>2, <3>3
  <2>. QED  BY <2>1, <2>2
<1>8. \A i, j \in 1..x : i < j => s[p[i]] <= s[p[j]]
  <2>. SUFFICES ASSUME NEW i \in 1..x, NEW j \in 1..x, i < j
                PROVE  s[p[i]] <= s[p[j]]
    OBVIOUS
  <2>1. \A l \in 1..n : q[l] \in 1..n /\ s[q[l]] = t[q[l]]
    BY <1>0
  <2>2. i < k => s[p[i]] = t[q[i]] /\ i \in 1..n
    BY <2>1
  <2>3. j < k => s[p[j]] = t[q[j]] /\ j \in 1..n
    BY <2>1
  <2>4. i > k => s[p[i]] = t[q[i - 1]] /\ i - 1 \in 1..n
    BY <2>1
  <2>5. j > k => s[p[j]] = t[q[j - 1]] /\ j - 1 \in 1..n
    BY <2>1
  <2>6. CASE j < k
    BY <2>2, <2>3, <2>6, <1>3
  <2>7. CASE j = k
    BY <2>2, <2>7, <1>4
  <2>8. CASE j > k /\ i < k
    <3>1. i \in 1..n /\ j - 1 \in 1..n /\ i < j - 1
      BY <2>8, <2>2, <2>5
    <3>. QED  BY <2>2, <2>5, <2>8, <3>1, <1>3
  <2>9. CASE j > k /\ i = k
    <3>1. j - 1 \in 1..n /\ j - 1 >= k
      BY <2>5, <2>9
    <3>. QED  BY <2>5, <2>9, <3>1, <1>4
  <2>10. CASE j > k /\ i > k
    <3>1. i - 1 \in 1..n /\ j - 1 \in 1..n /\ i - 1 < j - 1
      BY <2>4, <2>5, <2>10
    <3>. QED  BY <2>4, <2>5, <2>10, <3>1, <1>3
  <2>. QED  BY <2>6, <2>7, <2>8, <2>9, <2>10
<1>9. Orders(p, s)
  <2>1. p \in Bijection(1..x, 1..x)
    BY <1>5, <1>6, <1>7 DEF Bijection, Injection, Surjection, IsInjective
  <2>. QED  BY <2>1, <1>0, <1>8 DEF Orders
<1>. QED  BY <1>9
LEMMA OrderExists ==
    \A n \in Nat : \A s \in [1..n -> Int] : \E p : Orders(p, s)
<1>. DEFINE Good == {n \in Nat : \A s \in [1..n -> Int] : \E p : Orders(p, s)}
<1>1. 0 \in Good
  <2>. SUFFICES ASSUME NEW s \in [1..0 -> Int] PROVE Orders(s, s)
    OBVIOUS
  <2>. QED
    BY DEF Orders, Bijection, Injection, Surjection, IsInjective
<1>2. ASSUME NEW n \in Nat, n \in Good PROVE n + 1 \in Good
  <2>. SUFFICES ASSUME NEW s \in [1..n + 1 -> Int] PROVE \E p : Orders(p, s)
    OBVIOUS
  <2>. DEFINE t == [i \in 1..n |-> s[i]]
  <2>1. t \in [1..n -> Int] /\ \A i \in 1..n : t[i] = s[i]
    <3>1. \A i \in 1..n : s[i] \in Int
      OBVIOUS
    <3>. QED  BY <3>1
  <2>. HIDE DEF t
  <2>2. PICK q : Orders(q, t)
    BY <1>2, <2>1
  <2>. QED  BY <2>1, <2>2, Insertion
<1>3. Nat \subseteq Good
  <2>. HIDE DEF Good
  <2>. QED  BY <1>1, <1>2, NatSetInduction
<1>. QED  BY <1>3

LEMMA SortedOrder ==
    ASSUME NEW s \in Seq(Nat)
    PROVE  \E o : Orders(o, s) /\ Sorted(s) = [i \in 1..Len(s) |-> s[o[i]]]
<1>. DEFINE order == CHOOSE p \in Bijection(DOMAIN s, DOMAIN s) :
                         \A i, j \in DOMAIN s : i < j => s[p[i]] <= s[p[j]]
<1>1. s \in [1..Len(s) -> Int] /\ DOMAIN s = 1..Len(s) /\ Len(s) \in Nat
  OBVIOUS
<1>2. \E p \in Bijection(DOMAIN s, DOMAIN s) :
          \A i, j \in DOMAIN s : i < j => s[p[i]] <= s[p[j]]
  BY <1>1, OrderExists DEF Orders
<1>3. Orders(order, s)
  BY <1>2, Zenon DEF Orders
<1>4. Sorted(s) = [i \in 1..Len(s) |-> s[order[i]]]
  BY <1>1 DEF Sorted
<1>. QED  BY <1>3, <1>4

(* What corresponds one to one is as many.                                 *)
Matches(f, S, T, A, B) ==
    /\ f \in Bijection(S, T) /\ A \in SUBSET S /\ B \in SUBSET T
    /\ \A x \in S : x \in A <=> f[x] \in B

LEMMA AsMany ==
    ASSUME NEW S, NEW T, NEW f, NEW A, NEW B, IsFiniteSet(S), Matches(f, S, T, A, B)
    PROVE  Cardinality(A) = Cardinality(B)
<1>. DEFINE g == [x \in A |-> f[x]]
<1>1. IsFiniteSet(A)
  BY FS_Subset DEF Matches
<1>2. f \in [S -> T] /\ (\A x, y \in S : f[x] = f[y] => x = y)
        /\ (\A y \in T : \E x \in S : f[x] = y)
  BY DEF Matches, Bijection, Injection, Surjection, IsInjective
<1>3. g \in [A -> B] /\ \A x \in A : g[x] = f[x]
  BY <1>2 DEF Matches
<1>. HIDE DEF g
<1>4. \A y \in B : \E x \in A : g[x] = y
  BY <1>2, <1>3 DEF Matches
<1>5. \A x, y \in A : g[x] = g[y] => x = y
  BY <1>2, <1>3 DEF Matches
<1>6. g \in Bijection(A, B)
  BY <1>3, <1>4, <1>5 DEF Bijection, Injection, Surjection, IsInjective
<1>. QED  BY <1>1, <1>6, FS_Bijection DEF ExistsBijection

(* The place of a number among those of a sequence.                        *)
RankedIn(s, p, v) ==
    LET k == (p * (Len(s) - 1)) \div 100 IN
    /\ \E i \in 1..Len(s) : s[i] = v
    /\ Cardinality({i \in 1..Len(s) : s[i] < v}) <= k
    /\ Cardinality({i \in 1..Len(s) : s[i] <= v}) > k

LEMMA Rank ==
    ASSUME NEW n \in Nat \ {0}, NEW p \in {50, 95}
    PROVE  (p * (n - 1)) \div 100 \in 0..n - 1
<1>1. PICK m \in Nat : m = n - 1
  OBVIOUS
<1>2. (50 * m) \div 100 \in 0..m /\ (95 * m) \div 100 \in 0..m
  OBVIOUS
<1>. QED  BY <1>1, <1>2

(* What percentile picks from the sorted sequence has the percentile's     *)
(* place in the sequence.                                                  *)
LEMMA PercentileRank ==
    ASSUME NEW s \in Seq(Nat), NEW p \in {50, 95}
    PROVE  /\ percentile(Sorted(s), p) \in Nat
           /\ Len(s) = 0 => percentile(Sorted(s), p) = 0
           /\ Len(s) # 0 => RankedIn(s, p, percentile(Sorted(s), p))
<1>1. PICK o : Orders(o, s) /\ Sorted(s) = [i \in 1..Len(s) |-> s[o[i]]]
  BY SortedOrder
<1>2. PICK n \in Nat : n = Len(s)
  OBVIOUS
<1>3. /\ DOMAIN s = 1..n /\ (\A i \in 1..n : s[i] \in Nat)
      /\ o \in Bijection(1..n, 1..n) /\ (\A i \in 1..n : o[i] \in 1..n)
      /\ \A i, j \in 1..n : i < j => s[o[i]] <= s[o[j]]
  <2>1. DOMAIN s = 1..n /\ \A i \in 1..n : s[i] \in Nat
    BY <1>2
  <2>2. o \in Bijection(1..n, 1..n) /\ \A i, j \in 1..n : i < j => s[o[i]] <= s[o[j]]
    <3>1. /\ o \in Bijection(DOMAIN s, DOMAIN s)
          /\ \A i, j \in DOMAIN s : i < j => s[o[i]] <= s[o[j]]
      BY <1>1, Zenon DEF Orders
    <3>2. DOMAIN s = 1..n
      BY <2>1
    <3>. QED  BY <3>1, <3>2
  <2>3. \A i \in 1..n : o[i] \in 1..n
    BY <2>2 DEF Bijection, Injection
  <2>. QED  BY <2>1, <2>2, <2>3
<1>4. PICK t : t = [i \in 1..n |-> s[o[i]]] /\ t = Sorted(s)
  BY <1>1, <1>2
<1>5. t \in Seq(Nat) /\ Len(t) = n /\ \A i \in 1..n : t[i] = s[o[i]]
  BY <1>3, <1>4
<1>6. CASE n = 0
  BY <1>2, <1>4, <1>5, <1>6 DEF percentile
<1>7. CASE n # 0
  <2>1. PICK k \in 0..n - 1 : k = (p * (n - 1)) \div 100
    BY <1>7, Rank
  <2>2. k + 1 \in 1..n /\ t # <<>>
    BY <1>5, <1>7
  <2>3. PICK v : v = percentile(t, p)
    OBVIOUS
  <2>4. v = s[o[k + 1]] /\ v \in Nat
    <3>1. v = t[k + 1]
      BY <1>5, <2>1, <2>2, <2>3 DEF percentile
    <3>. QED  BY <1>3, <1>5, <2>2, <3>1
  <2>. DEFINE A == {j \in 1..n : s[o[j]] < v}
              B == {i \in 1..n : s[i] < v}
              C == {j \in 1..n : s[o[j]] <= v}
              D == {i \in 1..n : s[i] <= v}
  <2>5. IsFiniteSet(1..n) /\ IsFiniteSet(1..k) /\ Cardinality(1..k) = k
          /\ IsFiniteSet(1..k + 1) /\ Cardinality(1..k + 1) = k + 1
    BY FS_Interval
  <2>6. Cardinality(A) = Cardinality(B) /\ Cardinality(C) = Cardinality(D)
    <3>1. A \in SUBSET (1..n) /\ B \in SUBSET (1..n) /\ C \in SUBSET (1..n)
            /\ D \in SUBSET (1..n)
      OBVIOUS
    <3>2. (\A x \in 1..n : x \in A <=> o[x] \in B) /\ (\A x \in 1..n : x \in C <=> o[x] \in D)
      BY <1>3
    <3>. HIDE DEF A, B, C, D
    <3>3. Matches(o, 1..n, 1..n, A, B) /\ Matches(o, 1..n, 1..n, C, D)
      BY <1>3, <3>1, <3>2, Zenon DEF Matches
    <3>4. Cardinality(A) = Cardinality(B)
      BY <2>5, <3>3, AsMany
    <3>5. Cardinality(C) = Cardinality(D)
      BY <2>5, <3>3, AsMany
    <3>. QED  BY <3>4, <3>5
  <2>7. A \subseteq 1..k
    <3>. SUFFICES ASSUME NEW j \in 1..n, s[o[j]] < v, ~ (j <= k) PROVE FALSE
      OBVIOUS
    <3>1. s[o[j]] \in Nat
      BY <1>3
    <3>2. j # k + 1
      BY <2>4, <3>1
    <3>3. k + 1 < j
      BY <3>2
    <3>4. s[o[k + 1]] <= s[o[j]]
      BY <1>3, <2>2, <3>3
    <3>. QED  BY <2>4, <3>1, <3>4
  <2>8. 1..k + 1 \subseteq C
    <3>. SUFFICES ASSUME NEW j \in 1..k + 1 PROVE j \in 1..n /\ s[o[j]] <= v
      OBVIOUS
    <3>1. j \in 1..n
      OBVIOUS
    <3>2. CASE j = k + 1
      BY <2>4, <3>1, <3>2
    <3>3. CASE j # k + 1
      <4>1. j < k + 1
        BY <3>3
      <4>. QED  BY <1>3, <2>2, <2>4, <3>1, <4>1
    <3>. QED  BY <3>1, <3>2, <3>3
  <2>9. Cardinality(A) <= k
    <3>. HIDE DEF A
    <3>1. IsFiniteSet(1..k) /\ A \in SUBSET (1..k)
      BY <2>5, <2>7
    <3>2. Cardinality(A) <= Cardinality(1..k)
      BY <3>1, FS_Subset
    <3>. QED  BY <2>5, <3>2, Zenon
  <2>10. Cardinality(C) >= k + 1 /\ Cardinality(C) \in Nat
    <3>1. C \in SUBSET (1..n)
      OBVIOUS
    <3>. HIDE DEF C
    <3>2. IsFiniteSet(C)
      BY <2>5, <3>1, FS_Subset
    <3>3. k + 1 <= Cardinality(C)
      BY <2>5, <2>8, <3>2, FS_Subset
    <3>4. Cardinality(C) \in Nat
      BY <3>2, FS_CardinalityType
    <3>. QED  BY <3>3, <3>4
  <2>11. Cardinality(B) <= k /\ Cardinality(D) > k
    <3>. HIDE DEF A, B, C, D
    <3>. QED  BY <2>6, <2>9, <2>10
  <2>12. \E i \in 1..n : s[i] = v
    BY <1>3, <2>2, <2>4
  <2>13. RankedIn(s, p, v)
    BY <1>2, <2>1, <2>11, <2>12 DEF RankedIn
  <2>. QED  BY <1>2, <1>4, <1>7, <2>3, <2>4, <2>13
<1>. QED  BY <1>6, <1>7

----------------------------------------------------------------------------
(* The inductive invariant.                                                *)

Metrics == [success : Nat, failure : Nat, ttftSamples : Seq(Latencies),
            ttftNext : 0..ttftSampleCap - 1]

Tellings == [success : Nat, failure : Nat, samples : Seq(Latencies)]

Using == {"success", "failure", "ttft", "row", "failures", "percentiles", "done"}

Calling == [pc : {"rest", "get", "create"} \cup Using,
            op : {"none", "success", "failure", "ttft", "row"},
            id : Upstreams \cup {CHOOSE u \in Upstreams : TRUE},
            m : Nat,
            row : [success : Nat, failure : Nat, p50 : Nat, p95 : Nat],
            since : Tellings]

Typed ==
    /\ heap \in Seq(Metrics)
    /\ metrics \in [Upstreams -> 0..Len(heap)]
    /\ caller \in [Callers -> Calling]
    /\ calls \in 0..MaxCalls
    /\ told \in [Upstreams -> Tellings]

(* Whoever uses an object uses the one registered for its id.              *)
Settled ==
    \A c \in Callers :
        LET q == caller[c] IN
        /\ q.pc # "rest" => q.id \in Upstreams /\ q.op # "none"
        /\ q.pc \in Using => q.m # 0 /\ q.m = metrics[q.id]
        /\ q.pc \notin Using => q.m = 0

(* Every object is registered, and for one id only.                        *)
Apart ==
    /\ \A u, v \in Upstreams : metrics[u] # 0 /\ metrics[u] = metrics[v] => u = v
    /\ \A i \in 1..Len(heap) : \E u \in Upstreams : metrics[u] = i

(* A caller counts at most once for each call.                             *)
Active == {c \in Callers : caller[c].pc # "rest"}

Paid ==
    /\ Cardinality(Active) <= calls
    /\ \A i \in 1..Len(heap) :
          heap[i].success + heap[i].failure + Cardinality(Active) <= calls

(* The ring of an id, and what it has been told.                           *)
Ring(m, t) ==
    LET k == Len(t.samples) IN
    /\ Len(m.ttftSamples) = IF k < ttftSampleCap THEN k ELSE ttftSampleCap
    /\ m.ttftNext = IF k < ttftSampleCap THEN 0 ELSE k % ttftSampleCap
    /\ \A j \in 1..k : j + ttftSampleCap > k =>
          m.ttftSamples[((j - 1) % ttftSampleCap) + 1] = t.samples[j]

Faithful(m, t) == m.success = t.success /\ m.failure = t.failure /\ Ring(m, t)

Recorded == \A u \in Upstreams : Faithful(Registered(u), told[u])

(* The percentiles of a row are those of one moment of the snapshot.       *)
RowRanked(row, from, all) ==
    \E n \in Len(from) .. Len(all) :
        /\ Ranked(all, n, 50, row.p50)
        /\ Ranked(all, n, 95, row.p95)

(* The parts of a row, as far as they have been read.                      *)
Since(q, t) ==
    /\ q.since.success <= t.success /\ q.since.failure <= t.failure
    /\ Len(q.since.samples) <= Len(t.samples)
    /\ q.pc \in {"failures", "percentiles", "done"} =>
          q.row.success \in q.since.success .. t.success
    /\ q.pc \in {"percentiles", "done"} =>
          q.row.failure \in q.since.failure .. t.failure
    /\ q.pc = "done" => RowRanked(q.row, q.since.samples, t.samples)

Rows == \A c \in Callers : caller[c].pc # "rest" => Since(caller[c], told[caller[c].id])

IInv == Typed /\ Settled /\ Apart /\ Paid /\ Recorded /\ Rows

LEMMA CallingFields ==
    \A q \in Calling :
        /\ q.pc \in {"rest", "get", "create"} \cup Using
        /\ q.op \in {"none", "success", "failure", "ttft", "row"}
        /\ q.m \in Nat
        /\ q.row \in [success : Nat, failure : Nat, p50 : Nat, p95 : Nat]
        /\ q.since \in Tellings
  BY DEF Calling

LEMMA HeapFields ==
    \A h \in Seq(Metrics) : \A i \in 1..Len(h) :
        /\ h[i] \in Metrics /\ h[i].success \in Nat /\ h[i].failure \in Nat
        /\ h[i].ttftSamples \in Seq(Latencies) /\ h[i].ttftNext \in 0..ttftSampleCap - 1
<1>. TAKE h \in Seq(Metrics)
<1>. TAKE i \in 1..Len(h)
<1>1. h[i] \in Metrics
  OBVIOUS
<1>. QED  BY <1>1 DEF Metrics

LEMMA TellingFields ==
    \A t \in Tellings : /\ t.success \in Nat /\ t.failure \in Nat
                        /\ t.samples \in Seq(Latencies) /\ Len(t.samples) \in Nat
  BY DEF Tellings

LEMMA RestingCalling ==
    Resting \in Calling /\ Resting.pc = "rest" /\ Resting.m = 0
  BY DEF Resting, Calling, NoRow, Nothing, Tellings

LEMMA ActiveFinite == IsFiniteSet(Active) /\ Cardinality(Active) \in Nat
<1>1. Active \in SUBSET Callers
  BY DEF Active
<1>. QED  BY <1>1, FS_Subset, FS_CardinalityType, StatsAssumption

LEMMA Replaced ==
    ASSUME NEW S, NEW s \in Seq(S), NEW i \in 1..Len(s), NEW x \in S
    PROVE  /\ [s EXCEPT ![i] = x] \in Seq(S) /\ Len([s EXCEPT ![i] = x]) = Len(s)
           /\ [s EXCEPT ![i] = x][i] = x
           /\ \A j \in 1..Len(s) : j # i => [s EXCEPT ![i] = x][j] = s[j]
  OBVIOUS

LEMMA Listed ==
    ASSUME NEW S, NEW n \in Nat, NEW s \in [1..n -> S]
    PROVE  s \in Seq(S)
  OBVIOUS

LEMMA Appended ==
    ASSUME NEW S, NEW s \in Seq(S), NEW x \in S
    PROVE  /\ Append(s, x) \in Seq(S) /\ Len(Append(s, x)) = Len(s) + 1
           /\ Append(s, x)[Len(s) + 1] = x
           /\ \A j \in 1..Len(s) : Append(s, x)[j] = s[j]
  OBVIOUS

(* A sample takes its place in the ring.                                   *)
LEMMA RingGoesRound ==
    ASSUME NEW m \in Metrics, NEW t \in Tellings, Ring(m, t), NEW ms \in Latencies,
           NEW t2 \in Tellings, t2.samples = Append(t.samples, ms)
    PROVE  /\ WithSample(m, ms) \in Metrics
           /\ WithSample(m, ms).success = m.success /\ WithSample(m, ms).failure = m.failure
           /\ Ring(WithSample(m, ms), t2)
<1>. DEFINE cap == ttftSampleCap
            k == Len(t.samples)
            w == WithSample(m, ms)
<1>. cap \in Nat /\ cap # 0 /\ cap >= 1 /\ Latencies \subseteq Nat
  BY StatsAssumption
<1>1. /\ t.samples \in Seq(Latencies) /\ t2.samples \in Seq(Latencies) /\ k \in Nat
      /\ Len(t2.samples) = k + 1 /\ t2.samples[k + 1] = ms
      /\ \A j \in 1..k : t2.samples[j] = t.samples[j]
      /\ m.ttftSamples \in Seq(Latencies) /\ m.ttftNext \in 0..cap - 1
  BY DEF Metrics, Tellings
<1>3. CASE k < cap
  <2>1. Len(m.ttftSamples) = k /\ m.ttftNext = 0
    BY <1>3 DEF Ring
  <2>2. PICK ring \in Seq(Latencies) : ring = Append(m.ttftSamples, ms)
    <3>1. Append(m.ttftSamples, ms) \in Seq(Latencies)
      BY <1>1
    <3>. QED  BY <3>1, Zenon
  <2>3. w = [m EXCEPT !.ttftSamples = ring]
    BY <1>3, <2>1, <2>2 DEF WithSample
  <2>4. /\ w \in Metrics /\ w.success = m.success /\ w.failure = m.failure
        /\ w.ttftNext = 0 /\ w.ttftSamples = ring
    BY <2>1, <2>3 DEF Metrics
  <2>11. /\ Len(w.ttftSamples) = k + 1 /\ w.ttftSamples[k + 1] = ms
         /\ \A i \in 1..k : w.ttftSamples[i] = m.ttftSamples[i]
    BY <1>1, <2>1, <2>2, <2>4, Appended
  <2>. HIDE DEF w, k
  <2>5. \A j \in 1..k + 1 : ((j - 1) % cap) + 1 = j
    <3>. TAKE j \in 1..k + 1
    <3>1. j - 1 \in 0..cap - 1 /\ cap \in Nat \ {0}
      BY <1>1, <1>3
    <3>2. (j - 1) % cap = j - 1
      BY <3>1, SmallRemainder
    <3>. QED  BY <1>1, <3>2
  <2>6. \A j \in 1..k : m.ttftSamples[j] = t.samples[j]
    <3>. TAKE j \in 1..k
    <3>1. m.ttftSamples[((j - 1) % cap) + 1] = t.samples[j]
      <4>1. j + cap > k
        BY <1>1, <1>3
      <4>. QED  BY <4>1 DEF Ring, k
    <3>2. j \in 1..k + 1
      BY <1>1
    <3>. QED  BY <2>5, <3>1, <3>2
  <2>7. \A j \in 1..k + 1 : w.ttftSamples[((j - 1) % cap) + 1] = t2.samples[j]
    <3>. TAKE j \in 1..k + 1
    <3>1. w.ttftSamples[j] = t2.samples[j]
      BY <1>1, <2>6, <2>11
    <3>. QED  BY <2>5, <3>1
  <2>8. w.ttftNext = IF k + 1 < cap THEN 0 ELSE (k + 1) % cap
    <3>1. CASE k + 1 < cap
      BY <2>4, <3>1
    <3>2. CASE k + 1 = cap
      <4>1. cap % cap = 0
        BY SMT
      <4>. QED  BY <2>4, <3>2, <4>1
    <3>. QED  BY <1>1, <1>3, <3>1, <3>2
  <2>10. Ring(w, t2)
    <3>1. Len(w.ttftSamples) = IF k + 1 < cap THEN k + 1 ELSE cap
      <4>1. k \in Nat /\ k < cap /\ Len(w.ttftSamples) = k + 1
        BY <1>1, <1>3, <2>11
      <4>. QED  BY <4>1
    <3>2. \A j \in 1..k + 1 : j + cap > k + 1 =>
              w.ttftSamples[((j - 1) % cap) + 1] = t2.samples[j]
      BY <2>7
    <3>. QED  BY <1>1, <2>8, <2>11, <3>1, <3>2, Zenon DEF Ring
  <2>. QED  BY <2>4, <2>10 DEF w
<1>4. CASE k >= cap
  <2>1. Len(m.ttftSamples) = cap /\ m.ttftNext = k % cap
    <3>1. ~ (k < cap)
      BY <1>1, <1>4
    <3>. QED  BY <3>1, Zenon DEF Ring
  <2>2. PICK x \in 0..cap - 1 : x = k % cap
    BY <1>1, <2>1
  <2>3. w = [m EXCEPT !.ttftSamples[x + 1] = ms, !.ttftNext = (x + 1) % cap]
    BY <2>1, <2>2 DEF WithSample
  <2>4. (x + 1) % cap = (k + 1) % cap /\ (x + 1) % cap \in 0..cap - 1
    <3>1. k \in Int /\ x + 1 \in Int /\ cap \in Nat \ {0}
      BY <1>1
    <3>2. (x + 1) % cap \in 0..cap - 1
      BY <3>1, RemainderRange
    <3>3. ((k % cap) + 1) % cap = (k + 1) % cap
      BY <3>1, RemainderNext
    <3>. QED  BY <2>2, <3>2, <3>3
  <2>5. PICK ring \in Seq(Latencies) : ring = [m.ttftSamples EXCEPT ![x + 1] = ms]
    <3>1. x + 1 \in 1..Len(m.ttftSamples)
      BY <2>1
    <3>2. [m.ttftSamples EXCEPT ![x + 1] = ms] \in Seq(Latencies)
      BY <1>1, <3>1, Replaced
    <3>. QED  BY <3>2, Zenon
  <2>6. /\ Len(ring) = cap /\ ring[x + 1] = ms
        /\ \A i \in 1..cap : i # x + 1 => ring[i] = m.ttftSamples[i]
    <3>1. x + 1 \in 1..Len(m.ttftSamples)
      BY <2>1
    <3>. QED  BY <1>1, <2>1, <2>5, <3>1, Replaced
  <2>10. w = [m EXCEPT !.ttftSamples = ring, !.ttftNext = (x + 1) % cap]
    BY <2>3, <2>5
  <2>11. /\ w \in Metrics /\ w.success = m.success /\ w.failure = m.failure
         /\ w.ttftNext = (k + 1) % cap /\ w.ttftSamples = ring
    BY <2>4, <2>10 DEF Metrics
  <2>. HIDE DEF w, k
  <2>7. \A j \in 1..k + 1 : j + cap > k + 1 =>
            w.ttftSamples[((j - 1) % cap) + 1] = t2.samples[j]
    <3>. TAKE j \in 1..k + 1
    <3>. HAVE j + cap > k + 1
    <3>1. CASE j = k + 1
      BY <1>1, <2>2, <2>6, <2>11, <3>1
    <3>2. CASE j # k + 1
      <4>1. j \in 1..k /\ j - 1 \in Int /\ j - 1 < k /\ k < (j - 1) + cap
        BY <1>1, <3>2
      <4>2. PICK a \in Int : a = j - 1 /\ a < k /\ k < a + cap
        BY <4>1
      <4>3. k \in Int /\ cap \in Nat \ {0}
        BY <1>1
      <4>4. a % cap # k % cap
        BY <4>2, <4>3, Remainders
      <4>5. a % cap \in 0..cap - 1
        BY <4>2, <4>3, RemainderRange
      <4>6. m.ttftSamples[(a % cap) + 1] = t.samples[j]
        <5>1. j + cap > k
          BY <1>1, <4>1
        <5>. QED  BY <4>1, <4>2, <5>1 DEF Ring, k
      <4>7. (a % cap) + 1 \in 1..cap /\ (a % cap) + 1 # x + 1
        BY <2>2, <4>4, <4>5
      <4>8. w.ttftSamples[(a % cap) + 1] = t2.samples[j]
        BY <1>1, <2>6, <2>11, <4>1, <4>6, <4>7
      <4>. QED  BY <4>2, <4>8
    <3>. QED  BY <3>1, <3>2
  <2>9. Ring(w, t2)
    <3>1. k + 1 >= cap /\ ~ (k + 1 < cap) /\ Len(w.ttftSamples) = cap
      <4>1. k \in Nat /\ k >= cap /\ Len(w.ttftSamples) = cap
        BY <1>1, <1>4, <2>6, <2>11, Zenon
      <4>. QED  BY <4>1
    <3>. QED  BY <1>1, <2>7, <2>11, <3>1, Zenon DEF Ring
  <2>. QED  BY <2>9, <2>11 DEF w
<1>. QED  BY <1>1, <1>3, <1>4

(* The latest samples have places in the ring, one for one.                *)
Places(n) == [j \in Latest(n) |-> ((j - 1) % ttftSampleCap) + 1]

LEMMA LatestPlaces ==
    ASSUME NEW n \in Nat, NEW size \in Nat,
           size = IF n < ttftSampleCap THEN n ELSE ttftSampleCap
    PROVE  /\ IsFiniteSet(Latest(n)) /\ Cardinality(Latest(n)) = size
           /\ Places(n) \in Bijection(Latest(n), 1..size)
<1>. DEFINE place == Places(n)
<1>. PICK cap \in Nat \ {0} : cap = ttftSampleCap
  BY StatsAssumption
<1>1. size = IF n < cap THEN n ELSE cap
  OBVIOUS
<1>2. PICK low \in Int : low = n - size + 1
  <2>1. n - size + 1 \in Int
    OBVIOUS
  <2>. QED  BY <2>1, Zenon
<1>3. IsFiniteSet(Latest(n)) /\ Cardinality(Latest(n)) = size
  <2>1. \A j \in Int : j \in Latest(n) <=> j \in 1..n /\ j + cap > n
    BY DEF Latest
  <2>2. \A j \in Latest(n) : j \in Int
    BY DEF Latest
  <2>3. \A j \in Int : j \in Latest(n) <=> j \in low..n
    BY <1>1, <1>2, <2>1
  <2>4. Latest(n) = low..n
    <3>1. Latest(n) \subseteq low..n
      BY <2>2, <2>3
    <3>2. low..n \subseteq Latest(n)
      <4>1. \A j \in low..n : j \in Int
        OBVIOUS
      <4>. QED  BY <2>3, <4>1
    <3>. QED  BY <3>1, <3>2, Zenon
  <2>5. IsFiniteSet(low..n) /\ Cardinality(low..n) = IF low > n THEN 0 ELSE n - low + 1
    BY FS_Interval
  <2>6. (IF low > n THEN 0 ELSE n - low + 1) = size
    BY <1>2
  <2>. QED  BY <2>4, <2>5, <2>6
<1>4. IsFiniteSet(1..size) /\ Cardinality(1..size) = size
  <2>1. IsFiniteSet(1..size) /\ Cardinality(1..size) = IF 1 > size THEN 0 ELSE size - 1 + 1
    BY FS_Interval
  <2>. QED  BY <2>1
<1>5. ASSUME NEW j \in Latest(n) PROVE ((j - 1) % cap) + 1 \in 1..size
  <2>1. PICK a \in Nat : a = j - 1 /\ a < n
    BY DEF Latest
  <2>2. a % cap \in 0..cap - 1
    BY RemainderRange
  <2>3. n < cap => a % cap = a
    BY <2>1, SmallRemainder
  <2>. QED  BY <1>1, <2>1, <2>2, <2>3
<1>6. ASSUME NEW i \in Latest(n), NEW j \in Latest(n), i < j
      PROVE  ((i - 1) % cap) + 1 # ((j - 1) % cap) + 1
  <2>1. PICK a, b \in Int : a = i - 1 /\ b = j - 1
    BY DEF Latest
  <2>2. a < b /\ b < a + cap
    BY <1>6, <2>1 DEF Latest
  <2>3. a % cap # b % cap
    BY <2>2, Remainders
  <2>4. a % cap \in Int /\ b % cap \in Int
    BY RemainderRange
  <2>. QED  BY <2>1, <2>3, <2>4
<1>7. place \in [Latest(n) -> 1..size]
  BY <1>5 DEF Places
<1>8. ASSUME NEW i \in Latest(n), NEW j \in Latest(n), place[i] = place[j] PROVE i = j
  <2>1. i \in Int /\ j \in Int
    BY DEF Latest
  <2>2. ((i - 1) % cap) + 1 = ((j - 1) % cap) + 1
    BY <1>8 DEF Places
  <2>. QED  BY <1>6, <2>1, <2>2
<1>. HIDE DEF place
<1>9. place \in Injection(Latest(n), 1..size)
  BY <1>7, <1>8 DEF Injection, IsInjective
<1>10. place \in Surjection(Latest(n), 1..size)
  BY <1>3, <1>4, <1>9, FS_Injection
<1>. QED  BY <1>3, <1>9, <1>10 DEF Bijection, place

(* The percentile of the ring is that of the latest samples.               *)
LEMMA RingPercentile ==
    ASSUME NEW m \in Metrics, NEW t \in Tellings, Ring(m, t),
           m.ttftSamples \in Seq(Nat), NEW n \in Nat, n = Len(t.samples),
           NEW p \in {50, 95}
    PROVE  Ranked(t.samples, n, p, percentile(Sorted(m.ttftSamples), p))
<1>. PICK ring \in Seq(Nat) : ring = m.ttftSamples
  OBVIOUS
<1>. PICK size \in Nat : size = Len(ring)
  OBVIOUS
<1>. PICK all \in Seq(Latencies) : all = t.samples
  BY TellingFields
<1>. PICK v : v = percentile(Sorted(ring), p)
  OBVIOUS
<1>. DEFINE place == Places(n)
<1>1. /\ IsFiniteSet(Latest(n)) /\ Cardinality(Latest(n)) = size
      /\ place \in Bijection(Latest(n), 1..size)
  <2>1. size = IF n < ttftSampleCap THEN n ELSE ttftSampleCap
    BY DEF Ring
  <2>. QED  BY <2>1, LatestPlaces
<1>2. \A j \in Latest(n) : place[j] \in 1..size /\ ring[place[j]] = all[j]
  <2>1. \A j \in Latest(n) : place[j] \in 1..size
    BY <1>1 DEF Bijection, Injection
  <2>2. \A j \in Latest(n) : ring[((j - 1) % ttftSampleCap) + 1] = all[j]
    BY DEF Ring, Latest
  <2>. QED  BY <2>1, <2>2 DEF Places
<1>3. \A i \in 1..size : \E j \in Latest(n) : place[j] = i
  BY <1>1 DEF Bijection, Surjection
<1>4. size = 0 <=> n = 0
  <2>1. size = IF n < ttftSampleCap THEN n ELSE ttftSampleCap
    BY DEF Ring
  <2>. QED  BY <2>1, StatsAssumption
<1>. HIDE DEF place
<1>5. CASE n = 0
  BY <1>4, <1>5, PercentileRank DEF Ranked
<1>6. CASE n # 0
  <2>1. RankedIn(ring, p, v)
    BY <1>4, <1>6, PercentileRank
  <2>. DEFINE A == {j \in Latest(n) : all[j] < v}
              B == {i \in 1..size : ring[i] < v}
              C == {j \in Latest(n) : all[j] <= v}
              D == {i \in 1..size : ring[i] <= v}
              k == (p * (size - 1)) \div 100
  <2>2. (\E i \in 1..size : ring[i] = v) /\ Cardinality(B) <= k /\ Cardinality(D) > k
    BY <2>1 DEF RankedIn
  <2>3. Cardinality(A) = Cardinality(B) /\ Cardinality(C) = Cardinality(D)
    <3>1. A \in SUBSET Latest(n) /\ B \in SUBSET (1..size) /\ C \in SUBSET Latest(n)
            /\ D \in SUBSET (1..size)
      OBVIOUS
    <3>2. /\ \A x \in Latest(n) : x \in A <=> place[x] \in B
          /\ \A x \in Latest(n) : x \in C <=> place[x] \in D
      BY <1>2
    <3>. HIDE DEF A, B, C, D
    <3>3. /\ Matches(place, Latest(n), 1..size, A, B)
          /\ Matches(place, Latest(n), 1..size, C, D)
      BY <1>1, <3>1, <3>2, Zenon DEF Matches
    <3>4. Cardinality(A) = Cardinality(B)
      BY <1>1, <3>3, AsMany
    <3>5. Cardinality(C) = Cardinality(D)
      BY <1>1, <3>3, AsMany
    <3>. QED  BY <3>4, <3>5
  <2>4. \E j \in Latest(n) : all[j] = v
    <3>1. PICK i \in 1..size : ring[i] = v
      BY <2>2
    <3>2. PICK j \in Latest(n) : place[j] = i
      BY <1>3
    <3>. QED  BY <1>2, <3>1, <3>2
  <2>5. Cardinality(A) <= k /\ Cardinality(C) > k
    <3>. HIDE DEF A, B, C, D
    <3>. QED  BY <2>2, <2>3
  <2>6. Ranked(all, n, p, v)
    BY <1>1, <1>6, <2>4, <2>5 DEF Ranked
  <2>. QED  BY <2>6
<1>. QED  BY <1>5, <1>6

----------------------------------------------------------------------------
(* The steps.                                                              *)

LEMMA InitInvariant == Init => IInv
<1>. SUFFICES ASSUME Init PROVE IInv
  OBVIOUS
<1>1. Typed
  BY RestingCalling, StatsAssumption DEF Init, Typed, Nothing, Tellings
<1>2. \A c \in Callers : caller[c].pc = "rest" /\ caller[c].m = 0
  BY RestingCalling DEF Init
<1>3. Settled /\ Apart /\ Rows
  <2>1. Len(heap) = 0 /\ \A u \in Upstreams : metrics[u] = 0
    BY DEF Init
  <2>. QED  BY <1>2, <2>1 DEF Settled, Apart, Rows, Using
<1>4. Paid
  <2>1. Active = {} /\ Len(heap) = 0 /\ calls = 0
    BY <1>2 DEF Active, Init
  <2>. QED  BY <2>1, FS_EmptySet DEF Paid
<1>5. Recorded
  <2>1. Faithful(Blank, Nothing)
    BY StatsAssumption DEF Faithful, Ring, Blank, Nothing
  <2>. QED  BY <2>1 DEF Recorded, Registered, Init
<1>. QED  BY <1>1, <1>3, <1>4, <1>5 DEF IInv

(* A step of one caller that records nothing.                              *)
LEMMA QuietStep ==
    ASSUME IInv, NEW c \in Callers, NEW n \in Calling,
           caller' = [caller EXCEPT ![c] = n], UNCHANGED <<heap, metrics, told>>,
           n.pc # "rest" => /\ n.id \in Upstreams /\ n.op # "none"
                            /\ Since(n, told[n.id]),
           n.pc \in Using => n.m # 0 /\ n.m = metrics[n.id],
           n.pc \notin Using => n.m = 0,
           \/ calls' = calls /\ (n.pc # "rest" => caller[c].pc # "rest")
           \/ calls' = calls + 1 /\ calls < MaxCalls
    PROVE  IInv'
<1>. USE DEF IInv
<1>1. /\ caller' \in [Callers -> Calling] /\ caller'[c] = n
      /\ \A d \in Callers \ {c} : caller'[d] = caller[d]
  BY DEF Typed
<1>2. calls \in Nat /\ calls' \in 0..MaxCalls
  BY StatsAssumption DEF Typed
<1>3. Typed'
  BY <1>1, <1>2 DEF Typed
<1>4. Settled'
  BY <1>1 DEF Settled
<1>5. Apart' /\ Recorded'
  BY DEF Apart, Recorded, Registered
<1>6. Rows'
  BY <1>1 DEF Rows
<1>7. Paid'
  <2>1. PICK a \in Nat : a = Cardinality(Active)
    BY ActiveFinite
  <2>2. Active' \subseteq Active \cup {c} /\ (c \in Active' => n.pc # "rest")
    BY <1>1 DEF Active
  <2>3. IsFiniteSet(Active') /\ Cardinality(Active') \in Nat /\ Cardinality(Active') <= a + 1
    <3>1. IsFiniteSet(Active \cup {c}) /\ Cardinality(Active \cup {c}) <= a + 1
      <4>1. IsFiniteSet(Active \cup {c})
        BY ActiveFinite, FS_AddElement
      <4>2. Cardinality(Active \cup {c}) = IF c \in Active THEN a ELSE a + 1
        BY <2>1, ActiveFinite, FS_AddElement
      <4>. QED  BY <2>1, <4>1, <4>2
    <3>. QED  BY <2>1, <2>2, <3>1, FS_Subset, FS_CardinalityType
  <2>4. Cardinality(Active') + calls <= a + calls'
    <3>1. CASE calls' = calls + 1
      BY <1>2, <2>1, <2>3, <3>1
    <3>2. CASE calls' = calls /\ (n.pc # "rest" => caller[c].pc # "rest")
      <4>1. Active' \subseteq Active
        BY <2>2, <3>2 DEF Active
      <4>2. Cardinality(Active') <= a
        BY <2>1, <4>1, ActiveFinite, FS_Subset
      <4>. QED  BY <1>2, <2>1, <2>3, <3>2, <4>2
    <3>. QED  BY <3>1, <3>2
  <2>5. a <= calls
    BY <2>1 DEF Paid
  <2>6. Cardinality(Active') <= calls'
    BY <1>2, <2>1, <2>3, <2>4, <2>5
  <2>7. ASSUME NEW i \in 1..Len(heap)
        PROVE  heap[i].success + heap[i].failure + Cardinality(Active') <= calls'
    <3>1. PICK sum \in Nat : sum = heap[i].success + heap[i].failure
      <4>1. heap[i].success \in Nat /\ heap[i].failure \in Nat
        BY HeapFields DEF Typed
      <4>. QED  BY <4>1
    <3>2. sum + a <= calls
      <4>1. heap[i].success + heap[i].failure + Cardinality(Active) <= calls
        BY DEF Paid
      <4>. QED  BY <2>1, <3>1, <4>1
    <3>3. sum + Cardinality(Active') <= calls'
      BY <1>2, <2>1, <2>3, <2>4, <3>2
    <3>. QED  BY <3>1, <3>3
  <2>. QED  BY <2>6, <2>7 DEF Paid
<1>. QED  BY <1>3, <1>4, <1>5, <1>6, <1>7

(* More samples, after those there were.                                   *)
Extends(old, new) ==
    Len(old) <= Len(new) /\ \A j \in 1..Len(old) : new[j] = old[j]

(* What was a percentile of the latest samples at some time still is one of*)
(* those that were the latest then.                                        *)
LEMMA RankedLater ==
    ASSUME NEW old, NEW new, Len(old) \in Nat, Extends(old, new),
           NEW n \in 0..Len(old), NEW p, NEW v, Ranked(old, n, p, v)
    PROVE  Ranked(new, n, p, v)
<1>1. \A j \in Latest(n) : new[j] = old[j]
  BY DEF Latest, Extends
<1>2. /\ {j \in Latest(n) : new[j] < v} = {j \in Latest(n) : old[j] < v}
      /\ {j \in Latest(n) : new[j] <= v} = {j \in Latest(n) : old[j] <= v}
      /\ (\E j \in Latest(n) : new[j] = v) <=> (\E j \in Latest(n) : old[j] = v)
  BY <1>1
<1>. QED  BY <1>2, Zenon DEF Ranked

LEMMA RowRankedLater ==
    ASSUME NEW row, NEW from \in Seq(Latencies), NEW old \in Seq(Latencies),
           NEW new \in Seq(Latencies), Extends(old, new), RowRanked(row, from, old)
    PROVE  RowRanked(row, from, new)
<1>1. Len(from) \in Nat /\ Len(old) \in Nat /\ Len(new) \in Nat /\ Len(old) <= Len(new)
  BY DEF Extends
<1>2. PICK n \in Len(from) .. Len(old) :
          Ranked(old, n, 50, row.p50) /\ Ranked(old, n, 95, row.p95)
  BY Zenon DEF RowRanked
<1>3. n \in 0..Len(old) /\ n \in Len(from) .. Len(new)
  BY <1>1
<1>4. Ranked(new, n, 50, row.p50) /\ Ranked(new, n, 95, row.p95)
  BY <1>1, <1>2, <1>3, RankedLater
<1>. QED  BY <1>3, <1>4, Zenon DEF RowRanked

(* What a row has read stays true while more is recorded.                  *)
LEMMA SinceLater ==
    ASSUME NEW q \in Calling, NEW old \in Tellings, NEW t \in Tellings, Since(q, old),
           old.success <= t.success, old.failure <= t.failure,
           Extends(old.samples, t.samples)
    PROVE  Since(q, t)
<1>1. /\ q.since.success \in Nat /\ q.since.failure \in Nat /\ Len(q.since.samples) \in Nat
      /\ q.row.success \in Nat /\ q.row.failure \in Nat
  BY CallingFields, TellingFields
<1>2. /\ old.success \in Nat /\ old.failure \in Nat /\ Len(old.samples) \in Nat
      /\ t.success \in Nat /\ t.failure \in Nat /\ Len(t.samples) \in Nat
  BY TellingFields
<1>3. /\ q.since.success <= t.success /\ q.since.failure <= t.failure
      /\ Len(q.since.samples) <= Len(t.samples)
  <2>1. /\ q.since.success <= old.success /\ q.since.failure <= old.failure
        /\ Len(q.since.samples) <= Len(old.samples)
        /\ Len(old.samples) <= Len(t.samples)
    BY Zenon DEF Since, Extends
  <2>2. q.since.success <= t.success /\ q.since.failure <= t.failure
    BY <1>1, <1>2, <2>1
  <2>3. Len(q.since.samples) <= Len(t.samples)
    BY <1>1, <1>2, <2>1
  <2>. QED  BY <2>2, <2>3
<1>4. q.pc \in {"failures", "percentiles", "done"} =>
          q.row.success \in q.since.success .. t.success
  <2>1. q.pc \in {"failures", "percentiles", "done"} =>
            q.row.success \in q.since.success .. old.success
    BY Zenon DEF Since
  <2>. QED  BY <1>1, <1>2, <2>1
<1>5. q.pc \in {"percentiles", "done"} => q.row.failure \in q.since.failure .. t.failure
  <2>1. q.pc \in {"percentiles", "done"} =>
            q.row.failure \in q.since.failure .. old.failure
    BY Zenon DEF Since
  <2>. QED  BY <1>1, <1>2, <2>1
<1>6. q.pc = "done" => RowRanked(q.row, q.since.samples, t.samples)
  <2>. SUFFICES ASSUME q.pc = "done" PROVE RowRanked(q.row, q.since.samples, t.samples)
    OBVIOUS
  <2>1. RowRanked(q.row, q.since.samples, old.samples)
    BY Zenon DEF Since
  <2>2. /\ q.since.samples \in Seq(Latencies) /\ old.samples \in Seq(Latencies)
        /\ t.samples \in Seq(Latencies)
    BY CallingFields, TellingFields
  <2>. QED  BY <2>1, <2>2, RowRankedLater
<1>. QED  BY <1>3, <1>4, <1>5, <1>6 DEF Since

(* A step of one caller that records what it was told, and returns.        *)
LEMMA RecordStep ==
    ASSUME IInv, NEW c \in Callers, caller[c].pc \in Using,
           NEW i \in 1..Len(heap), i = caller[c].m, NEW u \in Upstreams, u = caller[c].id,
           NEW m \in Metrics, NEW t \in Tellings,
           heap' = [heap EXCEPT ![i] = m], told' = [told EXCEPT ![u] = t],
           Return(c), UNCHANGED <<metrics, calls>>,
           Faithful(m, t),
           m.success + m.failure <= heap[i].success + heap[i].failure + 1,
           told[u].success <= t.success, told[u].failure <= t.failure,
           Extends(told[u].samples, t.samples)
    PROVE  IInv'
<1>. USE DEF IInv
<1>1. /\ caller' \in [Callers -> Calling] /\ caller'[c].pc = "rest" /\ caller'[c].m = 0
      /\ \A d \in Callers \ {c} : caller'[d] = caller[d]
  BY RestingCalling DEF Typed, Return
<1>2. i = metrics[u] /\ i # 0
  BY DEF Settled
<1>3. /\ heap' \in Seq(Metrics) /\ Len(heap') = Len(heap) /\ heap'[i] = m
      /\ \A j \in 1..Len(heap) : j # i => heap'[j] = heap[j]
  BY Replaced DEF Typed
<1>4. /\ told' \in [Upstreams -> Tellings] /\ told'[u] = t
      /\ \A v \in Upstreams \ {u} : told'[v] = told[v]
  BY DEF Typed
<1>5. Typed'
  BY <1>1, <1>3, <1>4 DEF Typed
<1>6. Settled' /\ Apart'
  BY <1>1, <1>3 DEF Settled, Apart, Using
<1>7. Recorded'
  <2>. SUFFICES ASSUME NEW v \in Upstreams
                PROVE  Faithful(Registered(v)', told'[v])
    BY DEF Recorded
  <2>1. CASE v = u
    BY <2>1, <1>2, <1>3, <1>4 DEF Registered
  <2>2. CASE v # u
    <3>1. metrics[v] \in 0..Len(heap)
      BY DEF Typed
    <3>2. metrics[v] # i
      BY <2>2, <1>2 DEF Apart
    <3>3. Registered(v)' = Registered(v)
      BY <3>1, <3>2, <1>3 DEF Registered, Typed
    <3>. QED  BY <2>2, <3>3, <1>4 DEF Recorded
  <2>. QED  BY <2>1, <2>2
<1>8. Rows'
  <2>. SUFFICES ASSUME NEW d \in Callers, caller'[d].pc # "rest"
                PROVE  Since(caller'[d], told'[caller'[d].id])
    BY DEF Rows
  <2>1. PICK q \in Calling : q = caller[d] /\ caller'[d] = q
    BY <1>1 DEF Typed
  <2>2. q.pc # "rest" /\ q.id \in Upstreams /\ Since(q, told[q.id])
    BY <2>1 DEF Rows, Settled
  <2>3. CASE q.id # u
    BY <2>1, <2>2, <2>3, <1>4
  <2>4. CASE q.id = u
    <3>1. PICK old \in Tellings : old = told[u]
      BY DEF Typed
    <3>3. Since(q, t)
      BY <2>2, <2>4, <3>1, SinceLater
    <3>. QED  BY <2>1, <2>4, <3>3, <1>4
  <2>. QED  BY <2>3, <2>4
<1>9. Paid'
  <2>1. PICK a \in Nat : a = Cardinality(Active)
    BY ActiveFinite
  <2>2. c \in Active /\ Active' = Active \ {c}
    BY <1>1 DEF Active, Using
  <2>3. Cardinality(Active') = a - 1 /\ a - 1 \in Nat
    <3>1. Cardinality(Active \ {c}) = a - 1 /\ IsFiniteSet(Active \ {c})
      BY <2>1, <2>2, ActiveFinite, FS_RemoveElement
    <3>. QED  BY <2>2, <3>1, FS_CardinalityType
  <2>4. calls \in Nat /\ a <= calls
    BY <2>1, StatsAssumption DEF Typed, Paid
  <2>5. ASSUME NEW j \in 1..Len(heap)
        PROVE  heap'[j].success + heap'[j].failure + (a - 1) <= calls
    <3>1. PICK sum \in Nat : sum = heap[j].success + heap[j].failure
      <4>1. heap[j].success \in Nat /\ heap[j].failure \in Nat
        BY HeapFields DEF Typed
      <4>. QED  BY <4>1
    <3>2. sum + a <= calls
      BY <2>1, <3>1 DEF Paid
    <3>3. PICK new \in Nat : new = heap'[j].success + heap'[j].failure
      <4>1. heap' \in Seq(Metrics) /\ j \in 1..Len(heap')
        BY <1>3
      <4>2. heap'[j].success \in Nat /\ heap'[j].failure \in Nat
        BY <4>1, HeapFields
      <4>. QED  BY <4>2
    <3>4. new <= sum + 1
      <4>1. CASE j = i
        BY <3>1, <3>3, <4>1, <1>3
      <4>2. CASE j # i
        BY <3>1, <3>3, <4>2, <1>3
      <4>. QED  BY <4>1, <4>2
    <3>. QED  BY <2>4, <3>2, <3>3, <3>4
  <2>6. a - 1 <= calls
    BY <2>4
  <2>. QED  BY <2>3, <2>5, <2>6, <1>3 DEF Paid
<1>. QED  BY <1>5, <1>6, <1>7, <1>8, <1>9

(* The object of a caller, and what it holds.                              *)
LEMMA Object ==
    ASSUME IInv, NEW c \in Callers, caller[c].pc \in Using
    PROVE  /\ caller[c].m \in 1..Len(heap) /\ caller[c].id \in Upstreams
           /\ caller[c].m = metrics[caller[c].id] /\ caller[c].op # "none"
           /\ heap[caller[c].m] \in Metrics /\ told[caller[c].id] \in Tellings
           /\ Faithful(heap[caller[c].m], told[caller[c].id])
           /\ Since(caller[c], told[caller[c].id])
<1>. USE DEF IInv
<1>1. caller[c].pc # "rest" /\ caller[c].id \in Upstreams /\ caller[c].op # "none"
  BY DEF Using, Settled
<1>2. caller[c].m # 0 /\ caller[c].m = metrics[caller[c].id]
  BY DEF Settled
<1>3. caller[c].m \in 1..Len(heap)
  BY <1>1, <1>2 DEF Typed
<1>4. heap[caller[c].m] \in Metrics /\ told[caller[c].id] \in Tellings
  BY <1>1, <1>3, HeapFields DEF Typed
<1>5. Registered(caller[c].id) = heap[caller[c].m]
  BY <1>2 DEF Registered
<1>. QED  BY <1>1, <1>2, <1>3, <1>4, <1>5 DEF Recorded, Rows

LEMMA CallStep ==
    ASSUME IInv, NEW c \in Callers, Call(c)
    PROVE  IInv'
<1>. PICK u \in Upstreams, op \in {"success", "failure", "ttft", "row"} :
         caller' = [caller EXCEPT ![c] = [Resting EXCEPT
                       !.pc = "get", !.op = op, !.id = u, !.since = told[u]]]
  BY DEF Call
<1>. DEFINE n == [Resting EXCEPT !.pc = "get", !.op = op, !.id = u, !.since = told[u]]
<1>1. told[u] \in Tellings
  BY DEF IInv, Typed
<1>2. /\ n \in Calling /\ n.pc = "get" /\ n.op = op /\ n.id = u /\ n.since = told[u]
      /\ n.m = 0
  BY <1>1, RestingCalling DEF Calling
<1>3. Since(n, told[u])
  BY <1>1, <1>2, TellingFields DEF Since
<1>4. UNCHANGED <<heap, metrics, told>> /\ calls' = calls + 1 /\ calls < MaxCalls
  BY DEF Call
<1>. HIDE DEF n
<1>5. caller' = [caller EXCEPT ![c] = n]
  BY DEF n
<1>. QED  BY <1>2, <1>3, <1>4, <1>5, QuietStep DEF Using

(* get, with what it found.                                                *)
LEMMA FoundStep ==
    ASSUME IInv, NEW c \in Callers, caller[c].pc \in {"get", "create"},
           NEW m \in Nat, m # 0, m = metrics[caller[c].id], Found(c, m),
           UNCHANGED <<heap, metrics, calls, told>>
    PROVE  IInv'
<1>. DEFINE n == [caller[c] EXCEPT !.m = m, !.pc = caller[c].op]
<1>1. caller[c] \in Calling /\ caller[c].pc # "rest"
  BY DEF IInv, Typed
<1>2. caller[c].id \in Upstreams /\ caller[c].op # "none" /\ Since(caller[c], told[caller[c].id])
  BY <1>1 DEF IInv, Settled, Rows
<1>3. caller[c].op \in {"success", "failure", "ttft", "row"}
  BY <1>1, <1>2, CallingFields
<1>4. /\ n \in Calling /\ n.pc = caller[c].op /\ n.op = caller[c].op /\ n.id = caller[c].id
      /\ n.m = m /\ n.since = caller[c].since
  BY <1>1, <1>3 DEF Calling, Using
<1>5. caller' = [caller EXCEPT ![c] = n]
  BY <1>1 DEF Found, IInv, Typed
<1>. HIDE DEF n
<1>6. Since(n, told[n.id])
  BY <1>2, <1>3, <1>4 DEF Since
<1>7. n.pc \in Using
  BY <1>3, <1>4 DEF Using
<1>. QED  BY <1>1, <1>2, <1>4, <1>5, <1>6, <1>7, QuietStep

LEMMA LookupStep ==
    ASSUME IInv, NEW c \in Callers, Lookup(c)
    PROVE  IInv'
<1>. DEFINE n == [caller[c] EXCEPT !.pc = "create"]
<1>1. caller[c].pc = "get" /\ UNCHANGED <<heap, metrics, calls, told>>
  BY DEF Lookup, At
<1>2. caller[c] \in Calling
  BY DEF IInv, Typed
<1>3. caller[c].id \in Upstreams /\ caller[c].op # "none" /\ Since(caller[c], told[caller[c].id])
  BY <1>1 DEF IInv, Settled, Rows
<1>4. metrics[caller[c].id] \in Nat
  BY <1>3 DEF IInv, Typed
<1>5. CASE metrics[caller[c].id] # 0
  <2>1. Found(c, metrics[caller[c].id])
    BY <1>5 DEF Lookup
  <2>. QED  BY <1>1, <1>4, <1>5, <2>1, FoundStep
<1>6. CASE metrics[caller[c].id] = 0
  <2>1. /\ n \in Calling /\ n.pc = "create" /\ n.op = caller[c].op /\ n.id = caller[c].id
        /\ n.since = caller[c].since /\ n.m = 0
    BY <1>1, <1>2 DEF Calling, IInv, Settled, Using
  <2>2. caller' = [caller EXCEPT ![c] = n]
    BY <1>6 DEF Lookup
  <2>. HIDE DEF n
  <2>3. Since(n, told[n.id])
    BY <1>3, <2>1 DEF Since
  <2>. QED  BY <1>1, <1>3, <2>1, <2>2, <2>3, QuietStep DEF Using
<1>. QED  BY <1>5, <1>6

LEMMA CreateStep ==
    ASSUME IInv, NEW c \in Callers, Create(c)
    PROVE  IInv'
<1>1. caller[c].pc = "create" /\ UNCHANGED <<calls, told>>
  BY DEF Create, At
<1>2. caller[c] \in Calling
  BY DEF IInv, Typed
<1>3. caller[c].id \in Upstreams /\ caller[c].op # "none" /\ Since(caller[c], told[caller[c].id])
  BY <1>1 DEF IInv, Settled, Rows
<1>4. metrics[caller[c].id] \in Nat
  BY <1>3 DEF IInv, Typed
<1>5. CASE metrics[caller[c].id] # 0
  <2>1. Found(c, metrics[caller[c].id]) /\ UNCHANGED <<heap, metrics>>
    BY <1>5 DEF Create
  <2>. QED  BY <1>1, <1>4, <1>5, <2>1, FoundStep
<1>6. CASE metrics[caller[c].id] = 0
  <2>. USE DEF IInv
  <2>. PICK u \in Upstreams : u = caller[c].id
    BY <1>3
  <2>. PICK k \in Nat : k = Len(heap)
    BY DEF Typed
  <2>. PICK new \in Nat : new = k + 1
    OBVIOUS
  <2>. DEFINE n == [caller[c] EXCEPT !.m = new, !.pc = caller[c].op]
  <2>1. heap' = Append(heap, Blank) /\ Blank \in Metrics
    BY <1>6, StatsAssumption DEF Create, Blank, Metrics
  <2>2. /\ heap' \in Seq(Metrics) /\ Len(heap') = k + 1 /\ heap'[k + 1] = Blank
        /\ \A i \in 1..k : heap'[i] = heap[i]
    BY <2>1, Appended DEF Typed
  <2>3. metrics' = [metrics EXCEPT ![u] = k + 1] /\ Found(c, k + 1)
    BY <1>6, <2>2 DEF Create
  <2>4. caller[c].op \in {"success", "failure", "ttft", "row"}
    BY <1>2, <1>3, CallingFields
  <2>5. /\ n \in Calling /\ n.pc = caller[c].op /\ n.op = caller[c].op /\ n.id = u
        /\ n.m = new /\ n.since = caller[c].since
    BY <1>2, <2>4 DEF Calling, Using
  <2>6. caller' = [caller EXCEPT ![c] = n]
    BY <2>3 DEF Found, Typed
  <2>. HIDE DEF n
  <2>7. /\ caller' \in [Callers -> Calling] /\ caller'[c] = n
        /\ \A d \in Callers \ {c} : caller'[d] = caller[d]
    BY <2>5, <2>6 DEF Typed
  <2>8. /\ \A v \in Upstreams : metrics[v] \in 0..k
        /\ metrics'[u] = k + 1 /\ \A v \in Upstreams \ {u} : metrics'[v] = metrics[v]
        /\ metrics' \in [Upstreams -> 0..k + 1]
    BY <2>3 DEF Typed
  <2>9. metrics[u] = 0
    BY <1>6
  <2>10. Typed'
    BY <1>1, <2>2, <2>7, <2>8 DEF Typed
  <2>11. Settled'
    <3>. SUFFICES ASSUME NEW d \in Callers
                  PROVE  /\ caller'[d].pc # "rest" => caller'[d].id \in Upstreams /\ caller'[d].op # "none"
                         /\ caller'[d].pc \notin Using => caller'[d].m = 0
                         /\ caller'[d].pc \in Using => caller'[d].m # 0 /\ caller'[d].m = metrics'[caller'[d].id]
      BY DEF Settled
    <3>1. CASE d = c
      BY <1>3, <2>4, <2>5, <2>7, <2>8, <3>1 DEF Using
    <3>2. CASE d # c
      <4>1. caller'[d] = caller[d]
        BY <2>7, <3>2
      <4>2. caller[d].pc \in Using => caller[d].pc # "rest"
        BY DEF Using
      <4>. QED  BY <2>8, <2>9, <4>1, <4>2 DEF Settled
    <3>. QED  BY <3>1, <3>2
  <2>12. Apart'
    <3>1. \A v, w \in Upstreams : metrics'[v] # 0 /\ metrics'[v] = metrics'[w] => v = w
      BY <2>8 DEF Apart
    <3>2. ASSUME NEW i \in 1..k + 1
          PROVE  \E v \in Upstreams : metrics'[v] = i
      <4>1. CASE i = k + 1
        BY <2>8, <4>1
      <4>2. CASE i # k + 1
        <5>1. PICK v \in Upstreams : metrics[v] = i
          BY <4>2 DEF Apart
        <5>2. v # u
          BY <2>9, <5>1
        <5>. QED  BY <2>8, <5>1, <5>2
      <4>. QED  BY <4>1, <4>2
    <3>. QED  BY <2>2, <3>1, <3>2 DEF Apart
  <2>13. Recorded'
    <3>. SUFFICES ASSUME NEW v \in Upstreams
                  PROVE  Faithful(Registered(v)', told[v])
      BY <1>1 DEF Recorded
    <3>1. Registered(v)' = Registered(v)
      <4>1. CASE v = u
        BY <2>2, <2>8, <2>9, <4>1 DEF Registered
      <4>2. CASE v # u
        BY <2>2, <2>8, <4>2 DEF Registered
      <4>. QED  BY <4>1, <4>2
    <3>. QED  BY <3>1 DEF Recorded
  <2>14. Rows'
    <3>1. Since(n, told[n.id])
      BY <1>3, <2>4, <2>5 DEF Since
    <3>. QED  BY <1>1, <2>7, <3>1 DEF Rows
  <2>15. Paid'
    <3>1. Active' = Active
      <4>1. caller'[c].pc # "rest" /\ caller[c].pc # "rest"
        BY <1>1, <2>4, <2>5, <2>7
      <4>. QED  BY <2>7, <4>1 DEF Active
    <3>2. Cardinality(Active) \in Nat /\ Cardinality(Active) <= calls
      BY ActiveFinite DEF Paid
    <3>3. Blank.success + Blank.failure + Cardinality(Active) <= calls
      BY <3>2 DEF Blank
    <3>4. \A i \in 1..k + 1 : i \in 1..k \/ i = k + 1
      OBVIOUS
    <3>. QED  BY <1>1, <2>2, <3>1, <3>2, <3>3, <3>4 DEF Paid
  <2>. QED  BY <2>10, <2>11, <2>12, <2>13, <2>14, <2>15
<1>. QED  BY <1>5, <1>6

LEMMA MetricsCount ==
    \A m \in Metrics :
        /\ m.success \in Nat /\ m.failure \in Nat
        /\ LET n == [m EXCEPT !.success = m.success + 1]
           IN  /\ n \in Metrics /\ n.success = m.success + 1 /\ n.failure = m.failure
               /\ n.ttftSamples = m.ttftSamples /\ n.ttftNext = m.ttftNext
        /\ LET n == [m EXCEPT !.failure = m.failure + 1]
           IN  /\ n \in Metrics /\ n.failure = m.failure + 1 /\ n.success = m.success
               /\ n.ttftSamples = m.ttftSamples /\ n.ttftNext = m.ttftNext
<1>. TAKE m \in Metrics
<1>1. m.success \in Nat /\ m.failure \in Nat
  BY DEF Metrics
<1>2. LET n == [m EXCEPT !.success = m.success + 1]
      IN  /\ n \in Metrics /\ n.success = m.success + 1 /\ n.failure = m.failure
          /\ n.ttftSamples = m.ttftSamples /\ n.ttftNext = m.ttftNext
  BY <1>1 DEF Metrics
<1>3. LET n == [m EXCEPT !.failure = m.failure + 1]
      IN  /\ n \in Metrics /\ n.failure = m.failure + 1 /\ n.success = m.success
          /\ n.ttftSamples = m.ttftSamples /\ n.ttftNext = m.ttftNext
  BY <1>1 DEF Metrics
<1>. QED  BY <1>1, <1>2, <1>3

LEMMA RingAfter ==
    \A m \in Metrics, t \in Tellings, ms \in Latencies, t2 \in Tellings :
        Ring(m, t) /\ t2.samples = Append(t.samples, ms) =>
            /\ WithSample(m, ms) \in Metrics
            /\ WithSample(m, ms).success = m.success
            /\ WithSample(m, ms).failure = m.failure
            /\ Ring(WithSample(m, ms), t2)
  BY RingGoesRound

LEMMA CountSuccessStep ==
    ASSUME IInv, NEW c \in Callers, CountSuccess(c)
    PROVE  IInv'
<1>. PICK i \in 1..Len(heap), u \in Upstreams :
         /\ i = caller[c].m /\ u = caller[c].id /\ heap[i] \in Metrics /\ told[u] \in Tellings
         /\ Faithful(heap[i], told[u])
  BY Object DEF CountSuccess, At, Using
<1>. DEFINE m == [heap[i] EXCEPT !.success = @ + 1]
            t == [told[u] EXCEPT !.success = @ + 1]
<1>1. /\ m \in Metrics /\ m.success = heap[i].success + 1 /\ m.failure = heap[i].failure
      /\ m.ttftSamples = heap[i].ttftSamples /\ m.ttftNext = heap[i].ttftNext
      /\ heap[i].success \in Nat /\ heap[i].failure \in Nat
  BY MetricsCount, Zenon
<1>2. /\ t \in Tellings /\ t.success = told[u].success + 1 /\ t.failure = told[u].failure
      /\ t.samples = told[u].samples /\ told[u].success \in Nat /\ told[u].failure \in Nat
      /\ Len(t.samples) \in Nat
  BY DEF Tellings
<1>3. heap' = [heap EXCEPT ![i] = m] /\ told' = [told EXCEPT ![u] = t]
  BY DEF CountSuccess
<1>4. caller[c].pc \in Using /\ Return(c) /\ UNCHANGED <<metrics, calls>>
  BY DEF CountSuccess, At, Using
<1>. HIDE DEF m, t
<1>5. Faithful(m, t)
  BY <1>1, <1>2 DEF Faithful, Ring
<1>6. /\ m.success + m.failure <= heap[i].success + heap[i].failure + 1
      /\ told[u].success <= t.success /\ told[u].failure <= t.failure
  <2>1. m.success + m.failure <= heap[i].success + heap[i].failure + 1
    BY <1>1
  <2>2. told[u].success <= t.success /\ told[u].failure <= t.failure
    BY <1>2
  <2>. QED  BY <2>1, <2>2
<1>7. Extends(told[u].samples, t.samples)
  BY <1>2 DEF Extends
<1>. QED  BY <1>1, <1>2, <1>3, <1>4, <1>5, <1>6, <1>7, RecordStep

LEMMA CountFailureStep ==
    ASSUME IInv, NEW c \in Callers, CountFailure(c)
    PROVE  IInv'
<1>. PICK i \in 1..Len(heap), u \in Upstreams :
         /\ i = caller[c].m /\ u = caller[c].id /\ heap[i] \in Metrics /\ told[u] \in Tellings
         /\ Faithful(heap[i], told[u])
  BY Object DEF CountFailure, At, Using
<1>. DEFINE m == [heap[i] EXCEPT !.failure = @ + 1]
            t == [told[u] EXCEPT !.failure = @ + 1]
<1>1. /\ m \in Metrics /\ m.failure = heap[i].failure + 1 /\ m.success = heap[i].success
      /\ m.ttftSamples = heap[i].ttftSamples /\ m.ttftNext = heap[i].ttftNext
      /\ heap[i].success \in Nat /\ heap[i].failure \in Nat
  BY MetricsCount, Zenon
<1>2. /\ t \in Tellings /\ t.failure = told[u].failure + 1 /\ t.success = told[u].success
      /\ t.samples = told[u].samples /\ told[u].success \in Nat /\ told[u].failure \in Nat
      /\ Len(t.samples) \in Nat
  BY DEF Tellings
<1>3. heap' = [heap EXCEPT ![i] = m] /\ told' = [told EXCEPT ![u] = t]
  BY DEF CountFailure
<1>4. caller[c].pc \in Using /\ Return(c) /\ UNCHANGED <<metrics, calls>>
  BY DEF CountFailure, At, Using
<1>. HIDE DEF m, t
<1>5. Faithful(m, t)
  BY <1>1, <1>2 DEF Faithful, Ring
<1>6. /\ m.success + m.failure <= heap[i].success + heap[i].failure + 1
      /\ told[u].success <= t.success /\ told[u].failure <= t.failure
  <2>1. m.success + m.failure <= heap[i].success + heap[i].failure + 1
    BY <1>1
  <2>2. told[u].success <= t.success /\ told[u].failure <= t.failure
    BY <1>2
  <2>. QED  BY <2>1, <2>2
<1>7. Extends(told[u].samples, t.samples)
  BY <1>2 DEF Extends
<1>. QED  BY <1>1, <1>2, <1>3, <1>4, <1>5, <1>6, <1>7, RecordStep

LEMMA RecordTTFTStep ==
    ASSUME IInv, NEW c \in Callers, RecordTTFT(c)
    PROVE  IInv'
<1>. PICK i \in 1..Len(heap), u \in Upstreams :
         /\ i = caller[c].m /\ u = caller[c].id /\ heap[i] \in Metrics /\ told[u] \in Tellings
         /\ Faithful(heap[i], told[u])
  BY Object DEF RecordTTFT, At, Using
<1>. PICK ms \in Latencies :
         /\ heap' = [heap EXCEPT ![caller[c].m] = WithSample(@, ms)]
         /\ told' = [told EXCEPT ![caller[c].id].samples = Append(@, ms)]
  BY DEF RecordTTFT
<1>. DEFINE m == WithSample(heap[i], ms)
            t == [told[u] EXCEPT !.samples = Append(told[u].samples, ms)]
<1>1. told[u].samples \in Seq(Latencies) /\ Len(told[u].samples) \in Nat
  BY TellingFields
<1>2. /\ Append(told[u].samples, ms) \in Seq(Latencies)
      /\ Len(Append(told[u].samples, ms)) = Len(told[u].samples) + 1
      /\ \A j \in 1..Len(told[u].samples) :
            Append(told[u].samples, ms)[j] = told[u].samples[j]
  BY <1>1, Appended
<1>3. /\ t \in Tellings /\ t.failure = told[u].failure /\ t.success = told[u].success
      /\ t.samples = Append(told[u].samples, ms) /\ t.success \in Nat /\ t.failure \in Nat
  BY <1>2 DEF Tellings
<1>4. heap' = [heap EXCEPT ![i] = m] /\ told' = [told EXCEPT ![u] = t]
  OBVIOUS
<1>5. caller[c].pc \in Using /\ Return(c) /\ UNCHANGED <<metrics, calls>>
  BY DEF RecordTTFT, At, Using
<1>. HIDE DEF m, t
<1>6. m \in Metrics /\ m.success = heap[i].success /\ m.failure = heap[i].failure /\ Ring(m, t)
  <2>1. t.samples = Append(told[u].samples, ms) /\ t \in Tellings
    BY <1>3
  <2>2. m = WithSample(heap[i], ms) /\ Ring(heap[i], told[u])
    BY Zenon DEF m, Faithful
  <2>3. /\ WithSample(heap[i], ms) \in Metrics
        /\ WithSample(heap[i], ms).success = heap[i].success
        /\ WithSample(heap[i], ms).failure = heap[i].failure
        /\ Ring(WithSample(heap[i], ms), t)
    BY <2>1, <2>2, RingAfter, Zenon
  <2>. QED  BY <2>2, <2>3, Zenon
<1>7. Faithful(m, t)
  BY <1>3, <1>6 DEF Faithful
<1>8. m.success \in Nat /\ m.failure \in Nat
  BY <1>6 DEF Metrics
<1>9. /\ m.success + m.failure <= heap[i].success + heap[i].failure + 1
      /\ told[u].success <= t.success /\ told[u].failure <= t.failure
  <2>1. m.success + m.failure <= heap[i].success + heap[i].failure + 1
    BY <1>6, <1>8
  <2>2. told[u].success <= t.success /\ told[u].failure <= t.failure
    BY <1>3
  <2>. QED  BY <2>1, <2>2
<1>10. Extends(told[u].samples, t.samples)
  <2>1. Len(told[u].samples) <= Len(t.samples)
    <3>1. PICK k \in Nat : k = Len(told[u].samples)
      BY <1>1
    <3>2. Len(t.samples) = k + 1
      BY <1>2, <1>3, <3>1
    <3>3. k <= k + 1
      OBVIOUS
    <3>. QED  BY <3>1, <3>2, <3>3, Zenon
  <2>. QED  BY <1>2, <1>3, <2>1 DEF Extends
<1>. QED  BY <1>3, <1>4, <1>5, <1>6, <1>7, <1>9, <1>10, RecordStep, ZenonT(40)

(* A step of a caller that reads.                                          *)
LEMMA ReadStep ==
    ASSUME IInv, NEW c \in Callers, caller[c].pc \in Using,
           NEW row \in [success : Nat, failure : Nat, p50 : Nat, p95 : Nat],
           NEW pc \in {"failures", "percentiles", "done"},
           caller' = [caller EXCEPT ![c].row = row, ![c].pc = pc],
           UNCHANGED <<heap, metrics, calls, told>>,
           row.success \in caller[c].since.success .. told[caller[c].id].success,
           pc \in {"percentiles", "done"} =>
               row.failure \in caller[c].since.failure .. told[caller[c].id].failure,
           pc = "done" => RowRanked(row, caller[c].since.samples, told[caller[c].id].samples)
    PROVE  IInv'
<1>. DEFINE n == [caller[c] EXCEPT !.row = row, !.pc = pc]
<1>1. caller[c] \in Calling
  BY DEF IInv, Typed
<1>2. /\ n \in Calling /\ n.pc = pc /\ n.op = caller[c].op /\ n.id = caller[c].id
      /\ n.m = caller[c].m /\ n.since = caller[c].since /\ n.row = row
  BY <1>1 DEF Calling, Using
<1>3. caller' = [caller EXCEPT ![c] = n]
  BY <1>1 DEF IInv, Typed
<1>. HIDE DEF n
<1>4. Since(n, told[n.id])
  BY <1>2, Object DEF Since
<1>5. /\ n.id \in Upstreams /\ n.op # "none" /\ n.m # 0 /\ n.m = metrics[n.id]
      /\ caller[c].pc # "rest" /\ n.pc \in Using
  BY <1>2, Object DEF Using
<1>. QED  BY <1>2, <1>3, <1>4, <1>5, QuietStep

LEMMA RowFields ==
    \A row \in [success : Nat, failure : Nat, p50 : Nat, p95 : Nat] :
        row.success \in Nat /\ row.failure \in Nat /\ row.p50 \in Nat /\ row.p95 \in Nat
  OBVIOUS

LEMMA LoadSuccessStep ==
    ASSUME IInv, NEW c \in Callers, LoadSuccess(c)
    PROVE  IInv'
<1>. DEFINE row == [caller[c].row EXCEPT !.success = heap[caller[c].m].success]
<1>1. caller[c].pc = "row" /\ caller[c].pc \in Using /\ caller[c] \in Calling
  BY DEF LoadSuccess, At, Using, IInv, Typed
<1>2. heap[caller[c].m].success = told[caller[c].id].success
  BY <1>1, Object DEF Faithful
<1>3. PICK k \in Nat : k = heap[caller[c].m].success
  BY <1>1, Object DEF Metrics
<1>4. row \in [success : Nat, failure : Nat, p50 : Nat, p95 : Nat] /\ row.success = k
  BY <1>1, <1>3, CallingFields
<1>5. caller[c].since.success \in Nat /\ caller[c].since.success <= k
  BY <1>1, <1>2, <1>3, Object, CallingFields, TellingFields DEF Since
<1>6. caller' = [caller EXCEPT ![c].row = row, ![c].pc = "failures"]
  BY <1>1 DEF LoadSuccess, IInv, Typed, Calling
<1>7. UNCHANGED <<heap, metrics, calls, told>>
  BY DEF LoadSuccess
<1>. HIDE DEF row
<1>8. row.success \in caller[c].since.success .. told[caller[c].id].success
  BY <1>2, <1>3, <1>4, <1>5
<1>. QED  BY <1>1, <1>4, <1>6, <1>7, <1>8, ReadStep

LEMMA LoadFailureStep ==
    ASSUME IInv, NEW c \in Callers, LoadFailure(c)
    PROVE  IInv'
<1>. DEFINE row == [caller[c].row EXCEPT !.failure = heap[caller[c].m].failure]
<1>1. caller[c].pc = "failures" /\ caller[c].pc \in Using /\ caller[c] \in Calling
  BY DEF LoadFailure, At, Using, IInv, Typed
<1>2. heap[caller[c].m].failure = told[caller[c].id].failure
  BY <1>1, Object DEF Faithful
<1>3. PICK k \in Nat : k = heap[caller[c].m].failure
  BY <1>1, Object DEF Metrics
<1>4. /\ row \in [success : Nat, failure : Nat, p50 : Nat, p95 : Nat] /\ row.failure = k
      /\ row.success = caller[c].row.success
  BY <1>1, <1>3, CallingFields
<1>5. caller[c].since.failure \in Nat /\ caller[c].since.failure <= k
  BY <1>1, <1>2, <1>3, Object, CallingFields, TellingFields DEF Since
<1>6. caller' = [caller EXCEPT ![c].row = row, ![c].pc = "percentiles"]
  BY <1>1 DEF LoadFailure, IInv, Typed, Calling
<1>7. UNCHANGED <<heap, metrics, calls, told>>
  BY DEF LoadFailure
<1>. HIDE DEF row
<1>8. row.failure \in caller[c].since.failure .. told[caller[c].id].failure
  BY <1>2, <1>3, <1>4, <1>5
<1>9. row.success \in caller[c].since.success .. told[caller[c].id].success
  BY <1>1, <1>4, Object DEF Since
<1>. QED  BY <1>1, <1>4, <1>6, <1>7, <1>8, <1>9, ReadStep

(* The percentiles of a copy of the ring, taken under its lock.            *)
LEMMA PercentilesStep ==
    ASSUME IInv, NEW c \in Callers, Percentiles(c)
    PROVE  IInv'
<1>1. caller[c].pc = "percentiles" /\ caller[c].pc \in Using /\ caller[c] \in Calling
  BY DEF Percentiles, At, Using, IInv, Typed
<1>. PICK ring \in Seq(Latencies) : ring = heap[caller[c].m].ttftSamples
  BY <1>1, Object DEF Metrics
<1>. PICK all \in Tellings : all = told[caller[c].id]
  BY <1>1, Object
<1>2. ring \in Seq(Nat)
  <2>1. Len(ring) \in Nat /\ \A i \in 1..Len(ring) : ring[i] \in Nat
    <3>1. Len(ring) \in Nat /\ \A i \in 1..Len(ring) : ring[i] \in Latencies
      OBVIOUS
    <3>. QED  BY <3>1, StatsAssumption, Zenon
  <2>2. ring = [i \in 1..Len(ring) |-> ring[i]]
    OBVIOUS
  <2>3. PICK n \in Nat : n = Len(ring)
    BY <2>1
  <2>4. ring \in [1..n -> Nat]
    BY <2>1, <2>2, <2>3, Zenon
  <2>. QED  BY <2>4, Listed
<1>3. PICK p50, p95 \in Nat : p50 = percentile(Sorted(ring), 50) /\ p95 = percentile(Sorted(ring), 95)
  BY <1>2, PercentileRank
<1>4. Ring(heap[caller[c].m], all) /\ heap[caller[c].m] \in Metrics
  BY <1>1, Object DEF Faithful
<1>5. PICK n \in Nat : n = Len(all.samples)
  BY TellingFields
<1>6. Ranked(all.samples, n, 50, p50) /\ Ranked(all.samples, n, 95, p95)
  BY <1>2, <1>3, <1>4, <1>5, RingPercentile
<1>7. n \in Len(caller[c].since.samples) .. Len(all.samples)
  <2>1. caller[c].since.samples \in Seq(Latencies)
          /\ Len(caller[c].since.samples) <= Len(all.samples)
    BY <1>1, Object, CallingFields, TellingFields DEF Since
  <2>. QED  BY <1>5, <2>1
<1>. DEFINE row == [caller[c].row EXCEPT !.p50 = p50, !.p95 = p95]
<1>8. /\ row \in [success : Nat, failure : Nat, p50 : Nat, p95 : Nat]
      /\ row.p50 = p50 /\ row.p95 = p95
      /\ row.success = caller[c].row.success /\ row.failure = caller[c].row.failure
  BY <1>1, CallingFields
<1>9. caller' = [caller EXCEPT ![c].row = row, ![c].pc = "done"]
  <2>1. caller' = [caller EXCEPT ![c].row.p50 = p50, ![c].row.p95 = p95, ![c].pc = "done"]
    BY <1>3, Zenon DEF Percentiles
  <2>. QED  BY <1>1, <2>1 DEF IInv, Typed, Calling
<1>10. UNCHANGED <<heap, metrics, calls, told>>
  BY DEF Percentiles
<1>. HIDE DEF row
<1>11. /\ row.success \in caller[c].since.success .. told[caller[c].id].success
       /\ row.failure \in caller[c].since.failure .. told[caller[c].id].failure
  BY <1>1, <1>8, Object DEF Since
<1>12. RowRanked(row, caller[c].since.samples, told[caller[c].id].samples)
  BY <1>6, <1>7, <1>8, Zenon DEF RowRanked
<1>. QED  BY <1>1, <1>8, <1>9, <1>10, <1>11, <1>12, ReadStep

LEMMA ReportStep ==
    ASSUME IInv, NEW c \in Callers, Report(c)
    PROVE  IInv'
<1>1. caller' = [caller EXCEPT ![c] = Resting] /\ UNCHANGED <<heap, metrics, calls, told>>
  BY DEF Report, Return
<1>2. Resting \in Calling /\ Resting.pc = "rest" /\ Resting.m = 0 /\ Resting.pc \notin Using
  BY RestingCalling DEF Using
<1>. QED  BY <1>1, <1>2, QuietStep

LEMMA Stutter == IInv /\ UNCHANGED vars => IInv'
  BY DEF IInv, vars, Typed, Settled, Apart, Paid, Active, Recorded, Registered, Rows

(* IInv is an invariant of the recorder.                                   *)
THEOREM Invariant == Spec => []IInv
<1>1. IInv /\ [Next]_vars => IInv'
  <2>. SUFFICES ASSUME IInv, [Next]_vars PROVE IInv'
    OBVIOUS
  <2>1. CASE Next
    <3>1. PICK c \in Callers : \/ Call(c) \/ Lookup(c) \/ Create(c)
                               \/ CountSuccess(c) \/ CountFailure(c) \/ RecordTTFT(c)
                               \/ LoadSuccess(c) \/ LoadFailure(c) \/ Percentiles(c) \/ Report(c)
      BY <2>1, Zenon DEF Next
    <3>. QED
      BY <3>1, CallStep, LookupStep, CreateStep, CountSuccessStep, CountFailureStep,
         RecordTTFTStep, LoadSuccessStep, LoadFailureStep, PercentilesStep, ReportStep
  <2>2. CASE UNCHANGED vars
    BY <2>2, Stutter
  <2>. QED  BY <2>1, <2>2
<1>. QED  BY <1>1, InitInvariant, PTL DEF Spec

----------------------------------------------------------------------------
(* What the recorder promises.                                             *)

(* The registered objects exist, no object counts more outcomes than there *)
(* were calls, and no ring outgrows its capacity.                          *)
THEOREM TypeCorrect == Spec => []TypeOK
<1>1. IInv => TypeOK
  <2>. SUFFICES ASSUME IInv PROVE TypeOK
    OBVIOUS
  <2>. USE DEF IInv
  <2>1. metrics \in [Upstreams -> 0..Len(heap)] /\ calls \in 0..MaxCalls
    BY DEF Typed
  <2>2. ASSUME NEW c \in Callers
        PROVE  /\ caller[c].m \in 0..Len(heap)
               /\ caller[c].pc \in Using => caller[c].m # 0
    <3>1. CASE caller[c].pc \in Using
      BY <2>1, <3>1, Object DEF Settled
    <3>2. CASE caller[c].pc \notin Using
      BY <3>2 DEF Settled, Typed
    <3>. QED  BY <3>1, <3>2
  <2>3. ASSUME NEW i \in 1..Len(heap)
        PROVE  heap[i].success + heap[i].failure <= calls
    <3>1. PICK sum \in Nat : sum = heap[i].success + heap[i].failure
      <4>1. heap[i].success \in Nat /\ heap[i].failure \in Nat
        BY HeapFields DEF Typed
      <4>. QED  BY <4>1
    <3>2. sum + Cardinality(Active) <= calls /\ Cardinality(Active) \in Nat /\ calls \in Nat
      BY <2>1, <3>1, ActiveFinite, StatsAssumption DEF Paid
    <3>. QED  BY <3>1, <3>2
  <2>4. ASSUME NEW i \in 1..Len(heap)
        PROVE  /\ Len(heap[i].ttftSamples) <= ttftSampleCap
               /\ heap[i].ttftNext \in 0..ttftSampleCap - 1
    <3>1. heap[i].ttftNext \in 0..ttftSampleCap - 1
      BY HeapFields DEF Typed
    <3>2. PICK u \in Upstreams : metrics[u] = i
      BY DEF Apart
    <3>3. told[u] \in Tellings /\ Ring(heap[i], told[u])
      BY <3>2 DEF Recorded, Registered, Faithful, Typed
    <3>4. Len(heap[i].ttftSamples) <= ttftSampleCap
      BY <3>3, TellingFields, StatsAssumption DEF Ring
    <3>. QED  BY <3>1, <3>4
  <2>5. DOMAIN heap = 1..Len(heap)
    BY DEF Typed
  <2>. QED  BY <2>5, <2>1, <2>2, <2>3, <2>4 DEF TypeOK, Using
<1>. QED  BY <1>1, Invariant, PTL

(* Whatever requests raced to be the first of an upstream, the metrics     *)
(* registered for it hold every outcome reported.                          *)
THEOREM NoOutcomeLost == Spec => []NothingUncounted
<1>1. IInv => NothingUncounted
  BY DEF IInv, Recorded, Faithful, NothingUncounted
<1>. QED  BY <1>1, Invariant, PTL

(* The ring holds the last samples, each where the code will replace it.   *)
THEOREM RingIsRecent == Spec => []SamplesRecent
<1>1. IInv => SamplesRecent
  BY DEF IInv, Recorded, Faithful, Ring, SamplesRecent
<1>. QED  BY <1>1, Invariant, PTL

(* What a row of a snapshot says was true while the snapshot was taken: the*)
(* counters, and the percentiles of the samples that were the latest ones. *)
THEOREM RowsAreTrue == Spec => []RowSound
<1>1. IInv => RowSound
  <2>. SUFFICES ASSUME IInv, NEW c \in Callers, caller[c].pc = "done"
                PROVE  LET q == caller[c] IN
                       /\ q.row.success \in q.since.success .. told[q.id].success
                       /\ q.row.failure \in q.since.failure .. told[q.id].failure
                       /\ RowRanked(q.row, q.since.samples, told[q.id].samples)
    BY Zenon DEF RowSound, At, RowRanked
  <2>1. Since(caller[c], told[caller[c].id])
    BY Object DEF Using
  <2>. QED  BY <2>1 DEF Since
<1>. QED  BY <1>1, Invariant, PTL
=============================================================================
