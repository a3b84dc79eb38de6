---------------------------- MODULE DataTheorems ----------------------------
(***************************************************************************)
(* What the proofs need to know about data: induction, sums of integers    *)
(* over finite sets (SumFunctionOnSet of the community modules),           *)
(* remainders, and sums over sequences (FoldLeft).                         *)
(*                                                                         *)
(* The sum is a recursive function on the subsets of a set.  That the      *)
(* recursion has a solution, that it does not depend on the order in which *)
(* elements are chosen, and every fact that needs induction is proved from *)
(* the existence of a smallest counterexample (WFMin).                     *)
(***************************************************************************)
EXTENDS Integers, FiniteSetsExt, FiniteSetTheorems, WellFoundedInduction, TLAPS

(* A non-empty set of finite sets has a member that includes no other.     *)
LEMMA Smallest ==
    ASSUME NEW S, IsFiniteSet(S), NEW Bad \in SUBSET SUBSET S, Bad # {}
    PROVE  \E T \in Bad : \A U \in Bad : U \subseteq T => U = T
<1>1. IsWellFoundedOn(StrictSubsetOrdering(S), SUBSET S)
  BY FS_StrictSubsetOrderingWellFounded, FS_FiniteSubsetsOfFinite
<1>2. PICK T \in Bad : \A U \in Bad : ~ (<<U, T>> \in StrictSubsetOrdering(S))
  BY <1>1, WFMin
<1>3. \A U \in Bad : U \subseteq T => U = T
  BY <1>2 DEF StrictSubsetOrdering
<1>. QED  BY <1>3

----------------------------------------------------------------------------
(* Remainders.                                                             *)

LEMMA Division ==
    ASSUME NEW s \in Nat \ {0}, NEW a \in Int
    PROVE  a = (s * (a \div s)) + (a % s) /\ (a \div s) \in Int
  BY SMTT(20)

LEMMA RemainderRange ==
    ASSUME NEW s \in Nat \ {0}, NEW a \in Int
    PROVE  a % s \in 0..s - 1
  BY SMTT(20)

LEMMA Multiple ==
    ASSUME NEW s \in Nat \ {0}, NEW k \in Int, s * k > 0
    PROVE  s * k >= s
<1>1. k >= 1
  BY SMT
<1>2. s * (k - 1) >= 0
  BY <1>1, SMT
<1>. QED  BY <1>2, SMT

(* Numbers less than s apart have different remainders.                    *)
LEMMA Remainders ==
    ASSUME NEW s \in Nat \ {0}, NEW a \in Int, NEW b \in Int, a < b, b < a + s
    PROVE  a % s # b % s
<1>. SUFFICES ASSUME a % s = b % s PROVE FALSE
  OBVIOUS
<1>1. b - a = s * ((b \div s) - (a \div s))
  BY Division, SMT
<1>. QED  BY <1>1, Multiple, Division

LEMMA RemainderNext ==
    ASSUME NEW s \in Nat \ {0}, NEW a \in Int
    PROVE  ((a % s) + 1) % s = (a + 1) % s
<1>1. PICK x \in Int : x = (a % s) + 1
  BY RemainderRange
<1>2. PICK y \in Int : y = a + 1
  OBVIOUS
<1>3. PICK qa, qx, qy \in Int : qa = a \div s /\ qx = x \div s /\ qy = y \div s
  BY Division
<1>. DEFINE k == qa + qx - qy
<1>4. x % s \in 0..s - 1 /\ y % s \in 0..s - 1
  BY RemainderRange
<1>5. (y % s) - (x % s) = s * k
  <2>1. a = s * qa + (a % s) /\ a % s \in Int
    BY <1>3, Division, RemainderRange
  <2>2. x = s * qx + (x % s)
    BY <1>3, Division
  <2>3. y = s * qy + (y % s)
    BY <1>3, Division
  <2>4. s * k = s * qa + s * qx - s * qy
    OBVIOUS
  <2>5. y - x = s * qa
    BY <2>1, <1>1, <1>2
  <2>6. s * qa \in Int /\ s * qx \in Int /\ s * qy \in Int
    OBVIOUS
  <2>. HIDE DEF k
  <2>. QED  BY <2>2, <2>3, <2>4, <2>5, <2>6, <1>4
<1>6. ~ (s * k > 0)
  BY <1>4, <1>5, Multiple
<1>7. ~ (s * (-k) > 0)
  <2>1. s * (-k) = (x % s) - (y % s)
    BY <1>4, <1>5
  <2>2. -k \in Int
    OBVIOUS
  <2>. QED  BY <1>4, <2>1, <2>2, Multiple
<1>8. s * k = 0
  BY <1>6, <1>7
<1>. QED  BY <1>1, <1>2, <1>4, <1>5, <1>8

LEMMA SmallRemainder ==
    ASSUME NEW s \in Nat \ {0}, NEW a \in 0..s - 1
    PROVE  a % s = a
  BY SMT

----------------------------------------------------------------------------
(* The recursion behind the sum.                                           *)

Pick(s) == CHOOSE x \in s : TRUE

Solves(iter, f, S) ==
    iter = [s \in SUBSET S |->
               IF s = {} THEN 0 ELSE f[Pick(s)] + iter[s \ {Pick(s)}]]

LEMMA SumIsSolution ==
    ASSUME NEW f, NEW S
    PROVE  SumFunctionOnSet(f, S) = (CHOOSE iter : Solves(iter, f, S))[S]
  BY DEF SumFunctionOnSet, FoldFunctionOnSet, MapThenFoldSet, Solves, Pick

LEMMA Picked == \A T : T # {} => Pick(T) \in T
  BY DEF Pick

LEMMA SolutionEmpty ==
    ASSUME NEW f, NEW S, NEW iter, Solves(iter, f, S)
    PROVE  iter[{}] = 0
  BY DEF Solves

LEMMA SolutionStep ==
    ASSUME NEW f, NEW S, NEW iter, Solves(iter, f, S), NEW T \in SUBSET S, T # {}
    PROVE  iter[T] = f[Pick(T)] + iter[T \ {Pick(T)}]
  BY Zenon DEF Solves

(* Two solutions agree wherever both are defined.                          *)
LEMMA SolutionsAgree ==
    ASSUME NEW f, NEW A, NEW B, NEW i, NEW j, Solves(i, f, A), Solves(j, f, B),
           NEW S, IsFiniteSet(S), S \subseteq A, S \subseteq B
    PROVE  i[S] = j[S]
<1>. DEFINE Bad == {T \in SUBSET S : i[T] # j[T]}
<1>. SUFFICES ASSUME Bad # {} PROVE FALSE
  OBVIOUS
<1>1. Bad \in SUBSET SUBSET S
  OBVIOUS
<1>2. PICK T \in Bad : \A U \in Bad : U \subseteq T => U = T
  <2>. HIDE DEF Bad
  <2>. QED  BY <1>1, Smallest
<1>3. T \in SUBSET A /\ T \in SUBSET B /\ T \in SUBSET S /\ i[T] # j[T]
  OBVIOUS
<1>. HIDE DEF Bad
<1>4. T # {}
  BY <1>3, SolutionEmpty
<1>5. Pick(T) \in T /\ i[T] = f[Pick(T)] + i[T \ {Pick(T)}]
  BY <1>3, <1>4, Picked, SolutionStep
<1>6. j[T] = f[Pick(T)] + j[T \ {Pick(T)}]
  BY <1>3, <1>4, SolutionStep
<1>7. T \ {Pick(T)} \in Bad
  BY <1>3, <1>5, <1>6 DEF Bad
<1>. QED  BY <1>2, <1>5, <1>7

(* Values for all subsets that follow the recursion are a solution.        *)
LEMMA ValuesSolve ==
    ASSUME NEW f, NEW S, NEW v, v = [T \in SUBSET S |-> v[T]], v[{}] = 0,
           \A T \in SUBSET S : T # {} => v[T] = f[Pick(T)] + v[T \ {Pick(T)}]
    PROVE  Solves(v, f, S)
<1>1. \A T \in SUBSET S :
         v[T] = IF T = {} THEN 0 ELSE f[Pick(T)] + v[T \ {Pick(T)}]
  OBVIOUS
<1>2. v = [T \in SUBSET S |-> IF T = {} THEN 0 ELSE f[Pick(T)] + v[T \ {Pick(T)}]]
  BY <1>1
<1>. QED  BY <1>2 DEF Solves

(* The recursion has a solution: values of the subsets' own solutions make *)
(* one for the set.                                                        *)
LEMMA SolutionExists ==
    ASSUME NEW f, NEW S, IsFiniteSet(S)
    PROVE  \E iter : Solves(iter, f, S)
<1>. DEFINE Bad == {T \in SUBSET S : ~ \E iter : Solves(iter, f, T)}
<1>. SUFFICES ASSUME Bad # {} PROVE FALSE
  OBVIOUS
<1>1. Bad \in SUBSET SUBSET S
  OBVIOUS
<1>2. PICK T \in Bad : \A U \in Bad : U \subseteq T => U = T
  <2>. HIDE DEF Bad
  <2>. QED  BY <1>1, Smallest
<1>. DEFINE it(U) == CHOOSE iter : Solves(iter, f, U)
            own(U) == it(U)[U]
            step(U) == f[Pick(U)] + own(U \ {Pick(U)})
            v == [U \in SUBSET T |-> IF U = {} THEN 0
                                     ELSE IF U = T THEN step(T) ELSE own(U)]
<1>3. \A U \in SUBSET T : U # T => Solves(it(U), f, U)
  <2>. SUFFICES ASSUME NEW U \in SUBSET T, U # T PROVE Solves(it(U), f, U)
    OBVIOUS
  <2>1. \E iter : Solves(iter, f, U)
    BY <1>2
  <2>. QED  BY <2>1, Zenon
<1>4. \A U \in SUBSET T : IsFiniteSet(U)
  BY FS_Subset
<1>5. \A U \in SUBSET T : U # {} => Pick(U) \in U
  BY Picked
<1>. HIDE DEF it
<1>6. ASSUME NEW U \in SUBSET T, U # {}, U # T
      PROVE  own(U) = step(U)
  <2>1. Pick(U) \in U /\ U \ {Pick(U)} \in SUBSET T /\ U \ {Pick(U)} # T
    BY <1>5, <1>6
  <2>2. own(U) = f[Pick(U)] + it(U)[U \ {Pick(U)}]
    BY <1>3, <1>6, SolutionStep
  <2>3. it(U)[U \ {Pick(U)}] = own(U \ {Pick(U)})
    BY <1>3, <1>4, <1>6, <2>1, SolutionsAgree
  <2>. QED  BY <2>2, <2>3
<1>7. {} # T => own({}) = 0
  BY <1>3, SolutionEmpty
<1>8. \A U \in SUBSET T : U # T => v[U] = own(U)
  BY <1>7
<1>9. \A U \in SUBSET T : U # {} => v[U] = step(U)
  BY <1>6
<1>10. \A U \in SUBSET T : U # {} => v[U] = f[Pick(U)] + v[U \ {Pick(U)}]
  <2>. SUFFICES ASSUME NEW U \in SUBSET T, U # {}
                PROVE  v[U] = f[Pick(U)] + v[U \ {Pick(U)}]
    OBVIOUS
  <2>1. Pick(U) \in U /\ U \ {Pick(U)} \in SUBSET T /\ U \ {Pick(U)} # T
    BY <1>5
  <2>2. v[U \ {Pick(U)}] = own(U \ {Pick(U)})
    BY <1>8, <2>1
  <2>. QED  BY <1>9, <2>2
<1>11. v = [U \in SUBSET T |-> v[U]] /\ v[{}] = 0
  OBVIOUS
<1>. HIDE DEF v
<1>12. Solves(v, f, T)
  BY <1>10, <1>11, ValuesSolve
<1>. QED  BY <1>2, <1>12

----------------------------------------------------------------------------
(* The recursion of the sum itself.                                        *)

LEMMA SumSolves ==
    ASSUME NEW f, NEW S, IsFiniteSet(S)
    PROVE  \E iter : Solves(iter, f, S) /\ SumFunctionOnSet(f, S) = iter[S]
<1>1. \E iter : Solves(iter, f, S)
  BY SolutionExists
<1>2. Solves(CHOOSE iter : Solves(iter, f, S), f, S)
  BY <1>1, Zenon
<1>. QED  BY <1>2, SumIsSolution, Zenon

LEMMA SumEmpty == \A f : SumFunctionOnSet(f, {}) = 0
<1>. SUFFICES ASSUME NEW f PROVE SumFunctionOnSet(f, {}) = 0
  OBVIOUS
<1>1. PICK iter : Solves(iter, f, {}) /\ SumFunctionOnSet(f, {}) = iter[{}]
  BY SumSolves, FS_EmptySet
<1>. QED  BY <1>1, SolutionEmpty

LEMMA SumPick ==
    ASSUME NEW f, NEW S, IsFiniteSet(S), S # {}
    PROVE  SumFunctionOnSet(f, S)
             = f[Pick(S)] + SumFunctionOnSet(f, S \ {Pick(S)})
<1>. DEFINE R == S \ {Pick(S)}
<1>1. IsFiniteSet(R)
  BY FS_RemoveElement
<1>2. PICK i : Solves(i, f, S) /\ SumFunctionOnSet(f, S) = i[S]
  BY SumSolves
<1>3. PICK j : Solves(j, f, R) /\ SumFunctionOnSet(f, R) = j[R]
  BY <1>1, SumSolves
<1>4. i[S] = f[Pick(S)] + i[R]
  BY <1>2, SolutionStep
<1>5. i[R] = j[R]
  BY <1>1, <1>2, <1>3, SolutionsAgree
<1>. QED  BY <1>2, <1>3, <1>4, <1>5

----------------------------------------------------------------------------
(* What the other modules use.                                             *)

LEMMA SumInt ==
    ASSUME NEW S, IsFiniteSet(S), NEW f, \A x \in S : f[x] \in Int
    PROVE  SumFunctionOnSet(f, S) \in Int
<1>. DEFINE Bad == {T \in SUBSET S : SumFunctionOnSet(f, T) \notin Int}
<1>. SUFFICES ASSUME Bad # {} PROVE FALSE
  BY DEF Bad
<1>1. PICK T \in Bad : \A U \in Bad : U \subseteq T => U = T
  <2>1. Bad \in SUBSET SUBSET S
    OBVIOUS
  <2>. HIDE DEF Bad
  <2>. QED  BY <2>1, Smallest
<1>2. IsFiniteSet(T) /\ T \subseteq S
  BY FS_Subset
<1>3. T # {}
  BY SumEmpty
<1>4. Pick(T) \in T /\ T \ {Pick(T)} \notin Bad
  BY <1>1, <1>3, Picked
<1>5. SumFunctionOnSet(f, T \ {Pick(T)}) \in Int
  BY <1>2, <1>4
<1>6. f[Pick(T)] \in Int
  BY <1>2, <1>4
<1>7. SumFunctionOnSet(f, T) = f[Pick(T)] + SumFunctionOnSet(f, T \ {Pick(T)})
  BY <1>2, <1>3, SumPick
<1>. QED  BY <1>5, <1>6, <1>7

(* Any element may be taken out first.                                     *)
LEMMA SumRemove ==
    ASSUME NEW S, IsFiniteSet(S), NEW f, \A x \in S : f[x] \in Int, NEW x \in S
    PROVE  SumFunctionOnSet(f, S) = f[x] + SumFunctionOnSet(f, S \ {x})
<1>. DEFINE Splits(T) == \A y \in T :
                SumFunctionOnSet(f, T) = f[y] + SumFunctionOnSet(f, T \ {y})
            Bad == {T \in SUBSET S : ~ Splits(T)}
<1>. SUFFICES ASSUME Bad # {} PROVE FALSE
  OBVIOUS
<1>1. PICK T \in Bad : \A U \in Bad : U \subseteq T => U = T
  <2>1. Bad \in SUBSET SUBSET S
    OBVIOUS
  <2>. HIDE DEF Bad
  <2>. QED  BY <2>1, Smallest
<1>2. T \in SUBSET S
  OBVIOUS
<1>3. PICK y \in T : SumFunctionOnSet(f, T) # f[y] + SumFunctionOnSet(f, T \ {y})
  OBVIOUS
<1>. DEFINE c == Pick(T)
<1>4. c \in T /\ IsFiniteSet(T)
  BY <1>2, <1>3, FS_Subset, Picked
<1>. HIDE DEF c
<1>5. SumFunctionOnSet(f, T) = f[c] + SumFunctionOnSet(f, T \ {c})
  BY <1>3, <1>4, SumPick DEF c
<1>6. c # y
  BY <1>3, <1>5
<1>7. T \ {c} \notin Bad /\ T \ {y} \notin Bad
  BY <1>1, <1>3, <1>4
<1>8. SumFunctionOnSet(f, T \ {c}) = f[y] + SumFunctionOnSet(f, (T \ {c}) \ {y})
  BY <1>2, <1>3, <1>6, <1>7
<1>9. SumFunctionOnSet(f, T \ {y}) = f[c] + SumFunctionOnSet(f, (T \ {y}) \ {c})
  BY <1>2, <1>4, <1>6, <1>7
<1>10. (T \ {c}) \ {y} = (T \ {y}) \ {c}
  OBVIOUS
<1>11. f[c] \in Int /\ f[y] \in Int
  BY <1>2, <1>3, <1>4
<1>12. SumFunctionOnSet(f, (T \ {c}) \ {y}) \in Int
  <2>1. IsFiniteSet((T \ {c}) \ {y})
    BY <1>4, FS_RemoveElement
  <2>2. \A z \in (T \ {c}) \ {y} : f[z] \in Int
    BY <1>2
  <2>. QED  BY <2>1, <2>2, SumInt
<1>. DEFINE rest == SumFunctionOnSet(f, (T \ {c}) \ {y})
<1>13. SumFunctionOnSet(f, T) = f[c] + (f[y] + rest)
  BY <1>5, <1>8
<1>14. f[y] + SumFunctionOnSet(f, T \ {y}) = f[y] + (f[c] + rest)
  BY <1>9, <1>10
<1>15. rest \in Int
  BY <1>12
<1>. HIDE DEF rest
<1>16. f[c] + (f[y] + rest) = f[y] + (f[c] + rest)
  BY <1>11, <1>15
<1>. QED  BY <1>3, <1>13, <1>14, <1>16

LEMMA SumAdd ==
    ASSUME NEW S, IsFiniteSet(S), NEW x, x \notin S, NEW f,
           \A y \in S \cup {x} : f[y] \in Int
    PROVE  SumFunctionOnSet(f, S \cup {x}) = f[x] + SumFunctionOnSet(f, S)
<1>1. IsFiniteSet(S \cup {x}) /\ (S \cup {x}) \ {x} = S
  BY FS_AddElement
<1>. QED  BY <1>1, SumRemove

----------------------------------------------------------------------------
(* Induction over the elements of a finite set, for a set of sets.         *)
LEMMA SetInduction ==
    ASSUME NEW S, IsFiniteSet(S), NEW Good, {} \in Good,
           \A T \in SUBSET S : \A x \in S \ T : T \in Good => T \cup {x} \in Good
    PROVE  S \in Good
<1>. DEFINE Bad == (SUBSET S) \ Good
<1>. SUFFICES ASSUME Bad # {} PROVE FALSE
  OBVIOUS
<1>1. PICK T \in Bad : \A U \in Bad : U \subseteq T => U = T
  <2>1. Bad \in SUBSET SUBSET S
    OBVIOUS
  <2>. HIDE DEF Bad
  <2>. QED  BY <2>1, Smallest
<1>2. PICK x \in T : TRUE
  OBVIOUS
<1>3. T \ {x} \in Good /\ x \in S \ (T \ {x}) /\ T \ {x} \in SUBSET S
  BY <1>1, <1>2
<1>4. (T \ {x}) \cup {x} \in Good
  BY <1>3
<1>. QED  BY <1>2, <1>4

LEMMA NatSetInduction ==
    ASSUME NEW Good, 0 \in Good, \A n \in Nat : n \in Good => n + 1 \in Good
    PROVE  Nat \subseteq Good
<1>. SUFFICES ASSUME NEW n \in Nat PROVE n \in Good
  OBVIOUS
<1>. DEFINE Sized == {T \in SUBSET (1..n) : Cardinality(T) \in Good}
<1>1. IsFiniteSet(1..n) /\ Cardinality(1..n) = n
  BY FS_Interval
<1>2. {} \in Sized
  BY FS_EmptySet
<1>3. ASSUME NEW T \in SUBSET (1..n), NEW x \in (1..n) \ T, T \in Sized
      PROVE  T \cup {x} \in Sized
  <2>1. IsFiniteSet(T) /\ Cardinality(T) \in Nat
    BY <1>1, FS_Subset, FS_CardinalityType
  <2>2. Cardinality(T \cup {x}) = Cardinality(T) + 1
    BY <2>1, FS_AddElement
  <2>. QED  BY <1>3, <2>1, <2>2
<1>4. (1..n) \in Sized
  <2>. HIDE DEF Sized
  <2>. QED  BY <1>1, <1>2, <1>3, SetInduction
<1>. QED  BY <1>1, <1>4

LEMMA SumEqual ==
    ASSUME NEW S, IsFiniteSet(S), NEW f, NEW g,
           \A x \in S : f[x] \in Int /\ g[x] = f[x]
    PROVE  SumFunctionOnSet(g, S) = SumFunctionOnSet(f, S)
<1>. DEFINE Good == {T \in SUBSET S : SumFunctionOnSet(g, T) = SumFunctionOnSet(f, T)}
<1>1. {} \in Good
  BY SumEmpty
<1>2. ASSUME NEW T \in SUBSET S, NEW x \in S \ T, T \in Good
      PROVE  T \cup {x} \in Good
  <2>1. IsFiniteSet(T) /\ \A y \in T \cup {x} : f[y] \in Int /\ g[y] \in Int
    BY FS_Subset
  <2>2. SumFunctionOnSet(f, T \cup {x}) = f[x] + SumFunctionOnSet(f, T)
    BY <2>1, SumAdd
  <2>3. SumFunctionOnSet(g, T \cup {x}) = g[x] + SumFunctionOnSet(g, T)
    BY <2>1, SumAdd
  <2>. QED  BY <1>2, <2>2, <2>3
<1>3. S \in Good
  <2>. HIDE DEF Good
  <2>. QED  BY <1>1, <1>2, SetInduction
<1>. QED  BY <1>3

LEMMA SumMonotone ==
    ASSUME NEW S, IsFiniteSet(S), NEW f, NEW g,
           \A x \in S : f[x] \in Int /\ g[x] \in Int /\ f[x] <= g[x]
    PROVE  SumFunctionOnSet(f, S) <= SumFunctionOnSet(g, S)
<1>. DEFINE Good == {T \in SUBSET S : SumFunctionOnSet(f, T) <= SumFunctionOnSet(g, T)}
<1>1. {} \in Good
  BY SumEmpty
<1>2. ASSUME NEW T \in SUBSET S, NEW x \in S \ T, T \in Good
      PROVE  T \cup {x} \in Good
  <2>1. IsFiniteSet(T) /\ \A y \in T \cup {x} : f[y] \in Int /\ g[y] \in Int
    BY FS_Subset
  <2>2. SumFunctionOnSet(f, T \cup {x}) = f[x] + SumFunctionOnSet(f, T)
    BY <2>1, SumAdd
  <2>3. SumFunctionOnSet(g, T \cup {x}) = g[x] + SumFunctionOnSet(g, T)
    BY <2>1, SumAdd
  <2>4. SumFunctionOnSet(f, T) \in Int /\ SumFunctionOnSet(g, T) \in Int
    BY <2>1, SumInt
  <2>. QED  BY <1>2, <2>2, <2>3, <2>4
<1>3. S \in Good
  <2>. HIDE DEF Good
  <2>. QED  BY <1>1, <1>2, SetInduction
<1>. QED  BY <1>3

LEMMA SumPlus ==
    ASSUME NEW S, IsFiniteSet(S), NEW f, NEW g, NEW h,
           \A x \in S : f[x] \in Int /\ g[x] \in Int /\ h[x] = f[x] + g[x]
    PROVE  SumFunctionOnSet(h, S) = SumFunctionOnSet(f, S) + SumFunctionOnSet(g, S)
<1>. DEFINE Good == {T \in SUBSET S : SumFunctionOnSet(h, T)
                        = SumFunctionOnSet(f, T) + SumFunctionOnSet(g, T)}
<1>1. {} \in Good
  BY SumEmpty
<1>2. ASSUME NEW T \in SUBSET S, NEW x \in S \ T, T \in Good
      PROVE  T \cup {x} \in Good
  <2>1. IsFiniteSet(T)
          /\ \A y \in T \cup {x} : f[y] \in Int /\ g[y] \in Int /\ h[y] \in Int
    BY FS_Subset
  <2>2. SumFunctionOnSet(f, T \cup {x}) = f[x] + SumFunctionOnSet(f, T)
    BY <2>1, SumAdd
  <2>3. SumFunctionOnSet(g, T \cup {x}) = g[x] + SumFunctionOnSet(g, T)
    BY <2>1, SumAdd
  <2>4. SumFunctionOnSet(h, T \cup {x}) = h[x] + SumFunctionOnSet(h, T)
    BY <2>1, SumAdd
  <2>5. SumFunctionOnSet(f, T) \in Int /\ SumFunctionOnSet(g, T) \in Int
    BY <2>1, SumInt
  <2>6. f[x] \in Int /\ g[x] \in Int /\ h[x] = f[x] + g[x]
    OBVIOUS
  <2>. QED  BY <1>2, <2>2, <2>3, <2>4, <2>5, <2>6
<1>3. S \in Good
  <2>. HIDE DEF Good
  <2>. QED  BY <1>1, <1>2, SetInduction
<1>. QED  BY <1>3

LEMMA SumScale ==
    ASSUME NEW S, IsFiniteSet(S), NEW k \in Int, NEW f, NEW h,
           \A x \in S : f[x] \in Int /\ h[x] = k * f[x]
    PROVE  SumFunctionOnSet(h, S) = k * SumFunctionOnSet(f, S)
<1>. DEFINE Good == {T \in SUBSET S : SumFunctionOnSet(h, T) = k * SumFunctionOnSet(f, T)}
<1>1. {} \in Good
  BY SumEmpty
<1>2. ASSUME NEW T \in SUBSET S, NEW x \in S \ T, T \in Good
      PROVE  T \cup {x} \in Good
  <2>1. IsFiniteSet(T) /\ \A y \in T \cup {x} : f[y] \in Int /\ h[y] \in Int
    BY FS_Subset
  <2>2. SumFunctionOnSet(f, T \cup {x}) = f[x] + SumFunctionOnSet(f, T)
    BY <2>1, SumAdd
  <2>3. SumFunctionOnSet(h, T \cup {x}) = h[x] + SumFunctionOnSet(h, T)
    BY <2>1, SumAdd
  <2>4. SumFunctionOnSet(f, T) \in Int /\ f[x] \in Int /\ h[x] = k * f[x]
    BY <2>1, SumInt
  <2>5. \A a, b \in Int : k * (a + b) = k * a + k * b
    OBVIOUS
  <2>. QED  BY <1>2, <2>2, <2>3, <2>4, <2>5
<1>3. S \in Good
  <2>. HIDE DEF Good
  <2>. QED  BY <1>1, <1>2, SetInduction
<1>. QED  BY <1>3

LEMMA SumZero ==
    ASSUME NEW S, IsFiniteSet(S), NEW f, \A x \in S : f[x] = 0
    PROVE  SumFunctionOnSet(f, S) = 0
<1>1. SumFunctionOnSet(f, S) = 0 * SumFunctionOnSet(f, S)
  BY SumScale
<1>2. SumFunctionOnSet(f, S) \in Int
  BY SumInt
<1>. QED  BY <1>1, <1>2

LEMMA SumNat ==
    ASSUME NEW S, IsFiniteSet(S), NEW f, \A x \in S : f[x] \in Nat
    PROVE  SumFunctionOnSet(f, S) \in Nat
<1>. DEFINE z == [x \in S |-> 0]
<1>1. SumFunctionOnSet(z, S) = 0
  BY SumZero
<1>2. SumFunctionOnSet(z, S) <= SumFunctionOnSet(f, S)
  BY SumMonotone
<1>3. SumFunctionOnSet(f, S) \in Int
  BY SumInt
<1>. HIDE DEF z
<1>. QED  BY <1>1, <1>2, <1>3

(* Changing the value at one element.                                      *)
LEMMA SumUpdate ==
    ASSUME NEW S, IsFiniteSet(S), NEW f, NEW g, NEW x \in S,
           \A y \in S : f[y] \in Int /\ g[y] \in Int,
           \A y \in S \ {x} : g[y] = f[y]
    PROVE  SumFunctionOnSet(g, S) = SumFunctionOnSet(f, S) + (g[x] - f[x])
<1>1. IsFiniteSet(S \ {x})
  BY FS_RemoveElement
<1>2. SumFunctionOnSet(f, S) = f[x] + SumFunctionOnSet(f, S \ {x})
  BY SumRemove
<1>3. SumFunctionOnSet(g, S) = g[x] + SumFunctionOnSet(g, S \ {x})
  BY SumRemove
<1>4. SumFunctionOnSet(g, S \ {x}) = SumFunctionOnSet(f, S \ {x})
  BY <1>1, SumEqual
<1>5. SumFunctionOnSet(f, S \ {x}) \in Int
  BY <1>1, SumInt
<1>. QED  BY <1>2, <1>3, <1>4, <1>5

(* Elements whose value is zero do not matter.                             *)
LEMMA SumSupport ==
    ASSUME NEW S, IsFiniteSet(S), NEW T \in SUBSET S, NEW f,
           \A x \in T : f[x] \in Int, \A x \in S \ T : f[x] = 0
    PROVE  SumFunctionOnSet(f, S) = SumFunctionOnSet(f, T)
<1>. DEFINE Good == {U \in SUBSET (S \ T) :
                        SumFunctionOnSet(f, T \cup U) = SumFunctionOnSet(f, T)}
<1>1. {} \in Good
  <2>1. T \cup {} = T
    OBVIOUS
  <2>. QED  BY <2>1
<1>2. ASSUME NEW U \in SUBSET (S \ T), NEW x \in (S \ T) \ U, U \in Good
      PROVE  U \cup {x} \in Good
  <2>1. IsFiniteSet(T \cup U) /\ x \notin T \cup U
          /\ \A y \in (T \cup U) \cup {x} : f[y] \in Int
    BY FS_Subset
  <2>2. SumFunctionOnSet(f, (T \cup U) \cup {x}) = f[x] + SumFunctionOnSet(f, T \cup U)
    BY <2>1, SumAdd
  <2>3. T \cup (U \cup {x}) = (T \cup U) \cup {x} /\ f[x] = 0
    OBVIOUS
  <2>4. SumFunctionOnSet(f, T) \in Int
    BY FS_Subset, SumInt
  <2>s. SumFunctionOnSet(f, T \cup (U \cup {x})) = SumFunctionOnSet(f, (T \cup U) \cup {x})
    BY <2>3, Zenon
  <2>u. SumFunctionOnSet(f, T \cup U) = SumFunctionOnSet(f, T)
    BY <1>2
  <2>5. SumFunctionOnSet(f, T \cup (U \cup {x})) = SumFunctionOnSet(f, T)
    BY <2>s, <2>u, <2>2, <2>3, <2>4
  <2>6. U \cup {x} \in SUBSET (S \ T)
    OBVIOUS
  <2>. QED  BY <2>5, <2>6
<1>3. S \ T \in Good
  <2>1. IsFiniteSet(S \ T)
    BY FS_Difference
  <2>. HIDE DEF Good
  <2>. QED  BY <1>1, <1>2, <2>1, SetInduction
<1>4. T \cup (S \ T) = S
  OBVIOUS
<1>. QED  BY <1>3, <1>4

(* A value is at most the sum if none is negative.                         *)
LEMMA SumMember ==
    ASSUME NEW S, IsFiniteSet(S), NEW f, \A y \in S : f[y] \in Nat, NEW x \in S
    PROVE  f[x] <= SumFunctionOnSet(f, S)
<1>1. SumFunctionOnSet(f, S) = f[x] + SumFunctionOnSet(f, S \ {x})
  BY SumRemove
<1>2. SumFunctionOnSet(f, S \ {x}) \in Nat
  BY FS_RemoveElement, SumNat
<1>. QED  BY <1>1, <1>2

(* The same numbers under other indices, one for one.                      *)
LEMMA SumReindex ==
    ASSUME NEW S, IsFiniteSet(S), NEW h, NEW f, NEW g,
           \A x \in S : f[x] \in Int /\ g[h[x]] = f[x],
           \A x, y \in S : h[x] = h[y] => x = y
    PROVE  SumFunctionOnSet(g, {h[x] : x \in S}) = SumFunctionOnSet(f, S)
<1>. DEFINE Image(T) == {h[x] : x \in T}
            Good == {T \in SUBSET S :
                        /\ IsFiniteSet(Image(T))
                        /\ SumFunctionOnSet(g, Image(T)) = SumFunctionOnSet(f, T)}
<1>1. {} \in Good
  <2>1. Image({}) = {}
    OBVIOUS
  <2>. QED  BY <2>1, SumEmpty, FS_EmptySet
<1>2. ASSUME NEW T \in SUBSET S, NEW x \in S \ T, T \in Good
      PROVE  T \cup {x} \in Good
  <2>1. IsFiniteSet(T) /\ \A y \in T \cup {x} : f[y] \in Int
    BY FS_Subset
  <2>2. Image(T \cup {x}) = Image(T) \cup {h[x]} /\ h[x] \notin Image(T)
    OBVIOUS
  <2>3. IsFiniteSet(Image(T)) /\ \A y \in Image(T) \cup {h[x]} : g[y] \in Int
    BY <1>2
  <2>4. SumFunctionOnSet(f, T \cup {x}) = f[x] + SumFunctionOnSet(f, T)
    BY <2>1, SumAdd
  <2>. HIDE DEF Image
  <2>5. SumFunctionOnSet(g, Image(T) \cup {h[x]}) = g[h[x]] + SumFunctionOnSet(g, Image(T))
    BY <2>2, <2>3, SumAdd
  <2>6. IsFiniteSet(Image(T) \cup {h[x]})
    BY <2>3, FS_AddElement
  <2>. QED  BY <1>2, <2>2, <2>4, <2>5, <2>6
<1>3. S \in Good
  <2>. HIDE DEF Good
  <2>. QED  BY <1>1, <1>2, SetInduction
<1>. QED  BY <1>3

----------------------------------------------------------------------------
(* The recursion behind FoldLeft on a sequence of length n: a function on  *)
(* the subsets of 1..n that takes the greatest index off first.            *)

LEMMA MaxOfMore ==
    ASSUME NEW n \in Nat, NEW s \in SUBSET (1..n + 1), n + 1 \in s
    PROVE  Max(s) = n + 1
<1>1. \A x \in s : x \in Int /\ x <= n + 1
  OBVIOUS
<1>2. \A x \in s : (\A y \in s : x >= y) => x = n + 1
  BY <1>1
<1>3. \A y \in s : n + 1 >= y
  BY <1>1
<1>. QED  BY <1>2, <1>3 DEF Max

LEMMA WithoutMax ==
    ASSUME NEW n \in Nat, NEW s \in SUBSET (1..n + 1)
    PROVE  s \ {Max(s)} \in SUBSET (1..n)
<1>1. PICK x : x = Max(s)
  OBVIOUS
<1>2. n + 1 \in s => x = n + 1
  BY <1>1, MaxOfMore
<1>3. \A y \in s \ {x} : y # n + 1 /\ y \in 1..n + 1
  BY <1>2
<1>4. \A y \in s \ {x} : y \in 1..n
  BY <1>3
<1>. QED  BY <1>1, <1>4

LEMMA Prefix ==
    ASSUME NEW i \in Nat
    PROVE  (1..i + 1) # {} /\ Max(1..i + 1) = i + 1 /\ (1..i + 1) \ {i + 1} = 1..i
<1>1. i + 1 \in 1..i + 1 /\ (1..i + 1) \in SUBSET (1..i + 1)
  OBVIOUS
<1>2. Max(1..i + 1) = i + 1
  BY <1>1, MaxOfMore
<1>3. \A x : x \in (1..i + 1) \ {i + 1} <=> x \in 1..i
  OBVIOUS
<1>. QED  BY <1>1, <1>2, <1>3

LEMMA MaxOfSome ==
    \A n \in Nat : \A s \in SUBSET (1..n) : s # {} => Max(s) \in s
<1>. DEFINE Good == {n \in Nat : \A s \in SUBSET (1..n) :
                         s # {} => \E x \in s : \A y \in s : x >= y}
<1>1. 0 \in Good
  <2>1. (1..0) = {}
    OBVIOUS
  <2>. QED  BY <2>1
<1>2. ASSUME NEW n \in Nat, n \in Good PROVE n + 1 \in Good
  <2>. SUFFICES ASSUME NEW s \in SUBSET (1..n + 1), s # {}
                PROVE  \E x \in s : \A y \in s : x >= y
    OBVIOUS
  <2>1. \A y \in s : y \in Int /\ n + 1 >= y
    OBVIOUS
  <2>2. CASE n + 1 \in s
    BY <2>1, <2>2
  <2>3. CASE n + 1 \notin s
    <3>1. \A y \in s : y \in 1..n
      BY <2>1, <2>3
    <3>. QED  BY <1>2, <3>1
  <2>. QED  BY <2>2, <2>3
<1>3. Nat \subseteq Good
  <2>. HIDE DEF Good
  <2>. QED  BY <1>1, <1>2, NatSetInduction
<1>4. ASSUME NEW n \in Nat, NEW s \in SUBSET (1..n), s # {} PROVE Max(s) \in s
  <2>1. \E x \in s : \A y \in s : x >= y
    BY <1>3, <1>4
  <2>. QED  BY <2>1, Zenon DEF Max
<1>. QED  BY <1>4

(* A fold that adds w[i] for every index i.                                *)
Adds(iter, base, w, n) ==
    iter = [s \in SUBSET (1..n) |->
               IF s = {} THEN base ELSE iter[s \ {Max(s)}] + w[Max(s)]]

LEMMA AddsEmpty ==
    ASSUME NEW iter, NEW base, NEW w, NEW n, Adds(iter, base, w, n)
    PROVE  iter[{}] = base
  BY DEF Adds

LEMMA AddsStep ==
    ASSUME NEW iter, NEW base, NEW w, NEW n, Adds(iter, base, w, n),
           NEW s \in SUBSET (1..n), s # {}
    PROVE  iter[s] = iter[s \ {Max(s)}] + w[Max(s)]
  BY Zenon DEF Adds

LEMMA AddsExtend ==
    ASSUME NEW iter, NEW base, NEW w, NEW n \in Nat, Adds(iter, base, w, n)
    PROVE  \E j : Adds(j, base, w, n + 1)
<1>. DEFINE step(s) == iter[s \ {Max(s)}] + w[Max(s)]
            j == [s \in SUBSET (1..n + 1) |-> IF s = {} THEN base ELSE step(s)]
            j2 == [s \in SUBSET (1..n + 1) |->
                      IF s = {} THEN base ELSE j[s \ {Max(s)}] + w[Max(s)]]
<1>1. ASSUME NEW s \in SUBSET (1..n) PROVE j[s] = iter[s]
  <2>1. s \in SUBSET (1..n + 1)
    OBVIOUS
  <2>2. CASE s = {}
    <3>1. iter[{}] = base
      BY AddsEmpty
    <3>2. j[s] = base
      BY <2>1, <2>2, Zenon
    <3>. QED  BY <2>2, <3>1, <3>2, Zenon
  <2>3. CASE s # {}
    <3>1. iter[s] = step(s)
      BY <2>3, AddsStep
    <3>. QED  BY <2>1, <2>3, <3>1
  <2>. QED  BY <2>2, <2>3
<1>2. ASSUME NEW s \in SUBSET (1..n + 1) PROVE j[s \ {Max(s)}] = iter[s \ {Max(s)}]
  BY <1>1, WithoutMax
<1>3. j = j2
  BY <1>2, Zenon
<1>. QED  BY <1>3, Zenon DEF Adds

LEMMA AddsExist ==
    ASSUME NEW base, NEW w
    PROVE  \A n \in Nat : \E iter : Adds(iter, base, w, n)
<1>. DEFINE Good == {n \in Nat : \E iter : Adds(iter, base, w, n)}
<1>1. 0 \in Good
  <2>. DEFINE iter == [s \in SUBSET (1..0) |-> base]
  <2>1. \A s \in SUBSET (1..0) : s = {}
    OBVIOUS
  <2>2. iter = [s \in SUBSET (1..0) |->
                   IF s = {} THEN base ELSE iter[s \ {Max(s)}] + w[Max(s)]]
    BY <2>1, Zenon
  <2>. HIDE DEF iter
  <2>3. Adds(iter, base, w, 0)
    BY <2>2, Zenon DEF Adds
  <2>. QED  BY <2>3
<1>2. \A n \in Nat : n \in Good => n + 1 \in Good
  BY AddsExtend
<1>3. Nat \subseteq Good
  <2>. HIDE DEF Good
  <2>. QED  BY <1>1, <1>2, NatSetInduction
<1>. QED  BY <1>3

LEMMA AddsNat ==
    ASSUME NEW iter, NEW base \in Nat, NEW w, NEW n \in Nat, Adds(iter, base, w, n),
           \A i \in 1..n : w[i] \in Nat
    PROVE  iter[1..n] \in Nat
<1>. DEFINE Good == {i \in Nat : i <= n => iter[1..i] \in Nat}
<1>1. 0 \in Good
  <2>1. (1..0) = {}
    OBVIOUS
  <2>. QED  BY <2>1, AddsEmpty
<1>2. ASSUME NEW i \in Nat, i \in Good PROVE i + 1 \in Good
  <2>. SUFFICES ASSUME i + 1 <= n PROVE iter[1..i + 1] \in Nat
    OBVIOUS
  <2>1. iter[1..i] \in Nat /\ w[i + 1] \in Nat
    BY <1>2
  <2>2. PICK s \in SUBSET (1..n) : s = 1..i + 1
    OBVIOUS
  <2>3. s # {} /\ Max(s) = i + 1 /\ s \ {i + 1} = 1..i
    BY <2>2, Prefix
  <2>4. iter[s] = iter[s \ {Max(s)}] + w[Max(s)]
    BY <2>3, AddsStep
  <2>5. iter[s] = iter[1..i] + w[i + 1]
    BY <2>3, <2>4, Zenon
  <2>. QED  BY <2>1, <2>2, <2>5
<1>3. Nat \subseteq Good
  <2>. HIDE DEF Good
  <2>. QED  BY <1>1, <1>2, NatSetInduction
<1>4. n \in Good
  BY <1>3
<1>. QED  BY <1>4

============================================================================
