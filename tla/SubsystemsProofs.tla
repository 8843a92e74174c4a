-------------------------- MODULE SubsystemsProofs --------------------------
(***************************************************************************)
(* The smaller parts of the service: access pages, franchise leads, store  *)
(* openings, the loop of the workers, merchants of the point of sale, the  *)
(* import and the backfill of the old data, the synchronisation with the   *)
(* bank, the split of an order's total, what a store lost and the          *)
(* deployment of releases.  Every section proves the properties of one     *)
(* module from an inductive invariant, for any values of its constants.    *)
(***************************************************************************)
EXTENDS AccessPolicy, Leads, Openings, WorkerRuntime, PosSales,
        LegacyImport, LegacyBackfill, BankSync, Money, LossReports, Releases,
        FiniteSets, FiniteSetsExt, FiniteSetTheorems, SequenceTheorems, WellFoundedInduction, TLAPS

-----------------------------------------------------------------------------
(***************************************************************************)
(* Numbers and sums.                                                       *)
(*                                                                         *)
(* The least and the largest number of a set, and sums over finite sets,   *)
(* which the reports, the backfill and the split of an order's total are   *)
(* made of.  Induction is over the parts of a finite set, with the claim   *)
(* given as the set of those it holds of.                                  *)
(***************************************************************************)

(* Every set of numbers that is not empty has a least one, and one that is *)
(* bounded a largest.                                                      *)
LEMMA LeastNumber ==
    ASSUME NEW T \in SUBSET Nat, T # {}
    PROVE  \E x \in T : \A y \in T : x <= y
<1>1. PICK x \in T : \A y \in T : ~ (<<y, x>> \in OpToRel(<, Nat))
  BY NatLessThanWellFounded, WFMin
<1>2. \A y \in T : ~ (y < x)
  BY <1>1 DEF OpToRel
<1> QED BY <1>2

LEMMA LargestNumber ==
    ASSUME NEW T \in SUBSET Nat, T # {}, NEW n \in Nat, \A y \in T : y <= n
    PROVE  \E x \in T : \A y \in T : x >= y
<1> DEFINE D == {n - y : y \in T}
<1>1. D \in SUBSET Nat
  OBVIOUS
<1>2. D # {}
  OBVIOUS
<1>3. PICK d \in D : \A e \in D : d <= e
  BY <1>1, <1>2, LeastNumber
<1>4. PICK x \in T : d = n - x
  OBVIOUS
<1>5. ASSUME NEW y \in T PROVE x >= y
  <2>1. n - y \in D
    OBVIOUS
  <2> QED BY <1>3, <1>4, <2>1
<1> QED BY <1>5

-----------------------------------------------------------------------------
(* Induction over finite sets: what holds of a set whenever it holds of    *)
(* its proper subsets, holds.  The claim is given as the set of those it   *)
(* holds of.                                                               *)
LEMMA SubsetInduction ==
    ASSUME NEW S, IsFiniteSet(S), NEW Good,
           \A T \in SUBSET S : (\A U \in SUBSET T : U # T => U \in Good) => T \in Good
    PROVE  S \in Good
<1> SUFFICES ASSUME S \notin Good PROVE FALSE
  OBVIOUS
<1> DEFINE Bad == {T \in SUBSET S : T \notin Good}
<1>1. Bad \subseteq FiniteSubsetsOf(S) /\ Bad # {}
  BY FS_Subset DEF FiniteSubsetsOf
<1>2. PICK T \in Bad : \A U \in Bad : ~ (<<U, T>> \in StrictSubsetOrdering(S))
  <2> HIDE DEF Bad
  <2> QED BY <1>1, FS_StrictSubsetOrderingWellFounded, WFMin
<1>3. \A U \in SUBSET T : U # T => U \in Good
  BY <1>2 DEF StrictSubsetOrdering
<1> QED BY <1>2, <1>3

-----------------------------------------------------------------------------
(* The function by which the elements of a set are added up one by one.    *)
Pick(s) == CHOOSE x \in s : TRUE
Summing(h, g, S) ==
    h = [s \in SUBSET S |-> IF s = {} THEN 0 ELSE g[Pick(s)] + h[s \ {Pick(s)}]]
SumOf(g, S) == (CHOOSE h : Summing(h, g, S))[S]

LEMMA Picked == ASSUME NEW s, s # {} PROVE Pick(s) \in s /\ s \ {Pick(s)} # s
BY DEF Pick

(* There is at most one way.                                               *)
LEMMA SumsAgree ==
    ASSUME NEW g, NEW S1, NEW S2, NEW h1, NEW h2, Summing(h1, g, S1), Summing(h2, g, S2),
           NEW S, IsFiniteSet(S), S \subseteq S1, S \subseteq S2
    PROVE  h1[S] = h2[S]
<1> DEFINE Good == {T \in SUBSET S : h1[T] = h2[T]}
<1>1. ASSUME NEW T \in SUBSET S, \A U \in SUBSET T : U # T => U \in Good
      PROVE  T \in Good
  <2>1. CASE T = {}
    BY <2>1 DEF Summing
  <2>2. CASE T # {}
    <3>1. PICK x \in T : x = Pick(T) /\ T \ {x} # T
      BY <2>2, Picked
    <3>2. h1[T \ {x}] = h2[T \ {x}]
      BY <1>1, <3>1
    <3>3. h1[T] = g[x] + h1[T \ {x}] /\ h2[T] = g[x] + h2[T \ {x}]
      BY <2>2, <3>1 DEF Summing
    <3> QED BY <3>2, <3>3
  <2> QED BY <2>1, <2>2
<1>2. S \in Good
  <2> HIDE DEF Good
  <2> QED BY <1>1, SubsetInduction
<1> QED BY <1>2

(* There is one.                                                           *)
LEMMA SumExists ==
    ASSUME NEW g, NEW S, IsFiniteSet(S)
    PROVE  \E h : Summing(h, g, S)
<1> DEFINE Good == {T \in SUBSET S : \E h : Summing(h, g, T)}
<1>1. ASSUME NEW T \in SUBSET S, \A U \in SUBSET T : U # T => U \in Good
      PROVE  T \in Good
  <2> DEFINE h == [s \in SUBSET T |-> IF s = {} THEN 0
                                      ELSE g[Pick(s)] + SumOf(g, s \ {Pick(s)})]
  <2>1. ASSUME NEW s \in SUBSET T, s # {}
        PROVE  h[s \ {Pick(s)}] = SumOf(g, s \ {Pick(s)})
    <3>1. PICK u : u = s \ {Pick(s)}
      OBVIOUS
    <3>2. u \in SUBSET T /\ u # T /\ IsFiniteSet(u)
      BY <2>1, <3>1, Picked, FS_Subset
    <3>3. PICK k : k = CHOOSE l : Summing(l, g, u)
      OBVIOUS
    <3>4. Summing(k, g, u)
      BY <1>1, <3>2, <3>3
    <3>5. SumOf(g, u) = k[u]
      BY <3>3 DEF SumOf
    <3>6. CASE u = {}
      <4>1. k[u] = 0
        BY <3>4, <3>6 DEF Summing
      <4> QED BY <3>1, <3>2, <3>5, <3>6, <4>1
    <3>7. CASE u # {}
      <4>1. PICK v : v = u \ {Pick(u)}
        OBVIOUS
      <4>2. v \in SUBSET u /\ v # T /\ v \in SUBSET T /\ IsFiniteSet(v)
        BY <3>2, <3>7, <4>1, Picked, FS_Subset
      <4>3. k[u] = g[Pick(u)] + k[v]
        BY <3>4, <3>7, <4>1 DEF Summing
      <4>4. PICK l : l = CHOOSE m : Summing(m, g, v)
        OBVIOUS
      <4>5. Summing(l, g, v)
        BY <1>1, <4>2, <4>4
      <4>6. SumOf(g, v) = l[v]
        BY <4>4 DEF SumOf
      <4>7. k[v] = l[v]
        BY <3>4, <4>2, <4>5, SumsAgree
      <4>8. h[u] = g[Pick(u)] + SumOf(g, v)
        BY <3>2, <3>7, <4>1
      <4> QED BY <3>1, <3>5, <4>3, <4>6, <4>7, <4>8
    <3> QED BY <3>6, <3>7
  <2>2. Summing(h, g, T)
    <3>1. \A s \in SUBSET T : (IF s = {} THEN 0 ELSE g[Pick(s)] + SumOf(g, s \ {Pick(s)}))
                              = (IF s = {} THEN 0 ELSE g[Pick(s)] + h[s \ {Pick(s)}])
      BY <2>1
    <3> QED BY <3>1, Zenon DEF Summing
  <2> QED BY <2>2
<1>2. S \in Good
  <2> HIDE DEF Good
  <2> QED BY <1>1, SubsetInduction
<1> QED BY <1>2

LEMMA SumIsSumming ==
    ASSUME NEW g, NEW S, IsFiniteSet(S), NEW h, Summing(h, g, S)
    PROVE  h[S] = SumOf(g, S)
<1>1. PICK k : k = CHOOSE l : Summing(l, g, S)
  OBVIOUS
<1>2. Summing(k, g, S)
  BY <1>1
<1> QED BY <1>1, <1>2, SumsAgree DEF SumOf

LEMMA SumEmpty == ASSUME NEW g PROVE SumOf(g, {}) = 0
<1>1. PICK h : Summing(h, g, {})
  BY FS_EmptySet, SumExists
<1>2. h[{}] = 0
  BY <1>1 DEF Summing
<1> QED BY <1>1, <1>2, FS_EmptySet, SumIsSumming

LEMMA SumFirst ==
    ASSUME NEW g, NEW S, IsFiniteSet(S), S # {}
    PROVE  SumOf(g, S) = g[Pick(S)] + SumOf(g, S \ {Pick(S)})
<1>1. PICK h : Summing(h, g, S)
  BY SumExists
<1>2. PICK T : T = S \ {Pick(S)}
  OBVIOUS
<1>3. IsFiniteSet(T) /\ T \in SUBSET S
  BY <1>2, FS_Subset
<1>4. h[S] = g[Pick(S)] + h[T]
  BY <1>1, <1>2 DEF Summing
<1>5. PICK k : Summing(k, g, T)
  BY <1>3, SumExists
<1>6. h[T] = k[T]
  BY <1>1, <1>3, <1>5, SumsAgree
<1> QED BY <1>1, <1>2, <1>3, <1>4, <1>5, <1>6, SumIsSumming

-----------------------------------------------------------------------------
(* Whole numbers have a whole sum, whichever is taken first.               *)
LEMMA SumType ==
    ASSUME NEW S, IsFiniteSet(S), NEW g, \A x \in S : g[x] \in Int
    PROVE  SumOf(g, S) \in Int
<1> DEFINE Good == {T \in SUBSET S : SumOf(g, T) \in Int}
<1>1. ASSUME NEW T \in SUBSET S, \A U \in SUBSET T : U # T => U \in Good
      PROVE  T \in Good
  <2>1. CASE T = {}
    BY <2>1, SumEmpty
  <2>2. CASE T # {}
    <3>1. IsFiniteSet(T)
      BY FS_Subset
    <3>2. PICK x \in T : x = Pick(T) /\ T \ {x} # T
      BY <2>2, Picked
    <3>3. SumOf(g, T) = g[x] + SumOf(g, T \ {x})
      BY <2>2, <3>1, <3>2, SumFirst
    <3> QED BY <1>1, <3>2, <3>3
  <2> QED BY <2>1, <2>2
<1>2. S \in Good
  <2> HIDE DEF Good
  <2> QED BY <1>1, SubsetInduction
<1> QED BY <1>2

LEMMA SumAny ==
    ASSUME NEW S, IsFiniteSet(S), NEW g, \A y \in S : g[y] \in Int, NEW x \in S
    PROVE  SumOf(g, S) = g[x] + SumOf(g, S \ {x})
<1> DEFINE Good == {T \in SUBSET S : \A z \in T : SumOf(g, T) = g[z] + SumOf(g, T \ {z})}
<1>1. ASSUME NEW T \in SUBSET S, \A U \in SUBSET T : U # T => U \in Good
      PROVE  T \in Good
  <2> SUFFICES ASSUME NEW z \in T PROVE SumOf(g, T) = g[z] + SumOf(g, T \ {z})
    OBVIOUS
  <2>1. IsFiniteSet(T)
    BY FS_Subset
  <2>2. PICK p \in T : p = Pick(T) /\ T \ {p} # T
    BY Picked
  <2>3. SumOf(g, T) = g[p] + SumOf(g, T \ {p})
    BY <2>1, <2>2, SumFirst
  <2>4. CASE z = p
    BY <2>3, <2>4
  <2>5. CASE z # p
    <3>1. SumOf(g, T \ {p}) = g[z] + SumOf(g, (T \ {p}) \ {z})
      BY <1>1, <2>2, <2>5
    <3>2. SumOf(g, T \ {z}) = g[p] + SumOf(g, (T \ {z}) \ {p})
      BY <1>1, <2>2, <2>5
    <3>3. PICK R : R = T \ {p, z}
      OBVIOUS
    <3>4. (T \ {p}) \ {z} = R /\ (T \ {z}) \ {p} = R
      BY <3>3
    <3>5. IsFiniteSet(R) /\ \A y \in R : g[y] \in Int
      BY <2>1, <3>3, FS_Subset
    <3>6. SumOf(g, R) \in Int /\ g[p] \in Int /\ g[z] \in Int
      BY <3>5, SumType
    <3>7. PICK r \in Int, a \in Int, b \in Int : r = SumOf(g, R) /\ a = g[p] /\ b = g[z]
      BY <3>6
    <3>8. SumOf(g, T \ {p}) = b + r /\ SumOf(g, T \ {z}) = a + r
      BY <3>1, <3>2, <3>4, <3>7
    <3>9. SumOf(g, T) = a + (b + r)
      BY <2>3, <3>7, <3>8
    <3> QED BY <3>7, <3>8, <3>9
  <2> QED BY <2>4, <2>5
<1>2. S \in Good
  <2> HIDE DEF Good
  <2> QED BY <1>1, SubsetInduction
<1> QED BY <1>2

LEMMA SumMore ==
    ASSUME NEW S, IsFiniteSet(S), NEW g, NEW x, x \notin S, \A y \in S \union {x} : g[y] \in Int
    PROVE  SumOf(g, S \union {x}) = g[x] + SumOf(g, S)
<1>1. PICK T : T = S \union {x}
  OBVIOUS
<1>2. IsFiniteSet(T) /\ x \in T /\ T \ {x} = S
  BY <1>1, FS_AddElement
<1>3. SumOf(g, T) = g[x] + SumOf(g, T \ {x})
  BY <1>1, <1>2, SumAny
<1> QED BY <1>1, <1>2, <1>3

(* Sums over sets that have nothing in common.                             *)
LEMMA SumUnion ==
    ASSUME NEW S, IsFiniteSet(S), NEW R, IsFiniteSet(R), S \intersect R = {},
           NEW g, \A y \in S \union R : g[y] \in Int
    PROVE  SumOf(g, S \union R) = SumOf(g, S) + SumOf(g, R)
<1> DEFINE Good == {T \in SUBSET S : SumOf(g, T \union R) = SumOf(g, T) + SumOf(g, R)}
<1>1. ASSUME NEW T \in SUBSET S, \A U \in SUBSET T : U # T => U \in Good
      PROVE  T \in Good
  <2>1. SumOf(g, R) \in Int
    BY SumType
  <2>2. CASE T = {}
    <3>1. T \union R = R /\ SumOf(g, T) = 0
      BY <2>2, SumEmpty
    <3>2. SumOf(g, T \union R) = SumOf(g, R)
      BY <3>1
    <3>3. SumOf(g, R) = 0 + SumOf(g, R)
      BY <2>1
    <3> QED BY <3>1, <3>2, <3>3
  <2>3. CASE T # {}
    <3>1. PICK x \in T : TRUE
      BY <2>3
    <3>2. PICK U : U = T \ {x}
      OBVIOUS
    <3>3. U \in SUBSET T /\ U # T /\ IsFiniteSet(U) /\ IsFiniteSet(T)
      BY <3>1, <3>2, FS_Subset
    <3>4. SumOf(g, U \union R) = SumOf(g, U) + SumOf(g, R)
      BY <1>1, <3>3
    <3>5. SumOf(g, T) = g[x] + SumOf(g, U)
      BY <3>1, <3>2, <3>3, SumAny
    <3>6. IsFiniteSet(T \union R) /\ (T \union R) \ {x} = U \union R
      BY <3>1, <3>2, <3>3, FS_Union
    <3>7. SumOf(g, T \union R) = g[x] + SumOf(g, U \union R)
      <4>1. \A y \in T \union R : g[y] \in Int
        OBVIOUS
      <4> QED BY <3>1, <3>6, <4>1, SumAny
    <3>8. SumOf(g, U) \in Int /\ g[x] \in Int
      BY <3>1, <3>3, SumType
    <3>9. PICK a \in Int, u \in Int, r \in Int : a = g[x] /\ u = SumOf(g, U) /\ r = SumOf(g, R)
      BY <2>1, <3>8
    <3>10. SumOf(g, T) = a + u /\ SumOf(g, T \union R) = a + (u + r)
      BY <3>4, <3>5, <3>7, <3>9
    <3> QED BY <3>9, <3>10
  <2> QED BY <2>2, <2>3
<1>2. S \in Good
  <2> HIDE DEF Good
  <2> QED BY <1>1, SubsetInduction
<1> QED BY <1>2

(* Sums of smaller numbers are smaller; of two columns, the sum of sums.   *)
LEMMA SumMonotone ==
    ASSUME NEW S, IsFiniteSet(S), NEW f, NEW g, \A x \in S : f[x] \in Int /\ g[x] \in Int /\ f[x] <= g[x]
    PROVE  SumOf(f, S) <= SumOf(g, S)
<1> DEFINE Good == {T \in SUBSET S : SumOf(f, T) <= SumOf(g, T)}
<1>1. ASSUME NEW T \in SUBSET S, \A U \in SUBSET T : U # T => U \in Good
      PROVE  T \in Good
  <2>1. CASE T = {}
    BY <2>1, SumEmpty
  <2>2. CASE T # {}
    <3>1. PICK x \in T : TRUE
      BY <2>2
    <3>2. PICK U : U = T \ {x}
      OBVIOUS
    <3>3. U \in SUBSET T /\ U # T /\ IsFiniteSet(U) /\ IsFiniteSet(T)
      BY <3>1, <3>2, FS_Subset
    <3>4. SumOf(f, T) = f[x] + SumOf(f, U) /\ SumOf(g, T) = g[x] + SumOf(g, U)
      BY <3>1, <3>2, <3>3, SumAny
    <3>5. SumOf(f, U) \in Int /\ SumOf(g, U) \in Int
      BY <3>3, SumType
    <3>6. SumOf(f, U) <= SumOf(g, U)
      BY <1>1, <3>3
    <3>7. f[x] \in Int /\ g[x] \in Int /\ f[x] <= g[x]
      BY <3>1
    <3> QED BY <3>4, <3>5, <3>6, <3>7
  <2> QED BY <2>1, <2>2
<1>2. S \in Good
  <2> HIDE DEF Good
  <2> QED BY <1>1, SubsetInduction
<1> QED BY <1>2

LEMMA SumOfSums ==
    ASSUME NEW S, IsFiniteSet(S), NEW f, NEW g, NEW h,
           \A x \in S : f[x] \in Int /\ g[x] \in Int /\ h[x] = f[x] + g[x]
    PROVE  SumOf(h, S) = SumOf(f, S) + SumOf(g, S)
<1> DEFINE Good == {T \in SUBSET S : SumOf(h, T) = SumOf(f, T) + SumOf(g, T)}
<1>1. ASSUME NEW T \in SUBSET S, \A U \in SUBSET T : U # T => U \in Good
      PROVE  T \in Good
  <2>1. CASE T = {}
    BY <2>1, SumEmpty
  <2>2. CASE T # {}
    <3>1. PICK x \in T : TRUE
      BY <2>2
    <3>2. PICK U : U = T \ {x}
      OBVIOUS
    <3>3. U \in SUBSET T /\ U # T /\ IsFiniteSet(U) /\ IsFiniteSet(T)
      BY <3>1, <3>2, FS_Subset
    <3>4. \A y \in T : f[y] \in Int /\ g[y] \in Int /\ h[y] \in Int /\ h[y] = f[y] + g[y]
      OBVIOUS
    <3>5. /\ SumOf(f, T) = f[x] + SumOf(f, U) /\ SumOf(g, T) = g[x] + SumOf(g, U)
          /\ SumOf(h, T) = h[x] + SumOf(h, U)
      BY <3>1, <3>2, <3>3, <3>4, SumAny
    <3>6. SumOf(f, U) \in Int /\ SumOf(g, U) \in Int
      BY <3>3, SumType
    <3>7. SumOf(h, U) = SumOf(f, U) + SumOf(g, U)
      BY <1>1, <3>3
    <3>8. PICK a \in Int, b \in Int, u \in Int, v \in Int :
             a = f[x] /\ b = g[x] /\ u = SumOf(f, U) /\ v = SumOf(g, U)
      BY <3>4, <3>6
    <3>9. SumOf(f, T) = a + u /\ SumOf(g, T) = b + v /\ SumOf(h, T) = (a + b) + (u + v)
      BY <3>1, <3>4, <3>5, <3>7, <3>8
    <3> QED BY <3>8, <3>9
  <2> QED BY <2>1, <2>2
<1>2. S \in Good
  <2> HIDE DEF Good
  <2> QED BY <1>1, SubsetInduction
<1> QED BY <1>2

(* A bound for each makes a bound for the sum.                             *)
LEMMA SumBounded ==
    ASSUME NEW S, IsFiniteSet(S), NEW f, NEW b \in Int, \A x \in S : f[x] \in Int /\ f[x] <= b
    PROVE  SumOf(f, S) <= b * Cardinality(S)
<1> DEFINE Good == {T \in SUBSET S : SumOf(f, T) <= b * Cardinality(T)}
<1>1. ASSUME NEW T \in SUBSET S, \A U \in SUBSET T : U # T => U \in Good
      PROVE  T \in Good
  <2>1. CASE T = {}
    <3>1. b * 0 = 0
      OBVIOUS
    <3> QED BY <2>1, <3>1, SumEmpty, FS_EmptySet
  <2>2. CASE T # {}
    <3>1. PICK x \in T : TRUE
      BY <2>2
    <3>2. PICK U : U = T \ {x}
      OBVIOUS
    <3>3. U \in SUBSET T /\ U # T /\ IsFiniteSet(U) /\ IsFiniteSet(T)
      BY <3>1, <3>2, FS_Subset
    <3>4. SumOf(f, T) = f[x] + SumOf(f, U)
      BY <3>1, <3>2, <3>3, SumAny
    <3>5. SumOf(f, U) \in Int
      BY <3>3, SumType
    <3>6. PICK n \in Nat : n = Cardinality(U) /\ Cardinality(T) = n + 1
      BY <3>1, <3>2, <3>3, FS_RemoveElement, FS_CardinalityType
    <3>7. SumOf(f, U) <= b * n
      BY <1>1, <3>3, <3>6
    <3>8. f[x] \in Int /\ f[x] <= b
      BY <3>1
    <3>9. b * (n + 1) = b * n + b /\ b * n \in Int
      OBVIOUS
    <3> QED BY <3>4, <3>5, <3>6, <3>7, <3>8, <3>9
  <2> QED BY <2>1, <2>2
<1>2. S \in Good
  <2> HIDE DEF Good
  <2> QED BY <1>1, SubsetInduction
<1> QED BY <1>2

(* Only what differs from nothing counts.                                  *)
LEMMA SumZero ==
    ASSUME NEW S, IsFiniteSet(S), NEW f, \A x \in S : f[x] = 0
    PROVE  SumOf(f, S) = 0
<1> DEFINE Good == {T \in SUBSET S : SumOf(f, T) = 0}
<1>1. ASSUME NEW T \in SUBSET S, \A U \in SUBSET T : U # T => U \in Good
      PROVE  T \in Good
  <2>1. CASE T = {}
    BY <2>1, SumEmpty
  <2>2. CASE T # {}
    <3>1. PICK x \in T : TRUE
      BY <2>2
    <3>2. IsFiniteSet(T) /\ T \ {x} \in SUBSET T /\ T \ {x} # T /\ \A y \in T : f[y] \in Int
      BY <3>1, FS_Subset
    <3>3. SumOf(f, T) = f[x] + SumOf(f, T \ {x})
      BY <3>1, <3>2, SumAny
    <3> QED BY <1>1, <3>1, <3>2, <3>3
  <2> QED BY <2>1, <2>2
<1>2. S \in Good
  <2> HIDE DEF Good
  <2> QED BY <1>1, SubsetInduction
<1> QED BY <1>2

-----------------------------------------------------------------------------
(***************************************************************************)
(* AccessPolicy: a saved choice holds until it is changed.                 *)
(*                                                                         *)
(* A request writes the document it read with its own part changed, and the*)
(* commit lets it when the document is still the one it read.              *)
(***************************************************************************)

(* The documents and the requests, by the fields that saving looks at.     *)
Document(p) ==
    /\ p = [version |-> p.version, rolePages |-> p.rolePages, actorPages |-> p.actorPages,
            menuOrder |-> p.menuOrder, knownPaths |-> p.knownPaths]
    /\ p.version \in Nat
    /\ DOMAIN p.rolePages = AcctRoles /\ DOMAIN p.actorPages = Accts

(* What a request read is the document, or an older one.                   *)
ReadBefore(p) == Document(p) /\ p.version <= policy.version
                 /\ (p.version = policy.version => p = policy)

(* What it writes differs from what it read in its own part.               *)
OnePart(subject, current, next) ==
    /\ Document(next) /\ next.version = current.version + 1
    /\ \/ /\ subject.kind = "order"
          /\ next.rolePages = current.rolePages /\ next.actorPages = current.actorPages
       \/ /\ subject.kind = "role" /\ subject.of \in AcctRoles
          /\ next.rolePages = [current.rolePages EXCEPT ![subject.of] = next.rolePages[subject.of]]
          /\ next.actorPages = current.actorPages /\ next.menuOrder = current.menuOrder
       \/ /\ subject.kind = "actor" /\ subject.of \in Accts
          /\ next.rolePages = current.rolePages /\ next.menuOrder = current.menuOrder
          /\ next.actorPages = [current.actorPages EXCEPT ![subject.of] = next.actorPages[subject.of]]

SaveHonest(r) ==
    /\ r.at \in {"idle", "read", "commit"}
    /\ r.at # "idle" => ReadBefore(r.current)
    /\ r.at = "read" => \/ r.target.kind = "role" /\ r.target.of \in AcctRoles
                        \/ r.target.kind = "actor" /\ r.target.of \in Accts
    /\ r.at = "commit" => OnePart(r.target, r.current, r.next)

AccessInv ==
    /\ Document(policy)
    /\ DOMAIN save = Savers /\ \A s \in Savers : SaveHonest(save[s])
    /\ SavedChoicesHold

LEMMA BeginOrderWrites ==
    ASSUME NEW s \in Savers, BeginOrder(s)
    PROVE  \E order : save' = [save EXCEPT ![s] =
              [at |-> "commit", target |-> [kind |-> "order"], current |-> policy,
               next |-> [policy EXCEPT !.version = @ + 1, !.menuOrder = order,
                           !.knownPaths = Listed(Catalogue)]]]
BY DEF BeginOrder

LEMMA AccessInitHolds == AccessInit => AccessInv
<1> SUFFICES ASSUME AccessInit PROVE AccessInv
    OBVIOUS
<1>1. Document(NoPolicy)
    BY DEF Document, NoPolicy
<1>2. ASSUME NEW r \in AcctRoles, NEW pages \in PageChoices
      PROVE  Document(OldPolicy(r, pages))
  <2>1. PICK x : x = sanitizePages(r, pages)
      OBVIOUS
  <2>2. PICK none : none = [q \in AcctRoles |-> Unset]
      OBVIOUS
  <2>3. PICK old : old = [none EXCEPT ![r] = x]
      OBVIOUS
  <2>4. PICK actorPages : actorPages = [a \in Accts |-> Unset]
      OBVIOUS
  <2>5. NoPolicy = [version |-> 0, rolePages |-> none, actorPages |-> actorPages,
                    menuOrder |-> <<>>, knownPaths |-> {}]
      BY <2>2, <2>4 DEF NoPolicy
  <2>6. OldPolicy(r, pages) = [NoPolicy EXCEPT !.version = 1, !.rolePages = old]
      BY <2>1, <2>3, <2>5 DEF OldPolicy
  <2>7. OldPolicy(r, pages) = [version |-> 1, rolePages |-> old, actorPages |-> actorPages,
                               menuOrder |-> <<>>, knownPaths |-> {}]
      BY <2>5, <2>6
  <2> QED BY <2>2, <2>3, <2>4, <2>7 DEF Document
<1>3. PICK first \in {NoPolicy} \union
                        {OldPolicy(r, pages) : r \in AcctRoles, pages \in PageChoices} :
          policy = first /\ acknowledged = ChoicesNow(first)
    BY DEF AccessInit
<1>4. Document(policy)
    BY <1>1, <1>2, <1>3
<1>5. SavedChoicesHold
    BY <1>3 DEF SavedChoicesHold
<1>6. DOMAIN save = Savers /\ \A s \in Savers : SaveHonest(save[s])
    BY DEF AccessInit, SaveHonest
<1> QED BY <1>4, <1>5, <1>6 DEF AccessInv

(* A request reads the document and means to change its part.              *)
LEMMA BeginKeeps ==
    ASSUME AccessInv, NEW s \in Savers, BeginSave(s) \/ BeginOrder(s)
    PROVE  AccessInv'
<1>1. policy' = policy /\ acknowledged' = acknowledged
    BY Zenon DEF BeginSave, BeginOrder
<1>2. DOMAIN save' = Savers /\ \A t \in Savers \ {s} : save'[t] = save[t]
    BY Zenon DEF AccessInv, BeginSave, BeginOrder
<1>3. ReadBefore(policy)
    BY DEF AccessInv, ReadBefore, Document
<1>4. CASE BeginSave(s)
  <2>1. PICK subject \in {[kind |-> "role", of |-> r] : r \in AcctRoles}
                          \union {[kind |-> "actor", of |-> a] : a \in Accts} :
        \E pages : save' = [save EXCEPT ![s] =
            [at |-> "read", target |-> subject, asked |-> pages, current |-> policy]]
      BY <1>4 DEF BeginSave
  <2>2. PICK pages : save' = [save EXCEPT ![s] =
            [at |-> "read", target |-> subject, asked |-> pages, current |-> policy]]
      BY <2>1
  <2>3. /\ save'[s].at = "read" /\ save'[s].target = subject /\ save'[s].current = policy
      BY <2>2 DEF AccessInv
  <2>4. SaveHonest(save'[s])
      BY <1>3, <2>1, <2>3 DEF SaveHonest
  <2> QED BY <1>1, <1>2, <2>4 DEF AccessInv, SaveHonest, ReadBefore, SavedChoicesHold
<1>5. CASE BeginOrder(s)
  <2>1. PICK order : save' = [save EXCEPT ![s] =
              [at |-> "commit", target |-> [kind |-> "order"], current |-> policy,
               next |-> [policy EXCEPT !.version = @ + 1, !.menuOrder = order,
                           !.knownPaths = Listed(Catalogue)]]]
      BY <1>5, BeginOrderWrites
  <2>2. PICK next : next = [policy EXCEPT !.version = @ + 1, !.menuOrder = order,
                           !.knownPaths = Listed(Catalogue)]
      OBVIOUS
  <2>3. /\ save'[s].at = "commit" /\ save'[s].target.kind = "order" /\ save'[s].current = policy
        /\ save'[s].next = next
      BY <2>1, <2>2 DEF AccessInv
  <2>4. Document(next) /\ next.version = policy.version + 1
        /\ next.rolePages = policy.rolePages /\ next.actorPages = policy.actorPages
    <3>1. PICK known : known = Listed(Catalogue)
        OBVIOUS
    <3>2. policy = [version |-> policy.version, rolePages |-> policy.rolePages,
                    actorPages |-> policy.actorPages, menuOrder |-> policy.menuOrder,
                    knownPaths |-> policy.knownPaths]
        BY DEF AccessInv, Document
    <3>3. next = [version |-> policy.version + 1, rolePages |-> policy.rolePages,
                  actorPages |-> policy.actorPages, menuOrder |-> order, knownPaths |-> known]
        BY <2>2, <3>1, <3>2
    <3> QED BY <3>3 DEF AccessInv, Document
  <2>5. SaveHonest(save'[s])
      BY <1>3, <2>3, <2>4 DEF SaveHonest, OnePart
  <2> QED BY <1>1, <1>2, <2>5 DEF AccessInv, SaveHonest, ReadBefore, SavedChoicesHold
<1> QED BY <1>4, <1>5

LEMMA ChooseKeeps ==
    ASSUME AccessInv, NEW s \in Savers, ChoosePages(s)
    PROVE  AccessInv'
<1>1. policy' = policy /\ acknowledged' = acknowledged
    BY DEF ChoosePages
<1>2. PICK subject, asked, current :
          subject = save[s].target /\ asked = save[s].asked /\ current = save[s].current
    OBVIOUS
<1>3. /\ save[s].at = "read" /\ ReadBefore(current) /\ Document(current)
      /\ \/ subject.kind = "role" /\ subject.of \in AcctRoles
         \/ subject.kind = "actor" /\ subject.of \in Accts
    BY <1>2 DEF ChoosePages, Saving, AccessInv, SaveHonest, ReadBefore
<1>4. PICK known, pages, others :
          /\ known = Listed(Catalogue) /\ pages = sanitizePages(subject.of, asked)
          /\ others = sanitizePages(acctRole[subject.of], asked)
    OBVIOUS
<1>5. PICK chosen : chosen = IF subject.kind = "role"
                             THEN [current EXCEPT !.rolePages[subject.of] = pages]
                             ELSE [current EXCEPT !.actorPages[subject.of] = others]
    OBVIOUS
<1>6. PICK next : next = [chosen EXCEPT !.version = @ + 1, !.knownPaths = known]
    OBVIOUS
<1>7. save' = [save EXCEPT ![s] = [at |-> "commit", target |-> subject, current |-> current,
                                   next |-> next]]
    BY <1>2, <1>4, <1>5, <1>6, Zenon DEF ChoosePages
<1>8. /\ save'[s].at = "commit" /\ save'[s].target = subject /\ save'[s].current = current
      /\ save'[s].next = next
      /\ DOMAIN save' = Savers /\ \A t \in Savers \ {s} : save'[t] = save[t]
    BY <1>7 DEF AccessInv
<1>9. OnePart(subject, current, next)
  <2>1. CASE subject.kind = "role" /\ subject.of \in AcctRoles
    <3>1. /\ chosen.rolePages = [current.rolePages EXCEPT ![subject.of] = pages]
          /\ chosen.actorPages = current.actorPages /\ chosen.menuOrder = current.menuOrder
          /\ chosen.version = current.version
          /\ chosen = [version |-> chosen.version, rolePages |-> chosen.rolePages,
                       actorPages |-> chosen.actorPages, menuOrder |-> chosen.menuOrder,
                       knownPaths |-> chosen.knownPaths]
        BY <1>3, <1>5, <2>1 DEF Document
    <3>2. /\ next.rolePages = chosen.rolePages
          /\ next.actorPages = chosen.actorPages /\ next.menuOrder = chosen.menuOrder
          /\ next.version = chosen.version + 1
          /\ next = [version |-> next.version, rolePages |-> next.rolePages,
                     actorPages |-> next.actorPages, menuOrder |-> next.menuOrder,
                     knownPaths |-> next.knownPaths]
        BY <1>6, <3>1
    <3> QED BY <1>3, <2>1, <3>1, <3>2 DEF OnePart, Document
  <2>2. CASE subject.kind = "actor" /\ subject.of \in Accts
    <3>1. /\ chosen.actorPages = [current.actorPages EXCEPT ![subject.of] = others]
          /\ chosen.rolePages = current.rolePages /\ chosen.menuOrder = current.menuOrder
          /\ chosen.version = current.version
          /\ chosen = [version |-> chosen.version, rolePages |-> chosen.rolePages,
                       actorPages |-> chosen.actorPages, menuOrder |-> chosen.menuOrder,
                       knownPaths |-> chosen.knownPaths]
        BY <1>3, <1>5, <2>2 DEF Document
    <3>2. /\ next.rolePages = chosen.rolePages
          /\ next.actorPages = chosen.actorPages /\ next.menuOrder = chosen.menuOrder
          /\ next.version = chosen.version + 1
          /\ next = [version |-> next.version, rolePages |-> next.rolePages,
                     actorPages |-> next.actorPages, menuOrder |-> next.menuOrder,
                     knownPaths |-> next.knownPaths]
        BY <1>6, <3>1
    <3> QED BY <1>3, <2>2, <3>1, <3>2 DEF OnePart, Document
  <2> QED BY <1>3, <2>1, <2>2
<1>10. SaveHonest(save'[s])
    BY <1>3, <1>8, <1>9 DEF SaveHonest
<1> QED BY <1>1, <1>8, <1>10 DEF AccessInv, SaveHonest, ReadBefore, SavedChoicesHold

(* The version compared at the commit is that of the document read, so that *)
(* the parts nobody asked about are written as they are.                   *)
LEMMA CommitKeeps ==
    ASSUME AccessInv, NEW s \in Savers, CommitPolicy(s)
    PROVE  AccessInv'
<1>1. PICK subject, current, next :
          subject = save[s].target /\ current = save[s].current /\ next = save[s].next
    OBVIOUS
<1>2. /\ save[s].at = "commit" /\ ReadBefore(current) /\ OnePart(subject, current, next)
    BY <1>1 DEF CommitPolicy, Saving, AccessInv, SaveHonest
<1>3. /\ save'[s].at = "idle" /\ DOMAIN save' = Savers
      /\ \A t \in Savers \ {s} : save'[t] = save[t]
    BY Zenon DEF AccessInv, CommitPolicy
<1>4. CASE ~SameVersion(s)
  <2>1. policy' = policy /\ acknowledged' = acknowledged
      BY <1>4 DEF CommitPolicy
  <2> QED BY <1>3, <2>1 DEF AccessInv, SaveHonest, ReadBefore, SavedChoicesHold
<1>5. CASE SameVersion(s)
  <2>1. current = policy /\ policy' = next
      BY <1>1, <1>2, <1>5 DEF SameVersion, CommitPolicy, ReadBefore
  <2>2. Document(next) /\ next.version = policy.version + 1
      BY <1>2, <2>1 DEF OnePart
  <2>3. \A p : ReadBefore(p) => ReadBefore(p)'
      BY <2>1, <2>2 DEF ReadBefore, Document, AccessInv
  <2>4. Acknowledge(s)
      BY <1>5 DEF CommitPolicy
  <2>5. acknowledged = [rolePages |-> policy.rolePages, actorPages |-> policy.actorPages,
                        menuOrder |-> policy.menuOrder]
      BY DEF AccessInv, SavedChoicesHold, ChoicesNow
  <2>6. acknowledged' = [rolePages |-> next.rolePages, actorPages |-> next.actorPages,
                         menuOrder |-> next.menuOrder]
    <3>1. CASE subject.kind = "order"
        BY <1>1, <1>2, <2>1, <2>4, <2>5, <3>1 DEF Acknowledge, OnePart
    <3>2. CASE subject.kind = "role"
      <4>1. acknowledged' = [acknowledged EXCEPT !.rolePages[subject.of] = next.rolePages[subject.of]]
          BY <1>1, <2>4, <3>2 DEF Acknowledge
      <4> QED BY <1>2, <2>1, <2>5, <3>2, <4>1 DEF OnePart
    <3>3. CASE subject.kind = "actor"
      <4>1. acknowledged' = [acknowledged EXCEPT !.actorPages[subject.of] = next.actorPages[subject.of]]
          BY <1>1, <2>4, <3>3 DEF Acknowledge
      <4> QED BY <1>2, <2>1, <2>5, <3>3, <4>1 DEF OnePart
    <3> QED BY <1>2, <3>1, <3>2, <3>3 DEF OnePart
  <2>7. SavedChoicesHold'
      BY <2>1, <2>6 DEF SavedChoicesHold, ChoicesNow
  <2>8. \A t \in Savers : SaveHonest(save[t])'
    <3> SUFFICES ASSUME NEW t \in Savers PROVE SaveHonest(save[t])'
        OBVIOUS
    <3>1. SaveHonest(save[t]) \/ t = s
        BY DEF AccessInv
    <3>2. CASE t = s
        BY <1>3, <3>2 DEF SaveHonest
    <3>3. CASE t # s
        BY <1>3, <2>3, <3>1, <3>3 DEF SaveHonest
    <3> QED BY <3>2, <3>3
  <2> QED BY <1>3, <2>1, <2>2, <2>7, <2>8 DEF AccessInv
<1> QED BY <1>4, <1>5

(* A save of the pages of a role, of an account or of the menu's order     *)
(* that was acknowledged holds until that part is saved again: for any     *)
(* accounts, releases and number of saves at once.                         *)
THEOREM ChoicesHold == AccessSpec => []SavedChoicesHold
<1>1. AccessInit => AccessInv
    BY AccessInitHolds
<1>2. AccessInv /\ [AccessNext]_accessVars => AccessInv'
  <2> SUFFICES ASSUME AccessInv, [AccessNext]_accessVars PROVE AccessInv'
      OBVIOUS
  <2>1. ASSUME NEW s \in Savers, BeginSave(s) \/ BeginOrder(s) \/ ChoosePages(s) \/ CommitPolicy(s)
        PROVE  AccessInv'
      BY <2>1, BeginKeeps, ChooseKeeps, CommitKeeps
  <2>2. ASSUME UNCHANGED <<policy, save, acknowledged>> PROVE AccessInv'
      BY <2>2 DEF AccessInv, SaveHonest, ReadBefore, SavedChoicesHold
  <2>3. ASSUME NEW a \in Accts, ChangeAcctRole(a) PROVE UNCHANGED <<policy, save, acknowledged>>
      BY <2>3 DEF ChangeAcctRole
  <2>4. DeployPages => UNCHANGED <<policy, save, acknowledged>>
      BY DEF DeployPages
  <2> QED BY <2>1, <2>2, <2>3, <2>4 DEF AccessNext, accessVars
<1>3. AccessInv => SavedChoicesHold
    BY DEF AccessInv
<1> QED BY <1>1, <1>2, <1>3, PTL DEF AccessSpec

-----------------------------------------------------------------------------
(***************************************************************************)
(* Leads: stores of opened leads and the audit of the register.            *)
(*                                                                         *)
(* A move to the last stage brings the store that it registered, unless the*)
(* lead has one, and an edit is committed onto the version it was made     *)
(* from.                                                                   *)
(***************************************************************************)

(* Moves of leads and edits of stores, as their requests remember them.    *)
MoveCall == [at : {"register", "move"}, lead : LeadIds, stage : 0 .. LastStage,
             storeId : StoreIds \union {NoStore}, flag : BOOLEAN]
PatchCall == [at : {"patch"}, store : StoreIds, expected : Nat, field : Fields,
              next : PosStoreRecord]

RowsTyped ==
    /\ lead \in [LeadIds -> FranchiseLead]
    /\ storeReg \in [StoreIds -> PosStoreRecord \union {NoStore}]
    /\ DOMAIN storeFor = StoreIds
    /\ told \in [StoreIds -> [Fields -> Nat]]
    /\ fieldCall \in [FieldUsers -> {Idle} \union MoveCall \union PatchCall]

(* The store of a lead was registered for it.                              *)
StoreIsOf(s, l) == storeReg[s] # NoStore /\ storeFor[s] = l

(* A move to the last stage brings a store, unless the lead has one.       *)
MoveHonest(c) ==
    /\ c.at = "register" => c.storeId = NoStore
    /\ c.storeId # NoStore => StoreIsOf(c.storeId, c.lead)
    /\ c.at = "move" /\ c.stage = LastStage =>
          c.storeId # NoStore \/ lead[c.lead].storeId # NoStore

(* An edit differs from the store it was made from in one field; the user  *)
(* saw that store or an older one.                                         *)
Copied(c, f) == c.next[f] = storeReg[c.store][f]
PatchHonest(c) ==
    /\ storeReg[c.store] # NoStore
    /\ c.expected < c.next.version
    /\ c.next.version <= storeReg[c.store].version + 1
    /\ c.next.version = storeReg[c.store].version + 1 =>
          \A f \in Fields \ {c.field} : Copied(c, f)

CallsHonest == \A u \in FieldUsers :
    /\ fieldCall[u] \in MoveCall => MoveHonest(fieldCall[u])
    /\ fieldCall[u] \in PatchCall => PatchHonest(fieldCall[u])

LeadsInv == RowsTyped /\ CallsHonest /\ OpenedLeadHasStore /\ AuditTellsStore

-----------------------------------------------------------------------------
LEMMA CallKinds ==
    ASSUME NEW c \in {Idle} \union MoveCall \union PatchCall
    PROVE  /\ c.at \in {"register", "move"} <=> c \in MoveCall
           /\ c.at = "patch" <=> c \in PatchCall
           /\ c.at = "idle" <=> c = Idle
           /\ c.at \in {"idle", "register", "move", "patch"}
BY DEF Idle, MoveCall, PatchCall

LEMMA NewStoreType == NewStore \in PosStoreRecord /\ \A f \in Fields : NewStore[f] = 0
BY DEF NewStore, PosStoreRecord, Fields

LEMMA LeadsInitHolds == LeadsInit => LeadsInv
<1> SUFFICES ASSUME LeadsInit PROVE LeadsInv
    OBVIOUS
<1>1. PICK advisor \in BOOLEAN :
          lead = [l \in LeadIds |-> [stage |-> 0, docDate |-> NoDay, advisor |-> advisor,
                                     flag |-> FALSE, storeId |-> NoStore, deleted |-> FALSE]]
    BY DEF LeadsInit
<1>2. RowsTyped
  <2>1. lead \in [LeadIds -> FranchiseLead]
      BY <1>1 DEF FranchiseLead, LastStage
  <2>2. told \in [StoreIds -> [Fields -> Nat]]
      BY DEF LeadsInit
  <2> QED BY <2>1, <2>2 DEF LeadsInit, RowsTyped
<1>3. CallsHonest
    BY CallKinds DEF LeadsInit, CallsHonest, Idle
<1>4. OpenedLeadHasStore /\ AuditTellsStore
    BY <1>1 DEF LeadsInit, OpenedLeadHasStore, AuditTellsStore, LastStage
<1> QED BY <1>2, <1>3, <1>4 DEF LeadsInv

(* A copy of a store that differs in one field and counts the edit.        *)
Edited(next, row, f) ==
    /\ next \in PosStoreRecord /\ next.version = row.version + 1
    /\ \A g \in Fields \ {f} : next[g] = row[g]

LEMMA EditedStore ==
    ASSUME NEW row \in PosStoreRecord, NEW value \in Nat, NEW f \in Fields
    PROVE  Edited([row EXCEPT ![f] = value, !.version = @ + 1], row, f)
<1>1. ASSUME f = "name" PROVE Edited([row EXCEPT !.name = value, !.version = @ + 1], row, f)
  <2>1. PICK next : next = [row EXCEPT !.name = value, !.version = @ + 1]
      OBVIOUS
  <2>2. PICK n \in Nat \ {0} : n = row.version + 1
      BY DEF PosStoreRecord
  <2>3. next = [version |-> n, name |-> value, active |-> row.active]
      BY <2>1, <2>2 DEF PosStoreRecord
  <2>4. next \in PosStoreRecord /\ next.version = n /\ next.active = row.active
      BY <2>3 DEF PosStoreRecord
  <2> QED BY <1>1, <2>1, <2>2, <2>4 DEF Fields, Edited
<1>2. ASSUME f = "active" PROVE Edited([row EXCEPT !.active = value, !.version = @ + 1], row, f)
  <2>1. PICK next : next = [row EXCEPT !.active = value, !.version = @ + 1]
      OBVIOUS
  <2>2. PICK n \in Nat \ {0} : n = row.version + 1
      BY DEF PosStoreRecord
  <2>3. next = [version |-> n, active |-> value, name |-> row.name]
      BY <2>1, <2>2 DEF PosStoreRecord
  <2>4. next \in PosStoreRecord /\ next.version = n /\ next.name = row.name
      BY <2>3 DEF PosStoreRecord
  <2> QED BY <1>2, <2>1, <2>2, <2>4 DEF Fields, Edited
<1> QED BY <1>1, <1>2 DEF Fields

-----------------------------------------------------------------------------
(* Steps that take no store out of the register, count each edit and leave *)
(* a lead its store.                                                       *)
Kept ==
    /\ \A s \in StoreIds : storeReg[s] # NoStore =>
          /\ storeReg'[s] # NoStore /\ storeFor'[s] = storeFor[s]
          /\ storeReg'[s] = storeReg[s] \/ storeReg'[s].version = storeReg[s].version + 1
    /\ \A l \in LeadIds : lead[l].storeId # NoStore => lead'[l].storeId # NoStore

LEMMA MoveStays ==
    ASSUME RowsTyped, Kept, NEW c \in MoveCall, MoveHonest(c)
    PROVE  MoveHonest(c)'
BY FieldAssumption DEF Kept, MoveHonest, StoreIsOf, MoveCall

LEMMA PatchStays ==
    ASSUME RowsTyped, Kept, NEW c \in PatchCall, PatchHonest(c)
    PROVE  PatchHonest(c)'
<1>1. /\ c.store \in StoreIds /\ c.next.version \in Nat /\ storeReg[c.store] # NoStore
      /\ storeReg[c.store].version \in Nat
    BY DEF PatchCall, PatchHonest, RowsTyped, PosStoreRecord
<1>2. /\ storeReg'[c.store] # NoStore
      /\ storeReg'[c.store] = storeReg[c.store]
           \/ storeReg'[c.store].version = storeReg[c.store].version + 1
    BY <1>1 DEF Kept
<1>3. CASE storeReg'[c.store] = storeReg[c.store]
    BY <1>2, <1>3 DEF PatchHonest, Copied
<1>4. CASE storeReg'[c.store].version = storeReg[c.store].version + 1
    BY <1>1, <1>2, <1>4 DEF PatchHonest
<1> QED BY <1>2, <1>3, <1>4

LEMMA CallsStay ==
    ASSUME RowsTyped, CallsHonest, Kept, NEW u \in FieldUsers,
           NEW c \in {Idle} \union MoveCall \union PatchCall,
           Enter(u, c),
           c \in MoveCall => MoveHonest(c)', c \in PatchCall => PatchHonest(c)'
    PROVE  /\ CallsHonest'
           /\ fieldCall' \in [FieldUsers -> {Idle} \union MoveCall \union PatchCall]
<1>1. fieldCall' \in [FieldUsers -> {Idle} \union MoveCall \union PatchCall]
    BY DEF RowsTyped, Enter
<1>2. ASSUME NEW t \in FieldUsers
      PROVE  /\ fieldCall'[t] \in MoveCall => MoveHonest(fieldCall[t])'
             /\ fieldCall'[t] \in PatchCall => PatchHonest(fieldCall[t])'
  <2>1. CASE t = u
    <3>1. fieldCall'[t] = c
        BY <2>1 DEF Enter, RowsTyped
    <3> QED BY <3>1 DEF MoveHonest, PatchHonest, StoreIsOf, Copied
  <2>2. CASE t # u
    <3>1. PICK d \in {Idle} \union MoveCall \union PatchCall : d = fieldCall[t]
        BY DEF RowsTyped
    <3>2. fieldCall'[t] = d
        BY <2>2, <3>1 DEF Enter, RowsTyped
    <3>3. (d \in MoveCall => MoveHonest(d)) /\ (d \in PatchCall => PatchHonest(d))
        BY <3>1 DEF CallsHonest
    <3>4. (d \in MoveCall => MoveHonest(d)') /\ (d \in PatchCall => PatchHonest(d)')
        BY <3>3, MoveStays, PatchStays
    <3> QED BY <3>2, <3>4 DEF MoveHonest, PatchHonest, StoreIsOf, Copied
  <2> QED BY <2>1, <2>2
<1> QED BY <1>1, <1>2 DEF CallsHonest

(* Everybody goes on with the request he is in.                            *)
LEMMA NobodyMoves ==
    ASSUME RowsTyped, CallsHonest, Kept, fieldCall' = fieldCall
    PROVE  CallsHonest'
<1> SUFFICES ASSUME NEW t \in FieldUsers
             PROVE  /\ fieldCall'[t] \in MoveCall => MoveHonest(fieldCall[t])'
                    /\ fieldCall'[t] \in PatchCall => PatchHonest(fieldCall[t])'
    BY DEF CallsHonest
<1>1. PICK d \in {Idle} \union MoveCall \union PatchCall : d = fieldCall[t]
    BY DEF RowsTyped
<1>2. (d \in MoveCall => MoveHonest(d)) /\ (d \in PatchCall => PatchHonest(d))
    BY <1>1 DEF CallsHonest
<1>3. (d \in MoveCall => MoveHonest(d)') /\ (d \in PatchCall => PatchHonest(d)')
    BY <1>2, MoveStays, PatchStays
<1> QED BY <1>1, <1>3 DEF MoveHonest, PatchHonest, StoreIsOf, Copied

-----------------------------------------------------------------------------
(* Users change a lead, or the day does.                                   *)
LEMMA EditLeadKeeps ==
    ASSUME LeadsInv, NEW u \in FieldUsers, updateLead(u) \/ removeLead(u)
    PROVE  LeadsInv'
<1>1. UNCHANGED <<storeReg, storeFor, told, fieldCall>>
    BY DEF updateLead, removeLead
<1>2. /\ lead' \in [LeadIds -> FranchiseLead]
      /\ \A l \in LeadIds : lead'[l].stage = lead[l].stage /\ lead'[l].storeId = lead[l].storeId
  <2>1. CASE updateLead(u)
    <3>1. PICK l \in LeadIds, day \in Days \union {NoDay}, advisor \in BOOLEAN :
              lead' = [lead EXCEPT ![l].docDate = day, ![l].advisor = advisor]
        BY <2>1 DEF updateLead
    <3>2. lead' = [lead EXCEPT ![l] = [@ EXCEPT !.docDate = day, !.advisor = advisor]]
        BY <3>1 DEF LeadsInv, RowsTyped
    <3>3. PICK r \in FranchiseLead : r = [lead[l] EXCEPT !.docDate = day, !.advisor = advisor]
      <4>1. lead[l] \in FranchiseLead
          BY DEF LeadsInv, RowsTyped
      <4>2. [lead[l] EXCEPT !.docDate = day, !.advisor = advisor] \in FranchiseLead
          BY <4>1, Zenon DEF FranchiseLead
      <4> QED BY <4>2
    <3>4. r.stage = lead[l].stage /\ r.storeId = lead[l].storeId
        BY <3>3 DEF LeadsInv, RowsTyped, FranchiseLead
    <3> QED BY <3>2, <3>3, <3>4 DEF LeadsInv, RowsTyped
  <2>2. CASE removeLead(u)
    <3>1. PICK l \in LeadIds : lead' = [lead EXCEPT ![l].deleted = TRUE]
        BY <2>2 DEF removeLead
    <3> QED BY <3>1 DEF LeadsInv, RowsTyped, FranchiseLead
  <2> QED BY <2>1, <2>2
<1>3. Kept
    BY <1>1, <1>2 DEF Kept
<1>4. RowsTyped'
    BY <1>1, <1>2 DEF LeadsInv, RowsTyped
<1>5. CallsHonest'
    BY <1>1, <1>3, NobodyMoves DEF LeadsInv
<1>6. OpenedLeadHasStore' /\ AuditTellsStore'
    BY <1>1, <1>2 DEF LeadsInv, OpenedLeadHasStore, AuditTellsStore
<1> QED BY <1>4, <1>5, <1>6 DEF LeadsInv

(* Nothing but the request of one user changes.                            *)
LEMMA OnlyCallKeeps ==
    ASSUME LeadsInv, NEW u \in FieldUsers,
           NEW c \in {Idle} \union MoveCall \union PatchCall, Enter(u, c),
           c \in MoveCall => MoveHonest(c), c \in PatchCall => PatchHonest(c),
           UNCHANGED <<lead, storeReg, storeFor, told>>
    PROVE  LeadsInv'
<1>1. Kept
    BY DEF Kept
<1>2. (c \in MoveCall => MoveHonest(c)') /\ (c \in PatchCall => PatchHonest(c)')
    BY <1>1, MoveStays, PatchStays DEF LeadsInv
<1>3. CallsHonest' /\ fieldCall' \in [FieldUsers -> {Idle} \union MoveCall \union PatchCall]
    BY <1>1, <1>2, CallsStay DEF LeadsInv
<1>4. RowsTyped'
    BY <1>3 DEF LeadsInv, RowsTyped
<1>5. OpenedLeadHasStore' /\ AuditTellsStore'
    BY DEF LeadsInv, OpenedLeadHasStore, AuditTellsStore
<1> QED BY <1>3, <1>4, <1>5 DEF LeadsInv

LEMMA GetLeadKeeps ==
    ASSUME LeadsInv, NEW u \in FieldUsers, getLead(u)
    PROVE  LeadsInv'
<1>1. PICK l \in LeadIds, dir \in {"next", "back"}, override \in BOOLEAN :
         LET r == lead[l]
             contract == dir = "next" /\ r.stage = 2
             stage == IF dir = "next" THEN r.stage + 1 ELSE r.stage - 1 IN
         /\ IF dir = "next" THEN r.stage < LastStage ELSE r.stage > 0
         /\ Enter(u, [at |-> IF dir = "next" /\ r.stage = 4 /\ r.storeId = NoStore
                             THEN "register" ELSE "move",
                      lead |-> l, stage |-> stage, storeId |-> NoStore,
                      flag |-> r.flag \/ (contract /\ ~Cooled(r))])
    BY DEF getLead
<1>2. PICK cooled \in BOOLEAN : cooled = Cooled(lead[l])
    BY DEF Cooled
<1>3. lead[l] \in FranchiseLead
    BY DEF LeadsInv, RowsTyped
<1>4. PICK stage \in 0 .. LastStage :
          /\ stage = IF dir = "next" THEN lead[l].stage + 1 ELSE lead[l].stage - 1
          /\ stage = LastStage => dir = "next" /\ lead[l].stage = 4
    BY <1>1, <1>3 DEF FranchiseLead, LastStage
<1>5. PICK flag \in BOOLEAN :
          flag = (lead[l].flag \/ (dir = "next" /\ lead[l].stage = 2 /\ ~cooled))
    OBVIOUS
<1>6. PICK at \in {"register", "move"} :
          at = IF dir = "next" /\ lead[l].stage = 4 /\ lead[l].storeId = NoStore
               THEN "register" ELSE "move"
    OBVIOUS
<1>7. PICK c \in MoveCall :
          c = [at |-> at, lead |-> l, stage |-> stage, storeId |-> NoStore, flag |-> flag]
  <2>1. [at |-> at, lead |-> l, stage |-> stage, storeId |-> NoStore, flag |-> flag] \in MoveCall
      BY DEF MoveCall
  <2> QED BY <2>1
<1>8. Enter(u, c)
    BY <1>1, <1>2, <1>4, <1>5, <1>6, <1>7
<1>9. MoveHonest(c)
    BY <1>4, <1>6, <1>7 DEF MoveHonest
<1>10. c \notin PatchCall
    BY <1>7, CallKinds
<1>11. UNCHANGED <<lead, storeReg, storeFor, told>>
    BY DEF getLead
<1> QED BY <1>8, <1>9, <1>10, <1>11, OnlyCallKeeps

LEMMA BreakOffKeeps ==
    ASSUME LeadsInv, NEW u \in FieldUsers, BreakOff(u)
    PROVE  LeadsInv'
<1>1. Idle \notin MoveCall /\ Idle \notin PatchCall
    BY CallKinds DEF Idle
<1> QED BY <1>1, OnlyCallKeeps DEF BreakOff

LEMMA ReadStoreKeeps ==
    ASSUME LeadsInv, NEW u \in FieldUsers, ReadStore(u)
    PROVE  LeadsInv'
<1>1. PICK s \in StoreIds, f \in Fields, value \in {0, 1} :
         /\ storeReg[s] # NoStore
         /\ \E seen \in 1 .. storeReg[s].version :
              Enter(u, [at |-> "patch", store |-> s, expected |-> seen, field |-> f,
                        next |-> [storeReg[s] EXCEPT ![f] = value, !.version = @ + 1]])
    BY DEF ReadStore
<1>2. PICK row \in PosStoreRecord : row = storeReg[s]
    BY <1>1 DEF LeadsInv, RowsTyped
<1>3. PICK next : next = [row EXCEPT ![f] = value, !.version = @ + 1]
    OBVIOUS
<1>4. PICK seen \in 1 .. row.version :
          Enter(u, [at |-> "patch", store |-> s, expected |-> seen, field |-> f, next |-> next])
    BY <1>1, <1>2, <1>3
<1>5. row.version \in Nat
    BY DEF PosStoreRecord
<1>6. /\ next \in PosStoreRecord /\ next.version = row.version + 1
      /\ \A g \in Fields \ {f} : next[g] = row[g]
  <2>1. value \in Nat
      OBVIOUS
  <2>2. Edited([row EXCEPT ![f] = value, !.version = @ + 1], row, f)
      BY <2>1, EditedStore, Zenon
  <2>3. Edited(next, row, f)
      BY <1>3, <2>2, Zenon
  <2> QED BY <2>3 DEF Edited
<1>7. PICK c \in PatchCall :
          c = [at |-> "patch", store |-> s, expected |-> seen, field |-> f, next |-> next]
  <2>1. [at |-> "patch", store |-> s, expected |-> seen, field |-> f, next |-> next] \in PatchCall
      BY <1>5, <1>6 DEF PatchCall
  <2> QED BY <2>1
<1>8. PatchHonest(c)
  <2>1. /\ c.store = s /\ c.expected = seen /\ c.field = f /\ c.next = next
        /\ seen \in Nat /\ seen <= row.version
      BY <1>5, <1>7
  <2>2. storeReg[c.store] = row /\ row # NoStore
      BY <1>1, <1>2, <2>1
  <2>3. c.expected < c.next.version /\ c.next.version = row.version + 1
      BY <1>5, <1>6, <2>1
  <2>4. \A g \in Fields \ {c.field} : Copied(c, g)
      BY <1>6, <2>1, <2>2 DEF Copied
  <2> QED BY <1>5, <2>2, <2>3, <2>4 DEF PatchHonest
<1>9. c \notin MoveCall
    BY <1>7, CallKinds
<1>10. UNCHANGED <<lead, storeReg, storeFor, told>>
    BY DEF ReadStore
<1> QED BY <1>4, <1>7, <1>8, <1>9, <1>10, OnlyCallKeeps

(* A new store, of a lead or of nobody.                                    *)
LEMMA NewStoreKeeps ==
    ASSUME LeadsInv, NEW s \in StoreIds, NEW l, CommitStore(s, l), lead' = lead
    PROVE  /\ storeReg' \in [StoreIds -> PosStoreRecord \union {NoStore}]
           /\ DOMAIN storeFor' = StoreIds /\ told' \in [StoreIds -> [Fields -> Nat]]
           /\ storeReg'[s] # NoStore /\ storeFor'[s] = l
           /\ Kept /\ OpenedLeadHasStore' /\ AuditTellsStore'
<1>1. /\ storeReg[s] = NoStore
      /\ storeReg' = [storeReg EXCEPT ![s] = NewStore]
      /\ storeFor' = [storeFor EXCEPT ![s] = l]
      /\ told' = [told EXCEPT ![s] = [f \in Fields |-> 0]]
    BY DEF CommitStore
<1>2. /\ storeReg' \in [StoreIds -> PosStoreRecord \union {NoStore}]
      /\ DOMAIN storeFor' = StoreIds /\ told' \in [StoreIds -> [Fields -> Nat]]
    BY <1>1, NewStoreType DEF LeadsInv, RowsTyped
<1>3. /\ storeReg'[s] = NewStore /\ storeFor'[s] = l /\ \A f \in Fields : told'[s][f] = 0
      /\ \A t \in StoreIds \ {s} :
            storeReg'[t] = storeReg[t] /\ storeFor'[t] = storeFor[t] /\ told'[t] = told[t]
    BY <1>1 DEF LeadsInv, RowsTyped
<1>4. Kept
    BY <1>1, <1>3 DEF Kept
<1>5. \A k \in LeadIds : lead[k].storeId \in StoreIds \union {NoStore}
    BY DEF LeadsInv, RowsTyped, FranchiseLead
<1>6. OpenedLeadHasStore'
    BY <1>1, <1>3, <1>5 DEF LeadsInv, OpenedLeadHasStore
<1>7. AuditTellsStore'
    BY <1>3, NewStoreType DEF LeadsInv, AuditTellsStore
<1>8. storeReg'[s] # NoStore
    BY <1>3, NewStoreType, FieldAssumption
<1> QED BY <1>2, <1>3, <1>4, <1>6, <1>7, <1>8

LEMMA RegisterKeeps ==
    ASSUME LeadsInv, NEW u \in FieldUsers, RegisterStore(u)
    PROVE  LeadsInv'
<1>1. PICK c \in MoveCall : c = fieldCall[u] /\ c.at = "register" /\ MoveHonest(c)
  <2>1. fieldCall[u].at = "register" /\ fieldCall[u] \in {Idle} \union MoveCall \union PatchCall
      BY DEF RegisterStore, In, LeadsInv, RowsTyped
  <2>2. fieldCall[u] \in MoveCall
      BY <2>1, CallKinds
  <2> QED BY <2>1, <2>2 DEF LeadsInv, CallsHonest
<1>2. PICK s \in StoreIds :
         /\ CommitStore(s, c.lead)
         /\ Enter(u, [c EXCEPT !.at = "move", !.storeId = s])
    BY <1>1 DEF RegisterStore
<1>3. PICK d \in MoveCall : /\ d = [c EXCEPT !.at = "move", !.storeId = s]
                            /\ d.lead = c.lead /\ d.storeId = s /\ d.at = "move"
  <2>1. [c EXCEPT !.at = "move", !.storeId = s] \in MoveCall
      BY DEF MoveCall
  <2>2. /\ [c EXCEPT !.at = "move", !.storeId = s].lead = c.lead
        /\ [c EXCEPT !.at = "move", !.storeId = s].storeId = s
        /\ [c EXCEPT !.at = "move", !.storeId = s].at = "move"
      BY DEF MoveCall
  <2> QED BY <2>1, <2>2
<1>4. lead' = lead
    BY DEF RegisterStore
<1>5. PICK l : l = c.lead
    OBVIOUS
<1>6. /\ storeReg' \in [StoreIds -> PosStoreRecord \union {NoStore}]
      /\ DOMAIN storeFor' = StoreIds /\ told' \in [StoreIds -> [Fields -> Nat]]
      /\ storeReg'[s] # NoStore /\ storeFor'[s] = l
      /\ Kept /\ OpenedLeadHasStore' /\ AuditTellsStore'
    BY <1>2, <1>4, <1>5, NewStoreKeeps
<1>7. MoveHonest(d)'
    BY <1>3, <1>5, <1>6, FieldAssumption DEF MoveHonest, StoreIsOf
<1>8. d \notin PatchCall
    BY <1>3, CallKinds
<1>9. CallsHonest' /\ fieldCall' \in [FieldUsers -> {Idle} \union MoveCall \union PatchCall]
    BY <1>2, <1>3, <1>6, <1>7, <1>8, CallsStay DEF LeadsInv
<1> QED BY <1>4, <1>6, <1>9 DEF LeadsInv, RowsTyped

LEMMA CreateStoreKeeps ==
    ASSUME LeadsInv, NEW u \in FieldUsers, createStore(u)
    PROVE  LeadsInv'
<1>1. PICK s \in StoreIds : CommitStore(s, "none")
    BY DEF createStore
<1>2. lead' = lead /\ fieldCall' = fieldCall
    BY DEF createStore
<1>3. /\ storeReg' \in [StoreIds -> PosStoreRecord \union {NoStore}]
      /\ DOMAIN storeFor' = StoreIds /\ told' \in [StoreIds -> [Fields -> Nat]]
      /\ Kept /\ OpenedLeadHasStore' /\ AuditTellsStore'
    BY <1>1, <1>2, NewStoreKeeps
<1>4. CallsHonest'
    BY <1>2, <1>3, NobodyMoves DEF LeadsInv
<1> QED BY <1>2, <1>3, <1>4 DEF LeadsInv, RowsTyped

(* The lead takes the stage and the store of the move, unless it has gone. *)
LEMMA SetStageKeeps ==
    ASSUME LeadsInv, NEW u \in FieldUsers, setLeadStage(u)
    PROVE  LeadsInv'
<1>1. PICK c \in MoveCall : c = fieldCall[u] /\ c.at = "move" /\ MoveHonest(c)
  <2>1. fieldCall[u].at = "move" /\ fieldCall[u] \in {Idle} \union MoveCall \union PatchCall
      BY DEF setLeadStage, In, LeadsInv, RowsTyped
  <2>2. fieldCall[u] \in MoveCall
      BY <2>1, CallKinds
  <2> QED BY <2>1, <2>2 DEF LeadsInv, CallsHonest
<1>2. MoveLead(c) /\ Enter(u, Idle) /\ UNCHANGED <<storeReg, storeFor, told>>
    BY <1>1 DEF setLeadStage
<1>3. PICK l \in LeadIds : l = c.lead
    BY DEF MoveCall
<1>4. /\ c.stage \in 0 .. LastStage /\ c.storeId \in StoreIds \union {NoStore}
      /\ c.flag \in BOOLEAN /\ lead[l] \in FranchiseLead
    BY DEF MoveCall, LeadsInv, RowsTyped
<1>5. /\ lead' \in [LeadIds -> FranchiseLead]
      /\ \A k \in LeadIds \ {l} : lead'[k] = lead[k]
      /\ \/ lead'[l] = lead[l]
         \/ lead'[l].stage = c.stage /\ lead'[l].storeId = KeepStore(lead[l].storeId, c.storeId)
  <2>1. CASE lead[l].deleted
      BY <1>2, <1>3, <2>1 DEF MoveLead, LeadsInv, RowsTyped
  <2>2. CASE ~lead[l].deleted
    <3>1. PICK kept \in StoreIds \union {NoStore} : kept = KeepStore(lead[l].storeId, c.storeId)
        BY <1>4 DEF KeepStore, FranchiseLead
    <3>2. lead' = [lead EXCEPT ![l] = [@ EXCEPT !.stage = c.stage, !.flag = c.flag, !.storeId = kept]]
        BY <1>2, <1>3, <2>2, <3>1 DEF MoveLead, LeadsInv, RowsTyped
    <3>3. PICK r : r = [lead[l] EXCEPT !.stage = c.stage, !.flag = c.flag, !.storeId = kept]
        OBVIOUS
    <3>4. r = [stage |-> c.stage, docDate |-> lead[l].docDate, advisor |-> lead[l].advisor,
               flag |-> c.flag, storeId |-> kept, deleted |-> lead[l].deleted]
        BY <1>4, <3>3 DEF FranchiseLead
    <3>5. r \in FranchiseLead /\ r.stage = c.stage /\ r.storeId = kept
        BY <1>4, <3>4 DEF FranchiseLead
    <3>6. lead' = [lead EXCEPT ![l] = r]
        BY <3>2, <3>3 DEF LeadsInv, RowsTyped
    <3> QED BY <3>1, <3>5, <3>6 DEF LeadsInv, RowsTyped
  <2> QED BY <2>1, <2>2
<1>6. lead[l].storeId # NoStore => lead'[l].storeId # NoStore
    BY <1>5 DEF KeepStore
<1>7. Kept
    BY <1>2, <1>5, <1>6 DEF Kept
<1>8. Idle \notin MoveCall /\ Idle \notin PatchCall
    BY CallKinds DEF Idle
<1>9. CallsHonest' /\ fieldCall' \in [FieldUsers -> {Idle} \union MoveCall \union PatchCall]
    BY <1>2, <1>7, <1>8, CallsStay DEF LeadsInv
<1>10. OpenedLeadHasStore'
  <2> SUFFICES ASSUME NEW k \in LeadIds
               PROVE  /\ lead'[k].stage = LastStage => lead'[k].storeId # NoStore
                      /\ lead'[k].storeId # NoStore =>
                            storeReg[lead'[k].storeId] # NoStore /\ storeFor[lead'[k].storeId] = k
      BY <1>2 DEF OpenedLeadHasStore
  <2>0. /\ lead[k].stage = LastStage => lead[k].storeId # NoStore
        /\ lead[k].storeId # NoStore =>
              storeReg[lead[k].storeId] # NoStore /\ storeFor[lead[k].storeId] = k
      BY DEF LeadsInv, OpenedLeadHasStore
  <2>1. CASE lead'[k] = lead[k]
      BY <2>0, <2>1
  <2>2. CASE lead'[k] # lead[k]
    <3>1. /\ k = l /\ lead'[k].stage = c.stage
          /\ lead'[k].storeId = IF c.storeId = NoStore THEN lead[k].storeId ELSE c.storeId
        BY <1>5, <2>2 DEF KeepStore
    <3> QED BY <1>1, <1>3, <2>0, <3>1 DEF MoveHonest, StoreIsOf
  <2> QED BY <2>1, <2>2
<1>11. AuditTellsStore'
    BY <1>2 DEF LeadsInv, AuditTellsStore
<1> QED BY <1>2, <1>5, <1>9, <1>10, <1>11 DEF LeadsInv, RowsTyped

(* The version the user saw is still that of the store: so was the copy's. *)
LEMMA PatchKeeps ==
    ASSUME LeadsInv, NEW u \in FieldUsers, PatchStore(u)
    PROVE  LeadsInv'
<1>1. PICK c \in PatchCall : c = fieldCall[u] /\ PatchHonest(c)
  <2>1. fieldCall[u].at = "patch" /\ fieldCall[u] \in {Idle} \union MoveCall \union PatchCall
      BY DEF PatchStore, In, LeadsInv, RowsTyped
  <2>2. fieldCall[u] \in PatchCall
      BY <2>1, CallKinds
  <2> QED BY <2>2 DEF LeadsInv, CallsHonest
<1>2. lead' = lead /\ storeFor' = storeFor /\ Enter(u, Idle)
    BY DEF PatchStore
<1>3. Idle \notin MoveCall /\ Idle \notin PatchCall
    BY CallKinds DEF Idle
<1>4. CASE ~IsCurrent(c.store, c.expected)
  <2>1. UNCHANGED <<lead, storeReg, storeFor, told>>
      BY <1>1, <1>2, <1>4 DEF PatchStore
  <2> QED BY <1>2, <1>3, <2>1, OnlyCallKeeps
<1>5. CASE IsCurrent(c.store, c.expected)
  <2>1. /\ storeReg' = [storeReg EXCEPT ![c.store] = c.next]
        /\ told' = [told EXCEPT ![c.store][c.field] = c.next[c.field]]
      BY <1>1, <1>5 DEF PatchStore
  <2>2. PICK s \in StoreIds, f \in Fields, next \in PosStoreRecord :
            s = c.store /\ f = c.field /\ next = c.next
      BY DEF PatchCall
  <2>3. /\ storeReg[s] # NoStore /\ storeReg[s] \in PosStoreRecord /\ storeReg[s].version \in Nat
        /\ c.expected \in Nat /\ next.version \in Nat
      BY <1>1, <2>2 DEF PatchHonest, LeadsInv, RowsTyped, PosStoreRecord, PatchCall
  <2>4. /\ next.version = storeReg[s].version + 1
        /\ \A g \in Fields \ {f} : next[g] = storeReg[s][g]
      BY <1>1, <1>5, <2>2, <2>3 DEF IsCurrent, PatchHonest, Copied
  <2>5. PICK value \in Nat : value = next[f]
    <3>1. next.name \in Nat /\ next.active \in Nat
        BY DEF PosStoreRecord
    <3> QED BY <3>1 DEF Fields
  <2>6. /\ storeReg'[s] = next /\ \A t \in StoreIds \ {s} : storeReg'[t] = storeReg[t]
        /\ storeReg' \in [StoreIds -> PosStoreRecord \union {NoStore}]
      BY <2>1, <2>2 DEF LeadsInv, RowsTyped
  <2>7. /\ told' = [told EXCEPT ![s][f] = value]
        /\ told \in [StoreIds -> [Fields -> Nat]]
      BY <2>1, <2>2, <2>5 DEF LeadsInv, RowsTyped
  <2>8. /\ told' \in [StoreIds -> [Fields -> Nat]]
        /\ told'[s][f] = value /\ \A g \in Fields \ {f} : told'[s][g] = told[s][g]
        /\ \A t \in StoreIds \ {s} : told'[t] = told[t]
      BY <2>7
  <2>9. next # NoStore
      BY FieldAssumption
  <2>10. Kept
      BY <1>2, <2>3, <2>4, <2>6, <2>9 DEF Kept
  <2>11. CallsHonest' /\ fieldCall' \in [FieldUsers -> {Idle} \union MoveCall \union PatchCall]
      BY <1>2, <1>3, <2>10, CallsStay DEF LeadsInv
  <2>12. OpenedLeadHasStore'
    <3>1. \A k \in LeadIds : lead[k].storeId \in StoreIds \union {NoStore}
        BY DEF LeadsInv, RowsTyped, FranchiseLead
    <3> QED BY <1>2, <2>6, <2>9, <3>1 DEF LeadsInv, OpenedLeadHasStore
  <2>13. AuditTellsStore'
    <3> SUFFICES ASSUME NEW t \in StoreIds, storeReg'[t] # NoStore, NEW g \in Fields
                 PROVE  storeReg'[t][g] = told'[t][g]
        BY DEF AuditTellsStore
    <3>1. CASE t # s
        BY <2>6, <2>8, <3>1 DEF LeadsInv, AuditTellsStore
    <3>2. CASE t = s /\ g = f
        BY <2>5, <2>6, <2>8, <3>2
    <3>3. CASE t = s /\ g # f
      <4>1. storeReg[s][g] = told[s][g]
          BY <2>3 DEF LeadsInv, AuditTellsStore
      <4> QED BY <2>4, <2>6, <2>8, <3>3, <4>1
    <3> QED BY <3>1, <3>2, <3>3
  <2> QED BY <1>2, <2>6, <2>8, <2>11, <2>12, <2>13 DEF LeadsInv, RowsTyped
<1> QED BY <1>4, <1>5

LEMMA LeadsStep == LeadsInv /\ [LeadsNext]_leadsVars => LeadsInv'
<1> SUFFICES ASSUME LeadsInv, [LeadsNext]_leadsVars PROVE LeadsInv'
    OBVIOUS
<1>1. ASSUME NEW u \in FieldUsers,
             \/ updateLead(u) \/ removeLead(u) \/ getLead(u) \/ RegisterStore(u)
             \/ setLeadStage(u) \/ BreakOff(u) \/ createStore(u) \/ ReadStore(u)
             \/ PatchStore(u)
      PROVE  LeadsInv'
    BY <1>1, EditLeadKeeps, GetLeadKeeps, RegisterKeeps, SetStageKeeps, BreakOffKeeps,
       CreateStoreKeeps, ReadStoreKeeps, PatchKeeps
<1>2. CASE DayPasses \/ UNCHANGED leadsVars
  <2>1. UNCHANGED <<lead, storeReg, storeFor, told, fieldCall>>
      BY <1>2 DEF DayPasses, leadsVars
  <2>2. Kept
      BY <2>1 DEF Kept
  <2>3. CallsHonest'
      BY <2>1, <2>2, NobodyMoves DEF LeadsInv
  <2>4. RowsTyped' /\ OpenedLeadHasStore' /\ AuditTellsStore'
      BY <2>1 DEF LeadsInv, RowsTyped, OpenedLeadHasStore, AuditTellsStore
  <2> QED BY <2>3, <2>4 DEF LeadsInv
<1> QED BY <1>1, <1>2 DEF LeadsNext

(* A lead at the last stage has a store that was registered for it, for    *)
(* any leads, users at once and requests broken off in between.            *)
THEOREM OpenedWithStore == LeadsSpec => []OpenedLeadHasStore
<1>1. LeadsInit => LeadsInv
    BY LeadsInitHolds
<1>2. LeadsInv => OpenedLeadHasStore
    BY DEF LeadsInv
<1> QED BY <1>1, <1>2, LeadsStep, PTL DEF LeadsSpec

(* A store is what its audit entries say, whatever older copies of it are  *)
(* being edited.                                                           *)
THEOREM AuditedStores == LeadsSpec => []AuditTellsStore
<1>1. LeadsInit => LeadsInv
    BY LeadsInitHolds
<1>2. LeadsInv => AuditTellsStore
    BY DEF LeadsInv
<1> QED BY <1>1, <1>2, LeadsStep, PTL DEF LeadsSpec

-----------------------------------------------------------------------------
(***************************************************************************)
(* Openings: a project is ready when nothing is late.                      *)
(*                                                                         *)
(* A project is committed with all the tasks of its template; of these no  *)
(* request changes the project, the title or the offset, and no request    *)
(* changes the kind of store.                                              *)
(***************************************************************************)

TaskRow == [storeType : StoreTypes, openDate : OpeningDays, stage : OpeningStages, confirmed : BOOLEAN]
Task == [opening : Projects, title : Titles \union {item.title : item \in Template}, offset : Int,
         custom : BOOLEAN, done : BOOLEAN, doneBy : Planners \union {"nobody"}]
Creating == [at : {"create"}, opening : Projects, tasks : SUBSET Task, row : TaskRow]

OpeningsTyped ==
    /\ opening \in [Projects -> TaskRow \union {NoProject}]
    /\ tasks \subseteq Task /\ IsFiniteSet(tasks)
    /\ planner \in [Planners -> Creating \union {Rested}]
    /\ \A p \in Planners : Planning(p, "create") => IsFiniteSet(planner[p].tasks)
    /\ openingDay \in Int

(* Every project has a task of each item of its template, never moved.     *)
IsOf(task, o, item) == task.opening = o /\ task.title = item.title /\ task.offset = item.offset
HasTask(o, item) == \E task \in tasks : IsOf(task, o, item)
TemplateIsThere ==
    \A o \in OldOpening : \A item \in templateFor(opening[o].storeType) : HasTask(o, item)

OpeningsInv == OpeningsTyped /\ TemplateIsThere

-----------------------------------------------------------------------------
LEMMA OpeningsInitHolds == OpeningsInit => OpeningsInv
<1> SUFFICES ASSUME OpeningsInit PROVE OpeningsInv
    OBVIOUS
<1>1. OpeningsTyped
    BY FS_EmptySet DEF OpeningsInit, OpeningsTyped, Planning, Rested
<1>2. TemplateIsThere
    BY DEF OpeningsInit, TemplateIsThere, OldOpening
<1> QED BY <1>1, <1>2 DEF OpeningsInv

LEMMA NewTaskType ==
    ASSUME NEW o \in Projects, NEW item \in Template
    PROVE  NewTask(o, item, FALSE) \in Task /\ IsOf(NewTask(o, item, FALSE), o, item)
BY TemplateAssumption DEF NewTask, Task, IsOf

LEMMA CreatingType ==
    ASSUME OpeningsTyped, NEW p \in Planners, Planning(p, "create")
    PROVE  planner[p] \in Creating
BY DEF OpeningsTyped, Planning, Rested

(* One planner begins, goes on or breaks off; nothing is written.          *)
LEMMA PlannerStep ==
    ASSUME OpeningsInv, NEW p \in Planners, NEW r \in Creating \union {Rested},
           planner' = [planner EXCEPT ![p] = r], r.at = "create" => IsFiniteSet(r.tasks),
           UNCHANGED <<opening, tasks, openingDay>>
    PROVE  OpeningsInv'
BY DEF OpeningsInv, OpeningsTyped, TemplateIsThere, HasTask, Planning, OldOpening

LEMMA CreateOpeningKeeps ==
    ASSUME OpeningsInv, NEW p \in Planners, create(p)
    PROVE  OpeningsInv'
<1>1. PICK o \in Projects, type \in StoreTypes, day \in OpeningDays, stage \in {"consulting", "active"} :
          planner' = [planner EXCEPT ![p] =
              [at |-> "create", opening |-> o, tasks |-> {},
               row |-> [storeType |-> type, openDate |-> day, stage |-> stage, confirmed |-> FALSE]]]
    BY DEF create
<1>2. PICK row \in TaskRow :
          row = [storeType |-> type, openDate |-> day, stage |-> stage, confirmed |-> FALSE]
  <2>1. [storeType |-> type, openDate |-> day, stage |-> stage, confirmed |-> FALSE] \in TaskRow
      BY DEF TaskRow, OpeningStages
  <2> QED BY <2>1
<1>3. PICK r \in Creating : /\ r = [at |-> "create", opening |-> o, tasks |-> {}, row |-> row]
                            /\ r.tasks = {}
  <2>1. [at |-> "create", opening |-> o, tasks |-> {}, row |-> row] \in Creating
      BY DEF Creating
  <2> QED BY <2>1
<1> QED BY <1>1, <1>2, <1>3, PlannerStep, FS_EmptySet DEF create

(* The project appears together with all the tasks of its template.        *)
LEMMA InsertTaskKeeps ==
    ASSUME OpeningsInv, NEW p \in Planners, InsertTask(p)
    PROVE  OpeningsInv'
<1>1. PICK r \in Creating : r = planner[p] /\ IsFiniteSet(r.tasks)
    BY CreatingType DEF InsertTask, OpeningsInv, OpeningsTyped
<1>2. PICK o \in Projects : o = r.opening
    BY DEF Creating
<1>3. PICK row \in TaskRow : row = r.row
    BY DEF Creating
<1>4. CASE ItemsLeft(p) = {}
  <2>1. /\ opening' = [opening EXCEPT ![o] = row] /\ tasks' = tasks \union r.tasks
        /\ planner' = [planner EXCEPT ![p] = Rested] /\ UNCHANGED openingDay
      BY <1>1, <1>2, <1>3, <1>4 DEF InsertTask, CommitsNow
  <2>2. IsFiniteSet(tasks') /\ tasks' \subseteq Task
      BY <1>1, <2>1, FS_Union DEF OpeningsInv, OpeningsTyped, Creating
  <2>3. OpeningsTyped'
      BY <2>1, <2>2 DEF OpeningsInv, OpeningsTyped, Planning, Rested
  <2>4. ASSUME NEW q \in OldOpening', NEW item \in templateFor(opening'[q].storeType)
        PROVE  HasTask(q, item)'
    <3>1. CASE q = o
      <4>1. item \in templateFor(row.storeType) /\ item \in Template
          BY <2>1, <2>4, <3>1 DEF OpeningsInv, OpeningsTyped, templateFor
      <4>2. NewTask(o, item, FALSE) \in r.tasks
          BY <1>1, <1>2, <1>3, <1>4, <4>1 DEF ItemsLeft
      <4> QED BY <2>1, <3>1, <4>1, <4>2, NewTaskType DEF HasTask
    <3>2. CASE q # o
      <4>1. q \in OldOpening /\ opening'[q] = opening[q]
          BY <2>1, <2>4, <3>2 DEF OldOpening, OpeningsInv, OpeningsTyped
      <4> QED BY <2>1, <2>4, <4>1 DEF OpeningsInv, TemplateIsThere, HasTask
    <3> QED BY <3>1, <3>2
  <2> QED BY <2>3, <2>4 DEF OpeningsInv, TemplateIsThere
<1>5. CASE ItemsLeft(p) # {}
  <2>1. PICK item \in ItemsLeft(p) :
            planner' = [planner EXCEPT ![p].tasks = @ \union {NewTask(planner[p].opening, item, FALSE)}]
      BY <1>5 DEF InsertTask
  <2>2. PICK task \in Task : task = NewTask(o, item, FALSE)
      BY <2>1, NewTaskType DEF ItemsLeft, templateFor
  <2>3. PICK more \in SUBSET Task : more = r.tasks \union {task} /\ IsFiniteSet(more)
    <3>1. r.tasks \union {task} \in SUBSET Task /\ IsFiniteSet(r.tasks \union {task})
        BY <1>1, FS_AddElement DEF Creating
    <3> QED BY <3>1
  <2>4. PICK n : n = [r EXCEPT !.tasks = more]
      OBVIOUS
  <2>5. n = [at |-> "create", opening |-> r.opening, tasks |-> more, row |-> r.row]
      BY <2>4 DEF Creating
  <2>6. n \in Creating /\ n.tasks = more
      BY <2>5 DEF Creating
  <2>7. planner' = [planner EXCEPT ![p] = n]
      BY <1>1, <1>2, <2>1, <2>2, <2>3, <2>4 DEF OpeningsInv, OpeningsTyped
  <2>8. UNCHANGED <<opening, tasks, openingDay>>
      BY <1>5 DEF InsertTask, CommitsNow
  <2> QED BY <2>3, <2>6, <2>7, <2>8, PlannerStep
<1> QED BY <1>4, <1>5

-----------------------------------------------------------------------------
(* A project keeps its kind of store.                                      *)
LEMMA RowStep ==
    ASSUME OpeningsInv, NEW o \in OldOpening, NEW row \in TaskRow,
           opening' = [opening EXCEPT ![o] = row], row.storeType = opening[o].storeType,
           UNCHANGED <<tasks, planner, openingDay>>
    PROVE  OpeningsInv'
<1>1. OpeningsTyped'
    BY DEF OpeningsInv, OpeningsTyped, OldOpening, Planning
<1>2. ASSUME NEW q \in OldOpening'
      PROVE  q \in OldOpening /\ opening'[q].storeType = opening[q].storeType
    BY <1>2 DEF OpeningsInv, OpeningsTyped, OldOpening
<1>3. TemplateIsThere'
    BY <1>2 DEF OpeningsInv, TemplateIsThere, HasTask
<1> QED BY <1>1, <1>3 DEF OpeningsInv

LEMMA PatchOpeningKeeps ==
    ASSUME OpeningsInv, NEW p \in Planners, PatchOpening(p)
    PROVE  OpeningsInv'
<1>1. UNCHANGED <<tasks, planner, openingDay>>
    BY DEF PatchOpening, confirmOpen, setStage, reschedule
<1>2. CASE confirmOpen(p)
  <2>1. PICK o \in OldOpening : opening' = [opening EXCEPT ![o].confirmed = TRUE, ![o].stage = "done"]
      BY <1>2 DEF confirmOpen
  <2>2. PICK r \in TaskRow : r = opening[o]
      BY DEF OldOpening, OpeningsInv, OpeningsTyped
  <2>3. PICK row : row = [r EXCEPT !.confirmed = TRUE, !.stage = "done"]
      OBVIOUS
  <2>4. row = [storeType |-> r.storeType, openDate |-> r.openDate, stage |-> "done", confirmed |-> TRUE]
      BY <2>3 DEF TaskRow
  <2>5. row \in TaskRow /\ row.storeType = r.storeType
      BY <2>4 DEF TaskRow, OpeningStages
  <2>6. opening' = [opening EXCEPT ![o] = row]
      BY <2>1, <2>2, <2>3 DEF OpeningsInv, OpeningsTyped, OldOpening
  <2> QED BY <1>1, <2>2, <2>5, <2>6, RowStep
<1>3. CASE setStage(p)
  <2>1. PICK o \in OldOpening, stage \in OpeningStages : opening' = [opening EXCEPT ![o].stage = stage]
      BY <1>3 DEF setStage
  <2>2. PICK r \in TaskRow : r = opening[o]
      BY DEF OldOpening, OpeningsInv, OpeningsTyped
  <2>3. PICK row : row = [r EXCEPT !.stage = stage]
      OBVIOUS
  <2>4. row = [storeType |-> r.storeType, openDate |-> r.openDate, stage |-> stage,
               confirmed |-> r.confirmed]
      BY <2>3 DEF TaskRow
  <2>5. row \in TaskRow /\ row.storeType = r.storeType
      BY <2>4 DEF TaskRow
  <2>6. opening' = [opening EXCEPT ![o] = row]
      BY <2>1, <2>2, <2>3 DEF OpeningsInv, OpeningsTyped, OldOpening
  <2> QED BY <1>1, <2>2, <2>5, <2>6, RowStep
<1>4. CASE reschedule(p)
  <2>1. PICK o \in OldOpening, day \in OpeningDays : opening' = [opening EXCEPT ![o].openDate = day]
      BY <1>4 DEF reschedule
  <2>2. PICK r \in TaskRow : r = opening[o]
      BY DEF OldOpening, OpeningsInv, OpeningsTyped
  <2>3. PICK row : row = [r EXCEPT !.openDate = day]
      OBVIOUS
  <2>4. row = [storeType |-> r.storeType, openDate |-> day, stage |-> r.stage, confirmed |-> r.confirmed]
      BY <2>3 DEF TaskRow
  <2>5. row \in TaskRow /\ row.storeType = r.storeType
      BY <2>4 DEF TaskRow
  <2>6. opening' = [opening EXCEPT ![o] = row]
      BY <2>1, <2>2, <2>3 DEF OpeningsInv, OpeningsTyped, OldOpening
  <2> QED BY <1>1, <2>2, <2>5, <2>6, RowStep
<1> QED BY <1>2, <1>3, <1>4 DEF PatchOpening

(* A tick changes neither what a task is of nor when it is due.            *)
LEMMA PatchTasksKeeps ==
    ASSUME OpeningsInv, NEW p \in Planners, PatchTasks(p)
    PROVE  OpeningsInv'
<1>1. UNCHANGED <<opening, planner, openingDay>>
    BY DEF PatchTasks, toggleTask, addTask
<1>2. CASE toggleTask(p)
  <2>1. PICK task \in tasks, done \in BOOLEAN :
            tasks' = (tasks \ {task}) \union
                {[task EXCEPT !.done = done, !.doneBy = IF done THEN p ELSE "nobody"]}
      BY <1>2 DEF toggleTask
  <2>2. PICK by \in Planners \union {"nobody"} : by = IF done THEN p ELSE "nobody"
      OBVIOUS
  <2>3. PICK new : new = [task EXCEPT !.done = done, !.doneBy = by]
      OBVIOUS
  <2>4. task \in Task
      BY DEF OpeningsInv, OpeningsTyped
  <2>5. new = [opening |-> task.opening, title |-> task.title, offset |-> task.offset,
               custom |-> task.custom, done |-> done, doneBy |-> by]
      BY <2>3, <2>4 DEF Task
  <2>6. new \in Task /\ new.opening = task.opening /\ new.title = task.title /\ new.offset = task.offset
      BY <2>4, <2>5 DEF Task
  <2>7. tasks' = (tasks \ {task}) \union {new}
      BY <2>1, <2>2, <2>3
  <2>8. IsFiniteSet(tasks')
    <3>1. IsFiniteSet(tasks \ {task})
        BY FS_RemoveElement DEF OpeningsInv, OpeningsTyped
    <3> QED BY <2>7, <3>1, FS_AddElement
  <2>9. OpeningsTyped'
      BY <1>1, <2>6, <2>7, <2>8 DEF OpeningsInv, OpeningsTyped, Planning
  <2>10. \A o, item : HasTask(o, item) => HasTask(o, item)'
      BY <2>6, <2>7 DEF HasTask, IsOf
  <2> QED BY <1>1, <2>9, <2>10 DEF OpeningsInv, TemplateIsThere, OldOpening
<1>3. CASE addTask(p)
  <2>1. PICK o \in OldOpening, title \in Titles, offset \in {-1, 1} :
            tasks' = tasks \union {NewTask(o, [title |-> title, offset |-> offset], TRUE)}
      BY <1>3 DEF addTask
  <2>2. PICK new \in Task : new = NewTask(o, [title |-> title, offset |-> offset], TRUE)
    <3>1. NewTask(o, [title |-> title, offset |-> offset], TRUE) \in Task
        BY DEF NewTask, Task, OldOpening
    <3> QED BY <3>1
  <2>3. IsFiniteSet(tasks') /\ tasks' \subseteq Task /\ tasks \subseteq tasks'
      BY <2>1, <2>2, FS_AddElement DEF OpeningsInv, OpeningsTyped
  <2>4. OpeningsTyped'
      BY <1>1, <2>3 DEF OpeningsInv, OpeningsTyped, Planning
  <2> QED BY <1>1, <2>3, <2>4 DEF OpeningsInv, TemplateIsThere, HasTask, OldOpening
<1> QED BY <1>2, <1>3 DEF PatchTasks

LEMMA OpeningsStepHolds == OpeningsInv /\ [OpeningsNext]_openingsVars => OpeningsInv'
<1> SUFFICES ASSUME OpeningsInv, [OpeningsNext]_openingsVars PROVE OpeningsInv'
    OBVIOUS
<1>1. ASSUME NEW p \in Planners, OpeningRollback(p) PROVE OpeningsInv'
  <2>1. Rested \in Creating \union {Rested} /\ Rested.at # "create"
      BY DEF Rested
  <2> QED BY <1>1, <2>1, PlannerStep DEF OpeningRollback
<1>2. ASSUME NEW p \in Planners,
             create(p) \/ InsertTask(p) \/ PatchOpening(p) \/ PatchTasks(p)
      PROVE  OpeningsInv'
    BY <1>2, CreateOpeningKeeps, InsertTaskKeeps, PatchOpeningKeeps, PatchTasksKeeps
<1>3. CASE DayBreaks
    BY <1>3 DEF DayBreaks, OpeningsInv, OpeningsTyped, TemplateIsThere, HasTask, Planning, OldOpening
<1>4. CASE UNCHANGED openingsVars
    BY <1>4 DEF openingsVars, OpeningsInv, OpeningsTyped, TemplateIsThere, HasTask, Planning, OldOpening
<1> QED BY <1>1, <1>2, <1>3, <1>4 DEF OpeningsNext

(* When the day of an active project has passed and its board shows        *)
(* nothing late, its whole template is done (create, toggleTask,           *)
(* decorateTasks).                                                         *)
THEOREM ReadyWhenNothingIsLate == OpeningsSpec => []NothingLateIsReady
<1>1. OpeningsInv => NothingLateIsReady
  <2> SUFFICES ASSUME OpeningsInv, NEW o \in OldOpening, opening[o].stage = "active",
                      opening[o].openDate < openingDay, Summary(o, openingDay).overdue = 0,
                      NEW item \in templateFor(opening[o].storeType)
               PROVE  \E task \in TasksOf(o) : task.title = item.title /\ task.done
      BY DEF NothingLateIsReady
  <2>1. PICK late : late = {task \in TasksOf(o) : Overdue(opening[o], task, openingDay)}
      OBVIOUS
  <2>2. Cardinality(late) = 0 /\ IsFiniteSet(late)
    <3>1. IsFiniteSet(tasks) /\ late \subseteq tasks
        BY <2>1 DEF OpeningsInv, OpeningsTyped, TasksOf
    <3> QED BY <2>1, <3>1, FS_Subset DEF Summary
  <2>3. late = {}
      BY <2>2, FS_EmptySet
  <2>4. PICK task \in tasks : IsOf(task, o, item)
      BY DEF OpeningsInv, TemplateIsThere, HasTask
  <2>5. task \in TasksOf(o) /\ ~Overdue(opening[o], task, openingDay)
      BY <2>1, <2>3, <2>4 DEF TasksOf, IsOf
  <2>6. item \in Template /\ item.offset \in Int /\ item.offset <= 0
      BY TemplateAssumption DEF templateFor
  <2>7. opening[o].openDate \in Int /\ openingDay \in Int
      BY TemplateAssumption DEF OpeningsInv, OpeningsTyped, OldOpening, TaskRow
  <2>8. Deadline(opening[o], task) < openingDay
      BY <2>4, <2>6, <2>7 DEF Deadline, IsOf
  <2>9. task.done
      BY <2>5, <2>8 DEF Overdue
  <2> QED BY <2>4, <2>5, <2>9 DEF IsOf
<1> QED BY <1>1, OpeningsInitHolds, OpeningsStepHolds, PTL DEF OpeningsSpec

-----------------------------------------------------------------------------
(***************************************************************************)
(* WorkerRuntime: whole schedules and stopped workers.                     *)
(*                                                                         *)
(* The slot that a worker is about to queue is locked, so that it is not   *)
(* queued yet and stays so until its commit; what is due is queued or still*)
(* to do.  A worker that is stopping begins no cycle.                      *)
(***************************************************************************)

(* The slots a schedule may queue.                                         *)
AnySlot == [topic : {"settlement.monthly_close", "bank.sync", "invoice.reconcile", "pos.sync"},
            at : Nat]
Process == [on : {TRUE}, timer : BOOLEAN, stopping : BOOLEAN,
            stop : {"no", "waiting", "beat", "closed"},
            cycle : {"none", "beat", "schedule", "enqueue", "process"},
            now : Nat, todo : Seq(AnySlot), broken : BOOLEAN, unseen : BOOLEAN]

RuntimeTyped ==
    /\ host \in [Hosts -> Process \union {Off}]
    /\ DOMAIN beats = Hosts /\ minute \in Nat

(* Every slot due at the time of the schedule is queued or still to do; at *)
(* the end nothing is to do, unless a statement failed.                    *)
InTodo(slot, p) == \E i \in 1 .. Len(p.todo) : p.todo[i] = slot
ScheduleHonest(p) ==
    /\ p.cycle \in {"schedule", "enqueue"} =>
          \A slot \in ToSet(DueSlots(p.now)) : slot \in queued \/ InTodo(slot, p)
    /\ p.cycle = "process" /\ ~p.broken => ToSet(DueSlots(p.now)) \subseteq queued

(* The slot being committed is locked: nobody has queued it, and nobody    *)
(* else is about to.                                                       *)
Locking(p) == p.on /\ p.cycle = "enqueue"
LocksHonest ==
    /\ \A h \in Hosts : Locking(host[h]) =>
          host[h].todo # <<>> /\ Head(host[h].todo) \notin queued
    /\ \A g, h \in Hosts : Locking(host[g]) /\ Locking(host[h])
          /\ Head(host[g].todo) = Head(host[h].todo) => g = h

(* A worker past the last cycle does nothing but say so.                   *)
StopHonest(h, p) ==
    /\ p.stop # "no" => p.stopping
    /\ p.stop \in {"beat", "closed"} => p.cycle = "none"
    /\ p.stop = "closed" /\ ~p.unseen => beats[h].state = "stopping"

RuntimeInv ==
    /\ RuntimeTyped /\ LocksHonest
    /\ \A h \in Hosts : On(h) => ScheduleHonest(host[h]) /\ StopHonest(h, host[h])

-----------------------------------------------------------------------------
LEMMA DueSlotsType == ASSUME NEW now \in Nat PROVE DueSlots(now) \in Seq(AnySlot)
<1>1. PICK day \in Nat : day = SeoulDay(now)
    BY SlotAssumption DEF SeoulDay
<1>2. /\ Slot("settlement.monthly_close", 0) \in AnySlot /\ Slot("bank.sync", day) \in AnySlot
      /\ Slot("invoice.reconcile", now) \in AnySlot /\ Slot("pos.sync", now) \in AnySlot
    BY DEF Slot, AnySlot
<1>3. PICK a \in Seq(AnySlot) : a = <<Slot("settlement.monthly_close", 0)>>
  <2>1. <<Slot("settlement.monthly_close", 0)>> \in Seq(AnySlot)
      BY <1>2
  <2> QED BY <2>1
<1>4. PICK b \in Seq(AnySlot) : b = IF BankSyncReady THEN <<Slot("bank.sync", SeoulDay(now))>> ELSE <<>>
  <2>1. <<Slot("bank.sync", day)>> \in Seq(AnySlot) /\ <<>> \in Seq(AnySlot)
      BY <1>2
  <2> QED BY <1>1, <2>1
<1>5. PICK c \in Seq(AnySlot) :
          c = IF now % InvoiceEvery = 0 THEN <<Slot("invoice.reconcile", now)>> ELSE <<>>
  <2>1. <<Slot("invoice.reconcile", now)>> \in Seq(AnySlot) /\ <<>> \in Seq(AnySlot)
      BY <1>2
  <2> QED BY <2>1
<1>6. PICK d \in Seq(AnySlot) : d = IF now % PosEvery = 0 THEN <<Slot("pos.sync", now)>> ELSE <<>>
  <2>1. <<Slot("pos.sync", now)>> \in Seq(AnySlot) /\ <<>> \in Seq(AnySlot)
      BY <1>2
  <2> QED BY <2>1
<1>7. DueSlots(now) = a \o b \o c \o d
    BY <1>3, <1>4, <1>5, <1>6 DEF DueSlots
<1>8. PICK ab \in Seq(AnySlot) : ab = a \o b
    BY ConcatProperties
<1>9. PICK abc \in Seq(AnySlot) : abc = ab \o c
    BY ConcatProperties
<1>10. abc \o d \in Seq(AnySlot)
    BY ConcatProperties
<1> QED BY <1>7, <1>8, <1>9, <1>10

(* The first slot is done with: those that are left are the others.        *)
LEMMA TodoTail ==
    ASSUME NEW todo \in Seq(AnySlot), todo # <<>>
    PROVE  /\ Tail(todo) \in Seq(AnySlot)
           /\ \A i \in 1 .. Len(todo) :
                 todo[i] = Head(todo) \/ \E j \in 1 .. Len(Tail(todo)) : Tail(todo)[j] = todo[i]
<1>1. /\ Tail(todo) \in Seq(AnySlot) /\ Len(Tail(todo)) = Len(todo) - 1 /\ Len(todo) \in Nat
      /\ \A i \in 1 .. Len(Tail(todo)) : Tail(todo)[i] = todo[i + 1]
    BY HeadTailProperties
<1>2. ASSUME NEW i \in 1 .. Len(todo), i # 1
      PROVE  \E j \in 1 .. Len(Tail(todo)) : Tail(todo)[j] = todo[i]
  <2>1. PICK j \in 1 .. Len(Tail(todo)) : i = j + 1
    <3>1. i - 1 \in 1 .. Len(Tail(todo)) /\ i = (i - 1) + 1
        BY <1>1, <1>2
    <3> QED BY <3>1
  <2> QED BY <1>1, <2>1
<1>3. todo[1] = Head(todo)
    OBVIOUS
<1> QED BY <1>1, <1>2, <1>3

LEMMA RuntimeInitHolds == RuntimeInit => RuntimeInv
BY DEF RuntimeInit, RuntimeInv, RuntimeTyped, LocksHonest, Locking, On, Off

LEMMA HostType ==
    ASSUME RuntimeTyped, NEW h \in Hosts, On(h)
    PROVE  host[h] \in Process
BY DEF RuntimeTyped, On, Off

-----------------------------------------------------------------------------
(* A step of one worker that queues nothing and takes no lock.             *)
LEMMA QuietStep ==
    ASSUME RuntimeInv, NEW h \in Hosts, NEW p \in Process \union {Off},
           host' = [host EXCEPT ![h] = p],
           UNCHANGED <<queued, minute>>,
           DOMAIN beats' = Hosts, \A g \in Hosts \ {h} : beats'[g] = beats[g],
           ~Locking(p),
           p.on => ScheduleHonest(p) /\ StopHonest(h, p)'
    PROVE  RuntimeInv'
<1>1. host'[h] = p /\ \A g \in Hosts \ {h} : host'[g] = host[g]
    BY DEF RuntimeInv, RuntimeTyped
<1>2. RuntimeTyped'
    BY DEF RuntimeInv, RuntimeTyped
<1>3. LocksHonest'
    BY <1>1 DEF RuntimeInv, LocksHonest, Locking
<1>4. ASSUME NEW g \in Hosts, On(g)'
      PROVE  ScheduleHonest(host[g])' /\ StopHonest(g, host[g])'
  <2>1. CASE g = h
      BY <1>1, <1>4, <2>1 DEF On, ScheduleHonest, StopHonest, InTodo
  <2>2. CASE g # h
      BY <1>1, <1>4, <2>2 DEF RuntimeInv, On, ScheduleHonest, StopHonest, InTodo
  <2> QED BY <2>1, <2>2
<1> QED BY <1>2, <1>3, <1>4 DEF RuntimeInv

(* The steps of a worker, by what its process becomes.                     *)
LEMMA StartKeeps ==
    ASSUME RuntimeInv, NEW h \in Hosts, start(h)
    PROVE  RuntimeInv'
<1>1. PICK none \in Seq(AnySlot) : none = <<>>
  <2>1. <<>> \in Seq(AnySlot)
      OBVIOUS
  <2> QED BY <2>1
<1>2. PICK p \in Process :
          /\ p = [on |-> TRUE, timer |-> FALSE, stopping |-> FALSE, stop |-> "no", cycle |-> "beat",
                  now |-> minute, todo |-> none, broken |-> FALSE, unseen |-> FALSE]
          /\ p.cycle = "beat" /\ p.stop = "no"
  <2>1. [on |-> TRUE, timer |-> FALSE, stopping |-> FALSE, stop |-> "no", cycle |-> "beat",
         now |-> minute, todo |-> none, broken |-> FALSE, unseen |-> FALSE] \in Process
      BY DEF Process, RuntimeInv, RuntimeTyped
  <2> QED BY <2>1
<1>3. host' = [host EXCEPT ![h] = p] /\ UNCHANGED <<beats, queued, minute>>
    BY <1>1, <1>2 DEF start
<1>4. ~Locking(p) /\ ScheduleHonest(p) /\ StopHonest(h, p)'
    BY <1>2 DEF Locking, ScheduleHonest, StopHonest
<1>5. p \in Process \union {Off} /\ DOMAIN beats' = Hosts /\ \A g \in Hosts \ {h} : beats'[g] = beats[g]
    BY <1>3 DEF RuntimeInv, RuntimeTyped
<1> QED BY <1>3, <1>4, <1>5, QuietStep

LEMMA ExitKeeps ==
    ASSUME RuntimeInv, NEW h \in Hosts, Exit(h) \/ Killed(h)
    PROVE  RuntimeInv'
<1>1. host' = [host EXCEPT ![h] = Off] /\ UNCHANGED <<beats, queued, minute>>
    BY DEF Exit, Killed
<1>2. Off \in Process \union {Off} /\ ~Off.on /\ ~Locking(Off)
    BY DEF Off, Locking
<1>3. DOMAIN beats' = Hosts /\ \A g \in Hosts \ {h} : beats'[g] = beats[g]
    BY <1>1 DEF RuntimeInv, RuntimeTyped
<1> QED BY <1>1, <1>2, <1>3, QuietStep

LEMMA TickKeeps ==
    ASSUME RuntimeInv, NEW h \in Hosts, tick(h)
    PROVE  RuntimeInv'
<1>1. PICK r \in Process : r = host[h] /\ ~r.stopping
    BY HostType DEF tick, Cycle, RuntimeInv
<1>2. StopHonest(h, r)
    BY <1>1 DEF RuntimeInv, tick, Cycle, On
<1>3. PICK p \in Process : /\ p = [r EXCEPT !.cycle = "beat", !.now = minute]
                           /\ p.cycle = "beat" /\ p.stop = r.stop
  <2>1. PICK p : p = [r EXCEPT !.cycle = "beat", !.now = minute]
      OBVIOUS
  <2>2. p = [on |-> r.on, timer |-> r.timer, stopping |-> r.stopping, stop |-> r.stop, cycle |-> "beat",
             now |-> minute, todo |-> r.todo, broken |-> r.broken, unseen |-> r.unseen]
      BY <2>1 DEF Process
  <2>3. p \in Process /\ p.cycle = "beat" /\ p.stop = r.stop
      BY <2>2 DEF Process, RuntimeInv, RuntimeTyped
  <2> QED BY <2>1, <2>3
<1>4. host' = [host EXCEPT ![h] = p] /\ UNCHANGED <<beats, queued, minute>>
    BY <1>1, <1>3 DEF tick, RuntimeInv, RuntimeTyped
<1>5. r.stop = "no"
    BY <1>1, <1>2 DEF StopHonest, Process
<1>6. ~Locking(p) /\ ScheduleHonest(p) /\ StopHonest(h, p)'
    BY <1>3, <1>5 DEF Locking, ScheduleHonest, StopHonest
<1>7. p \in Process \union {Off} /\ DOMAIN beats' = Hosts /\ \A g \in Hosts \ {h} : beats'[g] = beats[g]
    BY <1>4 DEF RuntimeInv, RuntimeTyped
<1> QED BY <1>4, <1>6, <1>7, QuietStep

(* The schedule begins with all that is due at its time.                   *)
LEMMA HeartbeatKeeps ==
    ASSUME RuntimeInv, NEW h \in Hosts, heartbeat(h)
    PROVE  RuntimeInv'
<1>1. PICK r \in Process : r = host[h] /\ r.cycle = "beat"
    BY HostType DEF heartbeat, Cycle, RuntimeInv
<1>2. StopHonest(h, r)
    BY <1>1 DEF RuntimeInv, heartbeat, Cycle, On
<1>3. PICK todo \in Seq(AnySlot) : todo = DueSlots(minute)
    BY DueSlotsType DEF RuntimeInv, RuntimeTyped
<1>4. PICK p \in Process :
          /\ p = [r EXCEPT !.cycle = "schedule", !.now = minute, !.todo = todo, !.broken = FALSE]
          /\ p.cycle = "schedule" /\ p.stop = r.stop /\ p.stopping = r.stopping
          /\ p.now = minute /\ p.todo = todo
  <2>1. PICK p : p = [r EXCEPT !.cycle = "schedule", !.now = minute, !.todo = todo, !.broken = FALSE]
      OBVIOUS
  <2>2. p = [on |-> r.on, timer |-> r.timer, stopping |-> r.stopping, stop |-> r.stop,
             cycle |-> "schedule", now |-> minute, todo |-> todo, broken |-> FALSE,
             unseen |-> r.unseen]
      BY <2>1 DEF Process
  <2>3. /\ p \in Process /\ p.cycle = "schedule" /\ p.stop = r.stop /\ p.stopping = r.stopping
        /\ p.now = minute /\ p.todo = todo
      BY <2>2 DEF Process, RuntimeInv, RuntimeTyped
  <2> QED BY <2>1, <2>3
<1>5. host' = [host EXCEPT ![h] = p] /\ UNCHANGED <<queued, minute>>
    BY <1>1, <1>3, <1>4 DEF heartbeat, RuntimeInv, RuntimeTyped
<1>6. DOMAIN beats' = Hosts /\ \A g \in Hosts \ {h} : beats'[g] = beats[g]
    BY DEF heartbeat, WriteBeat, RuntimeInv, RuntimeTyped
<1>7. ScheduleHonest(p)
    BY <1>3, <1>4 DEF ScheduleHonest, InTodo, ToSet
<1>8. ~Locking(p) /\ StopHonest(h, p)'
    BY <1>1, <1>2, <1>4 DEF Locking, StopHonest
<1>9. p \in Process \union {Off}
    OBVIOUS
<1> QED BY <1>5, <1>6, <1>7, <1>8, <1>9, QuietStep

LEMMA ScheduleEndKeeps ==
    ASSUME RuntimeInv, NEW h \in Hosts, ScheduleFails(h) \/ ScheduleDone(h) \/ processOnce(h)
    PROVE  RuntimeInv'
<1>1. PICK r \in Process : r = host[h] /\ ScheduleHonest(r) /\ StopHonest(h, r) /\ On(h)
    BY HostType DEF ScheduleFails, ScheduleDone, processOnce, Cycle, RuntimeInv
<1>2. UNCHANGED <<beats, queued, minute>> /\ DOMAIN beats' = Hosts
      /\ \A g \in Hosts \ {h} : beats'[g] = beats[g]
    BY DEF ScheduleFails, ScheduleDone, processOnce, RuntimeInv, RuntimeTyped
<1>3. CASE ScheduleFails(h)
  <2>1. PICK p : p = [r EXCEPT !.cycle = "process", !.broken = TRUE]
      OBVIOUS
  <2>2. p = [on |-> r.on, timer |-> r.timer, stopping |-> r.stopping, stop |-> r.stop,
             cycle |-> "process", now |-> r.now, todo |-> r.todo, broken |-> TRUE, unseen |-> r.unseen]
      BY <2>1 DEF Process
  <2>3. /\ p \in Process \union {Off} /\ p.cycle = "process" /\ p.stop = r.stop
        /\ p.stopping = r.stopping /\ p.broken
      BY <2>2 DEF Process
  <2>4. host' = [host EXCEPT ![h] = p]
      BY <1>1, <1>3, <2>1 DEF ScheduleFails, RuntimeInv, RuntimeTyped
  <2>5. r.stop \notin {"beat", "closed"}
      BY <1>1, <1>3 DEF ScheduleFails, Cycle, StopHonest
  <2>6. ~Locking(p) /\ ScheduleHonest(p) /\ StopHonest(h, p)'
      BY <1>1, <2>3, <2>5 DEF Locking, ScheduleHonest, StopHonest
  <2> QED BY <1>2, <2>3, <2>4, <2>6, QuietStep
<1>4. CASE ScheduleDone(h)
  <2>1. PICK p : p = [r EXCEPT !.cycle = "process"]
      OBVIOUS
  <2>2. p = [on |-> r.on, timer |-> r.timer, stopping |-> r.stopping, stop |-> r.stop,
             cycle |-> "process", now |-> r.now, todo |-> r.todo, broken |-> r.broken, unseen |-> r.unseen]
      BY <2>1 DEF Process
  <2>3. /\ p \in Process \union {Off} /\ p.cycle = "process" /\ p.stop = r.stop
        /\ p.stopping = r.stopping /\ p.now = r.now
      BY <2>2 DEF Process
  <2>4. host' = [host EXCEPT ![h] = p] /\ r.cycle = "schedule" /\ r.todo = <<>>
      BY <1>1, <1>4, <2>1 DEF ScheduleDone, Cycle, RuntimeInv, RuntimeTyped
  <2>5. r.stop \notin {"beat", "closed"}
      BY <1>1, <2>4 DEF StopHonest
  <2>6. \A slot \in ToSet(DueSlots(r.now)) : slot \in queued
    <3>1. Len(r.todo) = 0
        BY <2>4
    <3> QED BY <1>1, <2>4, <3>1 DEF ScheduleHonest, InTodo
  <2>7. ScheduleHonest(p)
      BY <2>3, <2>6 DEF ScheduleHonest
  <2>8. ~Locking(p) /\ StopHonest(h, p)'
      BY <1>1, <2>3, <2>5 DEF Locking, StopHonest
  <2> QED BY <1>2, <2>3, <2>4, <2>7, <2>8, QuietStep
<1>5. CASE processOnce(h)
  <2>0. PICK timer \in BOOLEAN : timer = ~r.stopping
      OBVIOUS
  <2>1. PICK p : p = [r EXCEPT !.cycle = "none", !.timer = timer]
      OBVIOUS
  <2>2. p = [on |-> r.on, timer |-> timer, stopping |-> r.stopping, stop |-> r.stop,
             cycle |-> "none", now |-> r.now, todo |-> r.todo, broken |-> r.broken, unseen |-> r.unseen]
      BY <2>1 DEF Process
  <2>3. /\ p \in Process \union {Off} /\ p.cycle = "none" /\ p.stop = r.stop
        /\ p.stopping = r.stopping /\ p.unseen = r.unseen
      BY <2>2 DEF Process
  <2>4. host' = [host EXCEPT ![h] = p]
      BY <1>1, <1>5, <2>0, <2>1 DEF processOnce, RuntimeInv, RuntimeTyped
  <2>5. r.stop \notin {"beat", "closed"}
      BY <1>1, <1>5 DEF processOnce, Cycle, StopHonest
  <2>6. ~Locking(p) /\ ScheduleHonest(p) /\ StopHonest(h, p)'
      BY <1>1, <2>3, <2>5 DEF Locking, ScheduleHonest, StopHonest
  <2> QED BY <1>2, <2>3, <2>4, <2>6, QuietStep
<1> QED BY <1>3, <1>4, <1>5

-----------------------------------------------------------------------------
(* A step of one worker that may queue or lock a slot.                     *)
LEMMA SlotStep ==
    ASSUME RuntimeInv, NEW h \in Hosts, NEW p \in Process,
           host' = [host EXCEPT ![h] = p],
           queued \subseteq queued', UNCHANGED <<beats, minute>>,
           LocksHonest', ScheduleHonest(p)', StopHonest(h, p)
    PROVE  RuntimeInv'
<1>1. host'[h] = p /\ \A g \in Hosts \ {h} : host'[g] = host[g]
    BY DEF RuntimeInv, RuntimeTyped
<1>2. RuntimeTyped'
    BY DEF RuntimeInv, RuntimeTyped
<1>3. ASSUME NEW g \in Hosts, On(g)'
      PROVE  ScheduleHonest(host[g])' /\ StopHonest(g, host[g])'
  <2>1. CASE g = h
      BY <1>1, <2>1 DEF ScheduleHonest, StopHonest, InTodo
  <2>2. CASE g # h
    <3>1. host'[g] = host[g] /\ ScheduleHonest(host[g]) /\ StopHonest(g, host[g])
        BY <1>1, <1>3, <2>2 DEF RuntimeInv, On
    <3> QED BY <3>1 DEF ScheduleHonest, StopHonest, InTodo
  <2> QED BY <2>1, <2>2
<1> QED BY <1>2, <1>3 DEF RuntimeInv

LEMMA LockSlotKeeps ==
    ASSUME RuntimeInv, NEW h \in Hosts, LockSlot(h)
    PROVE  RuntimeInv'
<1>1. PICK r \in Process : /\ r = host[h] /\ ScheduleHonest(r) /\ StopHonest(h, r)
                           /\ r.on /\ r.cycle = "schedule" /\ r.todo # <<>>
    BY HostType DEF LockSlot, Cycle, RuntimeInv, On
<1>2. PICK todo \in Seq(AnySlot) : todo = r.todo
    BY <1>1 DEF Process
<1>3. UNCHANGED <<beats, queued, minute>> /\ DOMAIN beats' = Hosts
      /\ \A g \in Hosts \ {h} : beats'[g] = beats[g]
    BY DEF LockSlot, RuntimeInv, RuntimeTyped
<1>4. r.stop \notin {"beat", "closed"}
    BY <1>1 DEF StopHonest
<1>5. CASE Head(todo) \in queued
  <2>1. PICK rest \in Seq(AnySlot) : rest = Tail(todo)
      BY <1>1, <1>2, TodoTail
  <2>2. PICK p : p = [r EXCEPT !.todo = rest]
      OBVIOUS
  <2>3. p = [on |-> r.on, timer |-> r.timer, stopping |-> r.stopping, stop |-> r.stop,
             cycle |-> r.cycle, now |-> r.now, todo |-> rest, broken |-> r.broken, unseen |-> r.unseen]
      BY <2>2 DEF Process
  <2>4. /\ p \in Process \union {Off} /\ p.cycle = "schedule" /\ p.stop = r.stop
        /\ p.stopping = r.stopping /\ p.now = r.now /\ p.todo = rest
      BY <1>1, <2>3 DEF Process
  <2>5. host' = [host EXCEPT ![h] = p]
      BY <1>1, <1>2, <1>5, <2>1, <2>2 DEF LockSlot, RuntimeInv, RuntimeTyped
  <2>6. ScheduleHonest(p)
    <3>1. SUFFICES ASSUME NEW slot \in ToSet(DueSlots(r.now)) PROVE slot \in queued \/ InTodo(slot, p)
        BY <2>4 DEF ScheduleHonest
    <3>2. slot \in queued \/ \E i \in 1 .. Len(todo) : todo[i] = slot
        BY <1>1, <1>2 DEF ScheduleHonest, InTodo
    <3> QED BY <1>1, <1>2, <1>5, <2>1, <2>4, <3>2, TodoTail DEF InTodo
  <2>7. ~Locking(p) /\ StopHonest(h, p)'
      BY <1>1, <1>4, <2>4 DEF Locking, StopHonest
  <2> QED BY <1>3, <2>4, <2>5, <2>6, <2>7, QuietStep
<1>6. CASE Head(todo) \notin queued
  <2>1. PICK p : p = [r EXCEPT !.cycle = "enqueue"]
      OBVIOUS
  <2>2. p = [on |-> r.on, timer |-> r.timer, stopping |-> r.stopping, stop |-> r.stop,
             cycle |-> "enqueue", now |-> r.now, todo |-> r.todo, broken |-> r.broken,
             unseen |-> r.unseen]
      BY <2>1 DEF Process
  <2>3. /\ p \in Process /\ p.cycle = "enqueue" /\ p.stop = r.stop
        /\ p.stopping = r.stopping /\ p.now = r.now /\ p.todo = todo
      BY <1>2, <2>2 DEF Process
  <2>4. host' = [host EXCEPT ![h] = p]
      BY <1>1, <1>2, <1>6, <2>1 DEF LockSlot, RuntimeInv, RuntimeTyped
  <2>5. ScheduleHonest(p)'
      BY <1>1, <1>2, <1>3, <2>3 DEF ScheduleHonest, InTodo
  <2>6. StopHonest(h, p)
      BY <1>1, <1>4, <2>3 DEF StopHonest
  <2>7. LocksHonest'
    <3>1. host'[h] = p /\ \A g \in Hosts \ {h} : host'[g] = host[g]
        BY <2>4 DEF RuntimeInv, RuntimeTyped
    <3>2. \A g \in Hosts : Locking(host[g]) => Head(host[g].todo) # Head(todo)
        BY <1>1, <1>2 DEF LockSlot, SlotIsFree, LockFree, Cycle, On, Locking
    <3> QED BY <1>1, <1>2, <1>3, <1>6, <2>3, <3>1, <3>2 DEF RuntimeInv, LocksHonest, Locking
  <2> QED BY <1>3, <2>3, <2>4, <2>5, <2>6, <2>7, SlotStep
<1> QED BY <1>5, <1>6

(* The lock is what makes the slot free when it is committed.              *)
LEMMA CommitSlotKeeps ==
    ASSUME RuntimeInv, NEW h \in Hosts, commitSlot(h)
    PROVE  RuntimeInv'
<1>1. PICK r \in Process : /\ r = host[h] /\ ScheduleHonest(r) /\ StopHonest(h, r)
                           /\ r.on /\ r.cycle = "enqueue" /\ Locking(r)
    BY HostType DEF commitSlot, Cycle, RuntimeInv, On, Locking
<1>2. PICK todo \in Seq(AnySlot) : todo = r.todo
    BY <1>1 DEF Process
<1>3. todo # <<>> /\ Head(todo) \notin queued
    BY <1>1, <1>2 DEF RuntimeInv, LocksHonest
<1>4. PICK rest \in Seq(AnySlot) : rest = Tail(todo)
    BY <1>3, TodoTail
<1>5. PICK slot : slot = Head(todo)
    OBVIOUS
<1>6. queued' = queued \union {slot} /\ UNCHANGED <<beats, minute>>
    BY <1>1, <1>2, <1>3, <1>5 DEF commitSlot
<1>7. PICK p : p = [r EXCEPT !.cycle = "schedule", !.todo = rest]
    OBVIOUS
<1>8. p = [on |-> r.on, timer |-> r.timer, stopping |-> r.stopping, stop |-> r.stop,
           cycle |-> "schedule", now |-> r.now, todo |-> rest, broken |-> r.broken, unseen |-> r.unseen]
    BY <1>7 DEF Process
<1>9. /\ p \in Process /\ p.cycle = "schedule" /\ p.stop = r.stop
      /\ p.stopping = r.stopping /\ p.now = r.now /\ p.todo = rest
    BY <1>8 DEF Process
<1>10. host' = [host EXCEPT ![h] = p]
    BY <1>1, <1>2, <1>3, <1>4, <1>7 DEF commitSlot, RuntimeInv, RuntimeTyped
<1>11. host'[h] = p /\ \A g \in Hosts \ {h} : host'[g] = host[g]
    BY <1>10 DEF RuntimeInv, RuntimeTyped
<1>12. ScheduleHonest(p)'
  <2>1. SUFFICES ASSUME NEW due \in ToSet(DueSlots(r.now)) PROVE due \in queued' \/ InTodo(due, p)
      BY <1>9 DEF ScheduleHonest, InTodo
  <2>2. due \in queued \/ \E i \in 1 .. Len(todo) : todo[i] = due
      BY <1>1, <1>2 DEF ScheduleHonest, InTodo
  <2> QED BY <1>3, <1>4, <1>5, <1>6, <1>9, <2>2, TodoTail DEF InTodo
<1>13. LocksHonest'
  <2>1. \A g \in Hosts \ {h} : Locking(host[g]) => Head(host[g].todo) # slot
      BY <1>1, <1>2, <1>5 DEF RuntimeInv, LocksHonest
  <2> QED BY <1>6, <1>9, <1>11, <2>1 DEF RuntimeInv, LocksHonest, Locking
<1>14. StopHonest(h, p)
    BY <1>1, <1>9 DEF StopHonest
<1> QED BY <1>6, <1>9, <1>10, <1>12, <1>13, <1>14, SlotStep

-----------------------------------------------------------------------------
LEMMA StopKeeps ==
    ASSUME RuntimeInv, NEW h \in Hosts, stop(h)
    PROVE  RuntimeInv'
<1>1. PICK r \in Process : /\ r = host[h] /\ ScheduleHonest(r) /\ StopHonest(h, r) /\ r.on
    BY HostType DEF stop, RuntimeInv, On
<1>2. PICK p : p = [r EXCEPT !.stopping = TRUE, !.timer = FALSE, !.stop = "waiting"]
    OBVIOUS
<1>3. p = [on |-> r.on, timer |-> FALSE, stopping |-> TRUE, stop |-> "waiting",
           cycle |-> r.cycle, now |-> r.now, todo |-> r.todo, broken |-> r.broken, unseen |-> r.unseen]
    BY <1>2 DEF Process
<1>4. /\ p \in Process /\ p.cycle = r.cycle /\ p.stop = "waiting" /\ p.broken = r.broken
      /\ p.stopping = TRUE /\ p.now = r.now /\ p.todo = r.todo /\ p.on = r.on
    BY <1>3 DEF Process
<1>5. host' = [host EXCEPT ![h] = p] /\ UNCHANGED <<beats, queued, minute>>
    BY <1>1, <1>2 DEF stop, RuntimeInv, RuntimeTyped
<1>6. host'[h] = p /\ \A g \in Hosts \ {h} : host'[g] = host[g]
    BY <1>5 DEF RuntimeInv, RuntimeTyped
<1>7. ScheduleHonest(p)' /\ StopHonest(h, p)
    BY <1>1, <1>4, <1>5 DEF ScheduleHonest, StopHonest, InTodo
<1>8. LocksHonest'
    BY <1>1, <1>4, <1>5, <1>6 DEF RuntimeInv, LocksHonest, Locking
<1> QED BY <1>4, <1>5, <1>7, <1>8, SlotStep

LEMMA StopGracefullyKeeps ==
    ASSUME RuntimeInv, NEW h \in Hosts, stopGracefully(h)
    PROVE  RuntimeInv'
<1>1. PICK r \in Process : /\ r = host[h] /\ StopHonest(h, r) /\ r.on
                           /\ r.stop = "waiting" /\ r.cycle = "none"
    BY HostType DEF stopGracefully, CycleOver, RuntimeInv, On
<1>2. PICK p : p = [r EXCEPT !.stop = "beat", !.now = minute]
    OBVIOUS
<1>3. p = [on |-> r.on, timer |-> r.timer, stopping |-> r.stopping, stop |-> "beat",
           cycle |-> r.cycle, now |-> minute, todo |-> r.todo, broken |-> r.broken, unseen |-> r.unseen]
    BY <1>2 DEF Process
<1>4. /\ p \in Process \union {Off} /\ p.cycle = "none" /\ p.stop = "beat" /\ p.stopping = r.stopping
    BY <1>1, <1>3 DEF Process, RuntimeInv, RuntimeTyped
<1>5. host' = [host EXCEPT ![h] = p] /\ UNCHANGED <<beats, queued, minute>>
    BY <1>1, <1>2 DEF stopGracefully, RuntimeInv, RuntimeTyped
<1>6. ~Locking(p) /\ ScheduleHonest(p) /\ StopHonest(h, p)'
    BY <1>1, <1>4 DEF ScheduleHonest, StopHonest, Locking
<1>7. DOMAIN beats' = Hosts /\ \A g \in Hosts \ {h} : beats'[g] = beats[g]
    BY <1>5 DEF RuntimeInv, RuntimeTyped
<1> QED BY <1>4, <1>5, <1>6, <1>7, QuietStep

LEMMA LastBeatKeeps ==
    ASSUME RuntimeInv, NEW h \in Hosts, LastBeat(h)
    PROVE  RuntimeInv'
<1>1. PICK r \in Process : /\ r = host[h] /\ StopHonest(h, r) /\ r.on
                           /\ r.stop = "beat" /\ r.cycle = "none" /\ r.stopping
    BY HostType DEF LastBeat, StopHonest, RuntimeInv, On
<1>2. UNCHANGED <<queued, minute>> /\ DOMAIN beats' = Hosts
      /\ \A g \in Hosts \ {h} : beats'[g] = beats[g]
    BY DEF LastBeat, WriteBeat, RuntimeInv, RuntimeTyped
<1>3. CASE WriteBeat(h, "stopping") /\ host' = [host EXCEPT ![h].stop = "closed"]
  <2>1. PICK p : p = [r EXCEPT !.stop = "closed"]
      OBVIOUS
  <2>2. p = [on |-> r.on, timer |-> r.timer, stopping |-> r.stopping, stop |-> "closed",
             cycle |-> r.cycle, now |-> r.now, todo |-> r.todo, broken |-> r.broken, unseen |-> r.unseen]
      BY <2>1 DEF Process
  <2>3. p \in Process \union {Off} /\ p.cycle = "none" /\ p.stop = "closed" /\ p.stopping
      BY <1>1, <2>2 DEF Process
  <2>4. host' = [host EXCEPT ![h] = p]
      BY <1>1, <1>3, <2>1 DEF RuntimeInv, RuntimeTyped
  <2>5. beats'[h].state = "stopping"
      BY <1>3 DEF WriteBeat, RuntimeInv, RuntimeTyped
  <2>6. ~Locking(p) /\ ScheduleHonest(p) /\ StopHonest(h, p)'
      BY <2>3, <2>5 DEF ScheduleHonest, StopHonest, Locking
  <2> QED BY <1>2, <2>3, <2>4, <2>6, QuietStep
<1>4. CASE host' = [host EXCEPT ![h].stop = "closed", ![h].unseen = TRUE]
  <2>1. PICK p : p = [r EXCEPT !.stop = "closed", !.unseen = TRUE]
      OBVIOUS
  <2>2. p = [on |-> r.on, timer |-> r.timer, stopping |-> r.stopping, stop |-> "closed",
             cycle |-> r.cycle, now |-> r.now, todo |-> r.todo, broken |-> r.broken, unseen |-> TRUE]
      BY <2>1 DEF Process
  <2>3. p \in Process \union {Off} /\ p.cycle = "none" /\ p.stop = "closed" /\ p.stopping /\ p.unseen
      BY <1>1, <2>2 DEF Process
  <2>4. host' = [host EXCEPT ![h] = p]
      BY <1>1, <1>4, <2>1 DEF RuntimeInv, RuntimeTyped
  <2>6. ~Locking(p) /\ ScheduleHonest(p) /\ StopHonest(h, p)'
      BY <2>3 DEF ScheduleHonest, StopHonest, Locking
  <2> QED BY <1>2, <2>3, <2>4, <2>6, QuietStep
<1> QED BY <1>3, <1>4 DEF LastBeat

LEMMA RuntimeStepHolds == RuntimeInv /\ [RuntimeNext]_runtimeVars => RuntimeInv'
<1> SUFFICES ASSUME RuntimeInv, [RuntimeNext]_runtimeVars PROVE RuntimeInv'
    OBVIOUS
<1>1. ASSUME NEW h \in Hosts, HostStep(h) PROVE RuntimeInv'
    BY <1>1, StartKeeps, TickKeeps, HeartbeatKeeps, LockSlotKeeps, CommitSlotKeeps, ScheduleEndKeeps,
       StopKeeps, StopGracefullyKeeps, LastBeatKeeps, ExitKeeps DEF HostStep
<1>2. CASE MinutePasses
    BY <1>2 DEF MinutePasses, RuntimeInv, RuntimeTyped, LocksHonest, ScheduleHonest, StopHonest,
                On, InTodo
<1>3. CASE UNCHANGED runtimeVars
    BY <1>3 DEF runtimeVars, RuntimeInv, RuntimeTyped, LocksHonest, ScheduleHonest, StopHonest,
                On, InTodo
<1> QED BY <1>1, <1>2, <1>3 DEF RuntimeNext

(* A schedule that no statement failed has queued all that was due when it *)
(* began, whoever queued it (runScheduled).                                *)
THEOREM WholeSchedules == RuntimeSpec => []ScheduleIsWhole
<1>1. RuntimeInv => ScheduleIsWhole
    BY DEF RuntimeInv, ScheduleIsWhole, ScheduleHonest, Cycle
<1> QED BY <1>1, RuntimeInitHolds, RuntimeStepHolds, PTL DEF RuntimeSpec

(* A worker that closed its repository runs no cycle, and no heartbeat of  *)
(* an earlier one speaks for it (stopGracefully, checkReadiness).          *)
THEOREM StoppedWorkers == RuntimeSpec => []StoppedIsStopped
<1>1. RuntimeInv => StoppedIsStopped
    BY DEF RuntimeInv, StoppedIsStopped, StopHonest, ReadyBy
<1> QED BY <1>1, RuntimeInitHolds, RuntimeStepHolds, PTL DEF RuntimeSpec

-----------------------------------------------------------------------------
(***************************************************************************)
(* PosSales: a linked merchant is not offered again.                       *)
(*                                                                         *)
(* Linking and hiding the offer are two calls: while the second is still to*)
(* come the merchant counts as linked, and a discovery looks for the link  *)
(* before it offers.                                                       *)
(***************************************************************************)

(* Links and calls, as far as linking looks at them.                       *)
TossCall == {Waiting} \union [at : {"received", "recorded", "found"}, merchant : Merchants]
LinkCall == [at : {"linked"}, merchant : Merchants]
PosTyped ==
    /\ DOMAIN posLink = Merchants /\ DOMAIN discovered = Merchants
    /\ DOMAIN posCall = PosProcs
    /\ posCall["toss"] \in TossCall
    /\ Doing("user", "linked") => posCall["user"] \in LinkCall
    /\ posCall["user"].at \in {"alias", "relink"} =>
          posCall["user"].last \in {"idle", "resolve all"}

PosInv == PosTyped /\ LinkedIsNotOffered

(* Before anything happens nobody is linked and nobody offered.            *)
LEMMA PosInitHolds == PosInit => PosInv
<1> SUFFICES ASSUME PosInit PROVE PosInv
  OBVIOUS
<1>1. posCall["toss"] = Waiting /\ posCall["user"] = Waiting /\ DOMAIN posCall = PosProcs
  BY DEF PosInit, PosProcs
<1>2. Waiting.at = "idle"
  BY DEF Waiting
<1>3. PosTyped
  BY <1>1, <1>2 DEF PosInit, PosTyped, TossCall, Doing
<1>4. LinkedIsNotOffered
  BY DEF PosInit, LinkedIsNotOffered
<1> QED BY <1>3, <1>4 DEF PosInv

(* What the webhook is doing, by cases.                                    *)
LEMMA TossCases ==
    ASSUME PosInv, posCall["toss"].at # "idle"
    PROVE  posCall["toss"] \in [at : {"received", "recorded", "found"}, merchant : Merchants]
<1>1. posCall["toss"] # Waiting
  BY DEF Waiting
<1> QED BY <1>1 DEF PosInv, PosTyped, TossCall

(* The worker, or the user outside of linking, does one of its steps.      *)
LEMMA OtherStep ==
    ASSUME PosInv, NEW x \in {"worker", "user"}, NEW c, posCall' = [posCall EXCEPT ![x] = c],
           UNCHANGED <<posLink, discovered>>,
           x = "user" => /\ posCall[x].at \notin {"linked", "recorded", "found"}
                         /\ c.at # "linked"
                         /\ c.at \in {"alias", "relink"} => c.last \in {"idle", "resolve all"}
    PROVE  PosInv'
<1>1. DOMAIN posCall' = PosProcs /\ x \in PosProcs
  BY DEF PosInv, PosTyped, PosProcs
<1>2. posCall'["toss"] = posCall["toss"]
  BY DEF PosInv, PosTyped, PosProcs
<1>3. posCall'["user"] = IF x = "user" THEN c ELSE posCall["user"]
  BY DEF PosInv, PosTyped, PosProcs
<1>4. PosTyped'
  BY <1>1, <1>2, <1>3 DEF PosInv, PosTyped, Doing
<1>5. LinkedIsNotOffered'
  <2> SUFFICES ASSUME NEW m \in Merchants, posLink'[m] # NoPos, discovered'[m] = "pending"
               PROVE  \E y \in {"user", "toss"} :
                         /\ posCall'[y].at \in {"linked", "recorded", "found"}
                         /\ posCall'[y].merchant = m
    BY DEF LinkedIsNotOffered
  <2>1. PICK y \in {"user", "toss"} :
           posCall[y].at \in {"linked", "recorded", "found"} /\ posCall[y].merchant = m
    BY DEF PosInv, LinkedIsNotOffered
  <2> QED BY <1>2, <1>3, <2>1
<1> QED BY <1>4, <1>5 DEF PosInv

(* Synchronising neither links nor offers a merchant.                      *)
LEMMA SyncStep ==
    ASSUME PosInv, NEW x \in {"worker", "user"}, Sync(x)
    PROVE  PosInv'
<1>1. CASE StartSync(x)
  BY <1>1, OtherStep DEF StartSync, Doing, Call, posTables
<1>2. CASE fetchTossDailyItems(x)
  <2>1. PICK m \in posCall[x].todo :
          Call(x, [at |-> "record", todo |-> posCall[x].todo \ {m}, link |-> m,
                   store |-> posCall[x].store, qty |-> posOrders[m]])
    BY <1>2 DEF fetchTossDailyItems
  <2> QED BY <1>2, <2>1, OtherStep DEF fetchTossDailyItems, Doing, Call, posTables
<1>3. CASE LinkFails(x)
  <2>1. UNCHANGED <<posLink, discovered>>
    BY <1>3 DEF LinkFails
  <2>2. CASE Doing(x, "sync") /\ \E m \in posCall[x].todo :
                Call(x, [posCall[x] EXCEPT !.todo = posCall[x].todo \ {m}])
    <3>1. PICK m \in posCall[x].todo : Call(x, [posCall[x] EXCEPT !.todo = posCall[x].todo \ {m}])
      BY <2>2
    <3>2. PICK c : c = [posCall[x] EXCEPT !.todo = posCall[x].todo \ {m}]
      OBVIOUS
    <3>3. c.at = posCall[x].at
      BY <3>2
    <3> QED BY <2>1, <2>2, <3>1, <3>2, <3>3, OtherStep DEF Doing, Call
  <2>3. CASE (Doing(x, "record") \/ Doing(x, "resolve")) /\ NextLink(x)
    BY <2>1, <2>3, OtherStep DEF NextLink, Doing, Call
  <2> QED BY <1>3, <2>2, <2>3 DEF LinkFails
<1>4. CASE recordSales(x)
  <2>1. PICK c : c = [posCall[x] EXCEPT !.at = "resolve"]
    OBVIOUS
  <2>2. c.at = "resolve" \/ c.at = posCall[x].at
    BY <2>1
  <2> QED BY <1>4, <2>1, <2>2, OtherStep DEF recordSales, Doing, Call
<1>5. CASE resolveUnmatched(x)
  BY <1>5, OtherStep DEF resolveUnmatched, NextLink, Doing, Call
<1>6. CASE EndSync(x)
  BY <1>6, OtherStep DEF EndSync, Doing, Call, posTables, Waiting
<1> QED BY <1>1, <1>2, <1>3, <1>4, <1>5, <1>6 DEF Sync

(* The merchant named by a call is marked as linked at the end of it, and  *)
(* no other is touched.                                                    *)
LEMMA MarkStep ==
    ASSUME PosInv, NEW x \in {"user", "toss"}, NEW at \in {"linked", "found"}, MarkLinked(x, at),
           x = "user" => at = "linked", x = "toss" => at = "found"
    PROVE  PosInv'
<1>1. PICK k : k = posCall[x].merchant
  OBVIOUS
<1>2. /\ posCall[x].at = at /\ posCall' = [posCall EXCEPT ![x] = Waiting]
      /\ discovered' = [discovered EXCEPT ![k] = IF discovered[k] = NoPos THEN NoPos ELSE "linked"]
      /\ posLink' = posLink
  BY <1>1 DEF MarkLinked, Doing, Call
<1>3. k \in Merchants
  <2>1. CASE x = "toss"
    BY <1>1, <1>2, <2>1, TossCases
  <2>2. CASE x = "user"
    BY <1>1, <1>2, <2>2 DEF PosInv, PosTyped, LinkCall, Doing
  <2> QED BY <2>1, <2>2
<1>4. PosTyped'
  BY <1>2 DEF PosInv, PosTyped, PosProcs, TossCall, Waiting, Doing
<1>5. LinkedIsNotOffered'
  <2> SUFFICES ASSUME NEW m \in Merchants, posLink'[m] # NoPos, discovered'[m] = "pending"
               PROVE  \E y \in {"user", "toss"} :
                         /\ posCall'[y].at \in {"linked", "recorded", "found"}
                         /\ posCall'[y].merchant = m
    BY DEF LinkedIsNotOffered
  <2>1. m # k
    <3>1. discovered'[k] \in {NoPos, "linked"} /\ (discovered[k] # NoPos => discovered'[k] = "linked")
      BY <1>2, <1>3 DEF PosInv, PosTyped
    <3> QED BY <3>1, NoPosAssumption
  <2>2. discovered[m] = "pending" /\ posLink[m] # NoPos
    BY <1>2, <2>1 DEF PosInv, PosTyped
  <2>3. PICK y \in {"user", "toss"} :
           posCall[y].at \in {"linked", "recorded", "found"} /\ posCall[y].merchant = m
    BY <2>2 DEF PosInv, LinkedIsNotOffered
  <2>4. y # x
    BY <1>1, <2>1, <2>3
  <2> QED BY <1>2, <2>3, <2>4 DEF PosInv, PosTyped, PosProcs
<1> QED BY <1>4, <1>5 DEF PosInv

(* A link is written: its merchant is now the user's.                      *)
LEMMA LinkStep ==
    ASSUME PosInv, upsertLink
    PROVE  PosInv'
<1>1. PICK k \in Merchants, s \in PosStores :
         /\ posLink' = [posLink EXCEPT ![k] = s]
         /\ posCall' = [posCall EXCEPT !["user"] = [at |-> "linked", merchant |-> k]]
  BY DEF upsertLink, Call
<1>2. posCall["user"].at = "idle" /\ discovered' = discovered
  BY DEF upsertLink, Doing
<1>3. posCall'["user"] = [at |-> "linked", merchant |-> k] /\ posCall'["toss"] = posCall["toss"]
  BY <1>1 DEF PosInv, PosTyped, PosProcs
<1>4. PosTyped'
  BY <1>1, <1>2, <1>3 DEF PosInv, PosTyped, PosProcs, LinkCall, Doing
<1>5. LinkedIsNotOffered'
  <2> SUFFICES ASSUME NEW m \in Merchants, posLink'[m] # NoPos, discovered'[m] = "pending"
               PROVE  \E y \in {"user", "toss"} :
                         /\ posCall'[y].at \in {"linked", "recorded", "found"}
                         /\ posCall'[y].merchant = m
    BY DEF LinkedIsNotOffered
  <2>1. CASE m = k
    BY <1>3, <2>1
  <2>2. CASE m # k
    <3>1. posLink[m] # NoPos /\ discovered[m] = "pending"
      BY <1>1, <1>2, <2>2 DEF PosInv, PosTyped
    <3>2. posCall["toss"].at \in {"linked", "recorded", "found"} /\ posCall["toss"].merchant = m
      BY <3>1, <1>2 DEF PosInv, LinkedIsNotOffered
    <3> QED BY <3>2, <1>3
  <2> QED BY <2>1, <2>2
<1> QED BY <1>4, <1>5 DEF PosInv

(* An event of the provider is received, its merchant recorded - from here *)
(* on the webhook will look for the link - and the link looked for.        *)
LEMMA ReceiveStep ==
    ASSUME PosInv, recordWebhookInbox
    PROVE  PosInv'
<1>1. PICK k \in Merchants :
         posCall' = [posCall EXCEPT !["toss"] = [at |-> "received", merchant |-> k]]
  BY DEF recordWebhookInbox, Call
<1>2. posCall["toss"].at = "idle" /\ UNCHANGED <<posLink, discovered>>
  BY DEF recordWebhookInbox, Doing
<1>3. posCall'["toss"] = [at |-> "received", merchant |-> k] /\ posCall'["user"] = posCall["user"]
  BY <1>1 DEF PosInv, PosTyped, PosProcs
<1>4. PosTyped'
  BY <1>1, <1>2, <1>3 DEF PosInv, PosTyped, PosProcs, TossCall, Doing
<1>5. LinkedIsNotOffered'
  BY <1>2, <1>3 DEF PosInv, LinkedIsNotOffered
<1> QED BY <1>4, <1>5 DEF PosInv

LEMMA DiscoverStep ==
    ASSUME PosInv, recordDiscoveredMerchant
    PROVE  PosInv'
<1>1. PICK k : k = posCall["toss"].merchant
  OBVIOUS
<1>2. posCall["toss"].at = "received"
  BY DEF recordDiscoveredMerchant, Doing
<1>3. k \in Merchants /\ posCall["toss"] = [at |-> "received", merchant |-> k]
  BY <1>1, <1>2, TossCases
<1>4. posCall' = [posCall EXCEPT !["toss"] = [posCall["toss"] EXCEPT !.at = "recorded"]]
  BY DEF recordDiscoveredMerchant, Call
<1>5. [posCall["toss"] EXCEPT !.at = "recorded"] = [at |-> "recorded", merchant |-> k]
  BY <1>3
<1>6. posCall'["toss"] = [at |-> "recorded", merchant |-> k] /\ posCall'["user"] = posCall["user"]
  BY <1>4, <1>5 DEF PosInv, PosTyped, PosProcs
<1>7. DOMAIN posCall' = PosProcs /\ posLink' = posLink
  BY <1>4 DEF PosInv, PosTyped, recordDiscoveredMerchant
<1>8. discovered' = [discovered EXCEPT ![k] = IF discovered[k] = "linked" THEN "linked" ELSE "pending"]
  BY <1>1 DEF recordDiscoveredMerchant, Discover
<1>9. PosTyped'
  <2>1. posCall'["toss"] \in TossCall
    BY <1>3, <1>6 DEF TossCall
  <2>2. DOMAIN discovered' = Merchants
    BY <1>8 DEF PosInv, PosTyped
  <2> QED BY <1>6, <1>7, <2>1, <2>2 DEF PosInv, PosTyped, Doing
<1>10. LinkedIsNotOffered'
  <2> SUFFICES ASSUME NEW m \in Merchants, posLink'[m] # NoPos, discovered'[m] = "pending"
               PROVE  \E y \in {"user", "toss"} :
                         /\ posCall'[y].at \in {"linked", "recorded", "found"}
                         /\ posCall'[y].merchant = m
    BY DEF LinkedIsNotOffered
  <2>1. CASE m = k
    BY <1>6, <2>1
  <2>2. CASE m # k
    <3>1. posLink[m] # NoPos /\ discovered[m] = "pending"
      BY <1>7, <1>8, <2>2 DEF PosInv, PosTyped
    <3>2. posCall["user"].at \in {"linked", "recorded", "found"} /\ posCall["user"].merchant = m
      BY <3>1, <1>2 DEF PosInv, LinkedIsNotOffered
    <3> QED BY <3>2, <1>6
  <2> QED BY <2>1, <2>2
<1> QED BY <1>9, <1>10 DEF PosInv

LEMMA LookStep ==
    ASSUME PosInv, findLinkByMerchant
    PROVE  PosInv'
<1>1. PICK k : k = posCall["toss"].merchant
  OBVIOUS
<1>2. posCall["toss"].at = "recorded" /\ UNCHANGED <<posLink, discovered>>
  BY DEF findLinkByMerchant, Doing, posTables
<1>3. k \in Merchants /\ posCall["toss"] = [at |-> "recorded", merchant |-> k]
  BY <1>1, <1>2, TossCases
<1>4. [posCall["toss"] EXCEPT !.at = "found"] = [at |-> "found", merchant |-> k]
  BY <1>3
<1>5. posCall' = [posCall EXCEPT !["toss"] = IF posLink[k] = NoPos THEN Waiting
                                           ELSE [at |-> "found", merchant |-> k]]
  BY <1>1, <1>4 DEF findLinkByMerchant, Call
<1>6. /\ posCall'["toss"] = IF posLink[k] = NoPos THEN Waiting ELSE [at |-> "found", merchant |-> k]
      /\ posCall'["user"] = posCall["user"] /\ DOMAIN posCall' = PosProcs
  BY <1>5 DEF PosInv, PosTyped, PosProcs
<1>7. PosTyped'
  <2>1. posCall'["toss"] \in TossCall
    BY <1>3, <1>6 DEF TossCall
  <2> QED BY <1>2, <1>6, <2>1 DEF PosInv, PosTyped, Doing
<1>8. LinkedIsNotOffered'
  BY <1>2, <1>3, <1>6 DEF PosInv, LinkedIsNotOffered
<1> QED BY <1>7, <1>8 DEF PosInv

(* Products and aliases.                                                   *)
LEMMA CatalogueStep ==
    ASSUME PosInv,
           \/ createProduct \/ updateProduct \/ StartAlias \/ upsertAlias \/ Relink
           \/ ResolveAll \/ removeAlias \/ Revert
    PROVE  PosInv'
<1>1. CASE createProduct
  <2>1. PICK p \in PosProducts, promoted \in BOOLEAN :
          Call("user", IF promoted THEN [at |-> "alias", product |-> p, last |-> "resolve all"]
                       ELSE [at |-> "resolve all"])
    BY <1>1 DEF createProduct
  <2>2. PICK c : c = IF promoted THEN [at |-> "alias", product |-> p, last |-> "resolve all"]
                     ELSE [at |-> "resolve all"]
    OBVIOUS
  <2>3. c.at # "linked" /\ (c.at \in {"alias", "relink"} => c.last \in {"idle", "resolve all"})
    BY <2>2
  <2> QED BY <1>1, <2>1, <2>2, <2>3, OtherStep DEF createProduct, Doing, Call
<1>2. CASE updateProduct
  BY <1>2 DEF updateProduct, PosInv, PosTyped, LinkedIsNotOffered, Doing
<1>3. CASE StartAlias
  <2>1. PICK p \in PosProducts : Call("user", [at |-> "alias", product |-> p, last |-> "idle"])
    BY <1>3 DEF StartAlias
  <2> QED BY <1>3, <2>1, OtherStep DEF StartAlias, Doing, Call, posTables
<1>4. CASE upsertAlias
  <2>1. PICK c : c = [at |-> "relink", product |-> posCall["user"].product,
                      scope |-> posProduct[posCall["user"].product].scope,
                      last |-> posCall["user"].last]
    OBVIOUS
  <2>2. c.at = "relink" /\ c.last \in {"idle", "resolve all"}
    BY <1>4, <2>1 DEF upsertAlias, Doing, PosInv, PosTyped
  <2>3. posCall' = [posCall EXCEPT !["user"] = c] /\ posCall["user"].at = "alias"
    BY <1>4, <2>1 DEF upsertAlias, Call, Doing
  <2> QED BY <1>4, <2>2, <2>3, OtherStep DEF upsertAlias
<1>5. CASE Relink
  <2>1. PICK c : c = [at |-> posCall["user"].last]
    OBVIOUS
  <2>2. c.at \in {"idle", "resolve all"}
    BY <1>5, <2>1 DEF Relink, Doing, PosInv, PosTyped
  <2>3. posCall' = [posCall EXCEPT !["user"] = c] /\ posCall["user"].at = "relink"
    BY <1>5, <2>1 DEF Relink, Call, Doing
  <2> QED BY <1>5, <2>2, <2>3, OtherStep DEF Relink
<1>6. CASE ResolveAll
  BY <1>6, OtherStep DEF ResolveAll, Doing, Call, Waiting
<1>7. CASE removeAlias
  <2>1. PICK scope \in Scopes :
          Call("user", [at |-> "revert", scope |-> scope, product |-> posAlias[scope]])
    BY <1>7 DEF removeAlias
  <2> QED BY <1>7, <2>1, OtherStep DEF removeAlias, Doing, Call
<1>8. CASE Revert
  BY <1>8, OtherStep DEF Revert, Doing, Call, Waiting
<1> QED BY <1>1, <1>2, <1>3, <1>4, <1>5, <1>6, <1>7, <1>8

LEMMA PosStep == PosInv /\ [PosNext]_posVars => PosInv'
<1> SUFFICES ASSUME PosInv, [PosNext]_posVars PROVE PosInv'
  OBVIOUS
<1>1. CASE Sync("worker")
  BY <1>1, SyncStep
<1>2. CASE Sync("user")
  BY <1>2, SyncStep
<1>3. CASE TossWebhook
  BY <1>3, ReceiveStep, DiscoverStep, LookStep, MarkStep DEF TossWebhook
<1>4. CASE UserNext
  BY <1>4, LinkStep, CatalogueStep, MarkStep DEF UserNext, markDiscoveredLinked
<1>5. CASE Provider
  BY <1>5 DEF Provider, posTables, PosInv, PosTyped, LinkedIsNotOffered, Doing
<1>6. CASE UNCHANGED posVars
  BY <1>6 DEF posVars, PosInv, PosTyped, LinkedIsNotOffered, Doing
<1> QED BY <1>1, <1>2, <1>3, <1>4, <1>5, <1>6 DEF PosNext

(* A merchant with a store is not among those still to be linked, unless   *)
(* the request or the webhook that will say so is under way.               *)
THEOREM LinkedMerchants == PosSpec => []LinkedIsNotOffered
<1>1. PosInv => LinkedIsNotOffered
  BY DEF PosInv
<1> QED BY PosInitHolds, PosStep, <1>1, PTL DEF PosSpec

-----------------------------------------------------------------------------
(***************************************************************************)
(* PosSales: an item that has an alias is told by its product.             *)
(*                                                                         *)
(* The claim is its own induction: who makes a row, or an alias, has the   *)
(* step still to come that looks for the other.                            *)
(***************************************************************************)
Syncers == {"worker", "user"}

MatchTyped ==
    /\ posAlias \in [Scopes -> PosProducts \union {NoPos}]
    /\ DOMAIN posProduct = PosProducts
    /\ \A p \in PosProducts : posProduct[p] # NoPos => posProduct[p] \in PosProductRow
    /\ DOMAIN sale = PosStores
    /\ \A s \in PosStores : sale[s] # NoPos => "product" \in DOMAIN sale[s]
    /\ DOMAIN posCall = PosProcs /\ \A x \in PosProcs : "at" \in DOMAIN posCall[x]
    /\ \A x \in Syncers : posCall[x].at = "record" => {"store", "link"} \subseteq DOMAIN posCall[x]
    /\ posCall["user"].at = "alias" => /\ posCall["user"].product \in PosProducts
                                       /\ posProduct[posCall["user"].product] \in PosProductRow
                                       /\ posCall["user"].last \in {"idle", "resolve all"}
    /\ posCall["user"].at = "relink" => /\ posCall["user"].product \in PosProducts
                                        /\ posCall["user"].last \in {"idle", "resolve all"}

MatchInv == MatchTyped /\ AliasedIsMatched

ResolvesFor(call, s) == call.at = "resolve" /\ call.store[call.link] = s
RelinksFor(call, s) == call.at = "relink" /\ InScope(s, call.scope)
StillToMatch(calls, s) ==
    (\E x \in Syncers : ResolvesFor(calls[x], s)) \/ RelinksFor(calls["user"], s)

LEMMA MatchIs ==
    AliasedIsMatched <=> \A s \in PosStores : Unmatched(s) /\ HasAlias(s)
                                                 => s \in posMissed \/ StillToMatch(posCall, s)
BY DEF AliasedIsMatched, StillToMatch, ResolvesFor, RelinksFor, Doing, Syncers

LEMMA MatchIsNext ==
    AliasedIsMatched' <=> \A s \in PosStores : Unmatched(s)' /\ HasAlias(s)'
                                                 => s \in posMissed' \/ StillToMatch(posCall', s)
BY DEF AliasedIsMatched, StillToMatch, ResolvesFor, RelinksFor, Doing, Syncers

LEMMA MatchInitHolds == PosInit => MatchInv
<1> SUFFICES ASSUME PosInit PROVE MatchInv
  OBVIOUS
<1>1. /\ \A x \in PosProcs : posCall[x] = [at |-> "idle"]
      /\ DOMAIN posCall = PosProcs /\ "user" \in PosProcs
  BY DEF PosInit, PosProcs, Waiting
<1>2. MatchTyped
  <2>1. posAlias \in [Scopes -> PosProducts \union {NoPos}]
    BY DEF PosInit
  <2>2. /\ DOMAIN posProduct = PosProducts /\ \A p \in PosProducts : posProduct[p] = NoPos
        /\ DOMAIN sale = PosStores /\ \A s \in PosStores : sale[s] = NoPos
    BY DEF PosInit
  <2>3. \A x \in PosProcs : "at" \in DOMAIN posCall[x] /\ posCall[x].at = "idle"
    BY <1>1
  <2>4. Syncers \subseteq PosProcs
    BY DEF Syncers, PosProcs
  <2>. QED  BY <1>1, <2>1, <2>2, <2>3, <2>4 DEF MatchTyped
<1>3. AliasedIsMatched
  BY DEF PosInit, AliasedIsMatched, Unmatched
<1>. QED  BY <1>2, <1>3 DEF MatchInv

(* A call of one process changes, none that was to match a row.             *)
UserCall(c) ==
    /\ "at" \in DOMAIN c
    /\ c.at = "alias" => /\ c.product \in PosProducts /\ posProduct'[c.product] \in PosProductRow
                         /\ c.last \in {"idle", "resolve all"}
    /\ c.at = "relink" => c.product \in PosProducts /\ c.last \in {"idle", "resolve all"}

ProductsStay ==
    /\ DOMAIN posProduct' = PosProducts
    /\ \A p \in PosProducts : posProduct'[p] # NoPos => posProduct'[p] \in PosProductRow

LEMMA CallTyped ==
    ASSUME MatchInv, NEW x \in PosProcs, NEW c, posCall' = [posCall EXCEPT ![x] = c], "at" \in DOMAIN c,
           c.at = "record" => {"store", "link"} \subseteq DOMAIN c,
           x = "user" => UserCall(c), ProductsStay,
           \A p \in PosProducts : posProduct[p] \in PosProductRow => posProduct'[p] \in PosProductRow,
           posAlias' \in [Scopes -> PosProducts \union {NoPos}],
           DOMAIN sale' = PosStores,
           \A s \in PosStores : sale'[s] # NoPos => "product" \in DOMAIN sale'[s]
    PROVE  /\ MatchTyped' /\ posCall'[x] = c /\ \A y \in PosProcs : y # x => posCall'[y] = posCall[y]
<1>1. /\ posCall'[x] = c /\ \A y \in PosProcs : y # x => posCall'[y] = posCall[y]
      /\ DOMAIN posCall' = PosProcs /\ "user" \in PosProcs
  BY DEF MatchInv, MatchTyped, PosProcs
<1>2. \A y \in PosProcs : "at" \in DOMAIN posCall'[y]
  BY <1>1 DEF MatchInv, MatchTyped
<1>3. \A y \in Syncers : posCall'[y].at = "record" => {"store", "link"} \subseteq DOMAIN posCall'[y]
  BY <1>1 DEF MatchInv, MatchTyped, Syncers, PosProcs
<1>4. CASE x = "user"
  BY <1>1, <1>2, <1>3, <1>4 DEF MatchTyped, UserCall, ProductsStay
<1>5. CASE x # "user"
  <2>1. posCall'["user"] = posCall["user"]
    BY <1>1, <1>5
  <2>. QED  BY <1>1, <1>2, <1>3, <2>1 DEF MatchTyped, MatchInv, ProductsStay
<1>. QED  BY <1>1, <1>4, <1>5

(* Who was to match a row still is, if another process took the step.      *)
LEMMA Carried ==
    ASSUME NEW x, \A y \in PosProcs : y # x => posCall'[y] = posCall[y],
           NEW s, StillToMatch(posCall, s), ~ResolvesFor(posCall[x], s),
           x = "user" => ~RelinksFor(posCall["user"], s)
    PROVE  StillToMatch(posCall', s)
<1>1. CASE RelinksFor(posCall["user"], s)
  <2>1. x # "user" /\ "user" \in PosProcs
    BY <1>1 DEF PosProcs
  <2>. QED  BY <1>1, <2>1 DEF StillToMatch
<1>2. ASSUME NEW y \in Syncers, ResolvesFor(posCall[y], s) PROVE StillToMatch(posCall', s)
  <2>1. y # x /\ y \in PosProcs
    BY <1>2 DEF PosProcs, Syncers
  <2>. QED  BY <1>2, <2>1 DEF StillToMatch
<1>. QED  BY <1>1, <1>2 DEF StillToMatch

LEMMA QuietMatch ==
    ASSUME MatchInv, NEW x \in PosProcs, NEW c, posCall' = [posCall EXCEPT ![x] = c], "at" \in DOMAIN c,
           c.at = "record" => {"store", "link"} \subseteq DOMAIN c,
           x = "user" => UserCall(c), ProductsStay,
           \A p \in PosProducts : posProduct[p] \in PosProductRow => posProduct'[p] \in PosProductRow,
           posCall[x].at \notin {"resolve", "relink"} \/ x = "toss",
           UNCHANGED <<posAlias, sale>>, posMissed \subseteq posMissed'
    PROVE  MatchInv'
<1>1. /\ MatchTyped' /\ posCall'[x] = c /\ \A y \in PosProcs : y # x => posCall'[y] = posCall[y]
  BY CallTyped DEF MatchInv, MatchTyped
<1>2. ASSUME NEW s \in PosStores, StillToMatch(posCall, s) PROVE StillToMatch(posCall', s)
  <2>1. CASE x # "toss"
    <3>1. ~ResolvesFor(posCall[x], s) /\ (x = "user" => ~RelinksFor(posCall["user"], s))
      BY <2>1 DEF ResolvesFor, RelinksFor
    <3>. QED  BY <1>1, <1>2, <3>1, Carried
  <2>2. CASE x = "toss"
    BY <1>1, <1>2, <2>2 DEF StillToMatch, Syncers, PosProcs
  <2>. QED  BY <2>1, <2>2
<1>3. \A s \in PosStores : Unmatched(s)' = Unmatched(s) /\ HasAlias(s)' = HasAlias(s)
  BY DEF Unmatched, HasAlias
<1>4. AliasedIsMatched'
  BY <1>2, <1>3, MatchIs, MatchIsNext DEF MatchInv
<1>. QED  BY <1>1, <1>4 DEF MatchInv

(* The synchronisation.                                                     *)
LEMMA QuietSync ==
    ASSUME MatchInv, NEW x \in Syncers,
           StartSync(x) \/ fetchTossDailyItems(x) \/ EndSync(x)
    PROVE  MatchInv'
<1>1. x \in PosProcs /\ ProductsStay /\ UNCHANGED <<posProduct, posAlias, sale, posMissed>>
  BY DEF StartSync, fetchTossDailyItems, EndSync, posTables, ProductsStay, MatchInv, MatchTyped,
         Syncers, PosProcs
<1>2. PICK c : /\ posCall' = [posCall EXCEPT ![x] = c]
               /\ c.at \in {"sync", "record", "idle"} /\ "at" \in DOMAIN c
               /\ c.at = "record" => {"store", "link"} \subseteq DOMAIN c
  <2>1. CASE StartSync(x)
    <3>1. PICK c : c = [at |-> "sync", todo |-> {m \in Merchants : posLink[m] # NoPos}, store |-> posLink]
      OBVIOUS
    <3>2. c.at = "sync" /\ "at" \in DOMAIN c
      BY <3>1
    <3>. QED  BY <2>1, <3>1, <3>2 DEF StartSync, Call
  <2>2. CASE fetchTossDailyItems(x)
    <3>1. PICK m \in posCall[x].todo :
            Call(x, [at |-> "record", todo |-> posCall[x].todo \ {m}, link |-> m,
                     store |-> posCall[x].store, qty |-> posOrders[m]])
      BY <2>2 DEF fetchTossDailyItems
    <3>2. PICK c : c = [at |-> "record", todo |-> posCall[x].todo \ {m}, link |-> m,
                        store |-> posCall[x].store, qty |-> posOrders[m]]
      OBVIOUS
    <3>3. c.at = "record" /\ {"at", "store", "link"} \subseteq DOMAIN c
      BY <3>2
    <3>. QED  BY <3>1, <3>2, <3>3 DEF Call
  <2>3. CASE EndSync(x)
    <3>1. Waiting.at = "idle" /\ "at" \in DOMAIN Waiting
      BY DEF Waiting
    <3>. QED  BY <2>3, <3>1 DEF EndSync, Call
  <2>. QED  BY <2>1, <2>2, <2>3
<1>3. posCall[x].at \notin {"resolve", "relink"}
  BY DEF StartSync, fetchTossDailyItems, EndSync, Doing
<1>4. UserCall(c)
  BY <1>2 DEF UserCall
<1>. QED  BY <1>1, <1>2, <1>3, <1>4, QuietMatch

(* A row is made, or updated: its own step of resolving comes next.        *)
LEMMA RecordKeeps ==
    ASSUME MatchInv, NEW x \in Syncers, recordSales(x)
    PROVE  MatchInv'
<1>1. PICK s0 : s0 = posCall[x].store[posCall[x].link]
  OBVIOUS
<1>2. PICK c : c = [posCall[x] EXCEPT !.at = "resolve"]
  OBVIOUS
<1>3. /\ posCall[x].at = "record" /\ x \in PosProcs
      /\ UNCHANGED <<posProduct, posAlias, posMissed>> /\ posCall' = [posCall EXCEPT ![x] = c]
  BY <1>2 DEF recordSales, Doing, Call, Syncers, PosProcs
<1>4. {"at", "store", "link"} \subseteq DOMAIN posCall[x]
  BY <1>3 DEF MatchInv, MatchTyped
<1>5. "at" \in DOMAIN c /\ c.at = "resolve" /\ c.store[c.link] = s0
  BY <1>1, <1>2, <1>4
<1>6. /\ DOMAIN sale' = PosStores
      /\ \A s \in PosStores : s # s0 => sale'[s] = sale[s]
      /\ \A s \in PosStores : sale'[s] # NoPos => "product" \in DOMAIN sale'[s]
  BY <1>1 DEF recordSales, UpsertSale, MatchInv, MatchTyped
<1>7. UserCall(c) /\ ProductsStay
  BY <1>3, <1>5 DEF UserCall, ProductsStay, MatchInv, MatchTyped
<1>8. MatchTyped' /\ posCall'[x] = c /\ \A y \in PosProcs : y # x => posCall'[y] = posCall[y]
  <2>1. posAlias' \in [Scopes -> PosProducts \union {NoPos}]
    BY <1>3 DEF MatchInv, MatchTyped
  <2>. QED  BY <1>3, <1>5, <1>6, <1>7, <2>1, CallTyped
<1>9. ASSUME NEW s \in PosStores, Unmatched(s)', HasAlias(s)'
      PROVE  s \in posMissed' \/ StillToMatch(posCall', s)
  <2>1. CASE s = s0
    BY <1>5, <1>8, <2>1 DEF StillToMatch, ResolvesFor
  <2>2. CASE s # s0
    <3>1. Unmatched(s) /\ HasAlias(s)
      BY <1>3, <1>6, <1>9, <2>2 DEF Unmatched, HasAlias
    <3>2. s \in posMissed \/ StillToMatch(posCall, s)
      BY <3>1, MatchIs DEF MatchInv
    <3>3. ~ResolvesFor(posCall[x], s) /\ (x = "user" => ~RelinksFor(posCall["user"], s))
      BY <1>3 DEF ResolvesFor, RelinksFor
    <3>. QED  BY <1>3, <1>8, <3>2, <3>3, Carried
  <2>. QED  BY <2>1, <2>2
<1>. QED  BY <1>8, <1>9, MatchIsNext DEF MatchInv

(* Rows that are resolved: those with an alias are told by a product.      *)
LEMMA ResolveInFacts ==
    ASSUME MatchInv, NEW stores, ResolveIn(stores)
    PROVE  /\ DOMAIN sale' = PosStores
           /\ \A s \in PosStores : sale'[s] # NoPos => "product" \in DOMAIN sale'[s]
           /\ \A s \in PosStores : Unmatched(s)' => Unmatched(s) /\ (s \in stores => ~HasAlias(s))
           /\ \A s \in PosStores : s \in posMissed /\ Unmatched(s)' => s \in posMissed'
<1>1. PICK pick \in [PosStores -> PosProducts \union {NoPos}] :
        /\ \A s \in PosStores :
              pick[s] \in IF s \in stores /\ Unmatched(s) /\ Resolved(s) # {}
                          THEN Resolved(s) ELSE {NoPos}
        /\ sale' = [s \in PosStores |->
              IF pick[s] = NoPos THEN sale[s] ELSE [sale[s] EXCEPT !.product = pick[s]]]
        /\ MissedAnd({})
  BY DEF ResolveIn
<1>2. DOMAIN sale' = PosStores
  BY <1>1
<1>3. ASSUME NEW s \in PosStores
      PROVE  /\ sale'[s] # NoPos => "product" \in DOMAIN sale'[s]
             /\ Unmatched(s)' => Unmatched(s) /\ (s \in stores => ~HasAlias(s))
  <2>1. CASE pick[s] = NoPos
    <3>1. sale'[s] = sale[s]
      BY <1>1, <2>1
    <3>2. ASSUME Unmatched(s), s \in stores PROVE ~HasAlias(s)
      <4>1. ASSUME Resolved(s) # {} PROVE ~HasAlias(s)
        <5>1. pick[s] \in Resolved(s)
          BY <1>1, <3>2, <4>1
        <5>. QED  BY <2>1, <5>1 DEF Resolved, HasAlias
      <4>2. ASSUME Resolved(s) = {} PROVE ~HasAlias(s)
        BY <4>2 DEF Resolved, HasAlias
      <4>. QED  BY <4>1, <4>2
    <3>. QED  BY <3>1, <3>2 DEF Unmatched, MatchInv, MatchTyped
  <2>2. CASE pick[s] # NoPos
    <3>1. Unmatched(s) /\ sale'[s] = [sale[s] EXCEPT !.product = pick[s]]
      BY <1>1, <2>2
    <3>2. "product" \in DOMAIN sale[s]
      BY <3>1 DEF Unmatched, MatchInv, MatchTyped
    <3>3. "product" \in DOMAIN sale'[s] /\ sale'[s].product = pick[s]
      BY <3>1, <3>2
    <3>. QED  BY <2>2, <3>3 DEF Unmatched
  <2>. QED  BY <2>1, <2>2
<1>4. \A s \in PosStores : s \in posMissed /\ Unmatched(s)' => s \in posMissed'
  BY <1>1 DEF MissedAnd
<1>. QED  BY <1>2, <1>3, <1>4

LEMMA ResolveKeeps ==
    ASSUME MatchInv, NEW x \in Syncers, resolveUnmatched(x)
    PROVE  MatchInv'
<1>1. PICK s0 : s0 = posCall[x].store[posCall[x].link]
  OBVIOUS
<1>c. PICK c : c = [at |-> "sync", todo |-> posCall[x].todo, store |-> posCall[x].store]
  OBVIOUS
<1>2. c = [at |-> "sync", todo |-> posCall[x].todo, store |-> posCall[x].store] /\ "at" \in DOMAIN c /\ c.at = "sync"
  BY <1>c
<1>3. /\ posCall[x].at = "resolve" /\ x \in PosProcs /\ ResolveIn({s0})
      /\ UNCHANGED <<posProduct, posAlias>> /\ posCall' = [posCall EXCEPT ![x] = c]
  BY <1>1, <1>2 DEF resolveUnmatched, NextLink, Doing, Call, Syncers, PosProcs
<1>4. /\ DOMAIN sale' = PosStores
      /\ \A s \in PosStores : sale'[s] # NoPos => "product" \in DOMAIN sale'[s]
      /\ \A s \in PosStores : Unmatched(s)' => Unmatched(s) /\ (s \in {s0} => ~HasAlias(s))
      /\ \A s \in PosStores : s \in posMissed /\ Unmatched(s)' => s \in posMissed'
  BY <1>3, ResolveInFacts
<1>5. UserCall(c) /\ ProductsStay
  BY <1>2, <1>3 DEF UserCall, ProductsStay, MatchInv, MatchTyped
<1>6. MatchTyped' /\ posCall'[x] = c /\ \A y \in PosProcs : y # x => posCall'[y] = posCall[y]
  <2>1. posAlias' \in [Scopes -> PosProducts \union {NoPos}]
    BY <1>3 DEF MatchInv, MatchTyped
  <2>. QED  BY <1>2, <1>3, <1>4, <1>5, <2>1, CallTyped
<1>7. ASSUME NEW s \in PosStores, Unmatched(s)', HasAlias(s)'
      PROVE  s \in posMissed' \/ StillToMatch(posCall', s)
  <2>1. Unmatched(s) /\ HasAlias(s) /\ s # s0
    BY <1>3, <1>4, <1>7 DEF HasAlias
  <2>2. s \in posMissed \/ StillToMatch(posCall, s)
    BY <2>1, MatchIs DEF MatchInv
  <2>3. ~ResolvesFor(posCall[x], s) /\ (x = "user" => ~RelinksFor(posCall["user"], s))
    BY <1>1, <1>3, <2>1 DEF ResolvesFor, RelinksFor
  <2>. QED  BY <1>4, <1>6, <1>7, <2>2, <2>3, Carried
<1>. QED  BY <1>6, <1>7, MatchIsNext DEF MatchInv

(* An error leaves the row as it is, and is on record.                     *)
LEMMA FailKeeps ==
    ASSUME MatchInv, NEW x \in Syncers, LinkFails(x)
    PROVE  MatchInv'
<1>1. x \in PosProcs /\ ProductsStay /\ UNCHANGED <<posProduct, posAlias, sale>>
  BY DEF LinkFails, ProductsStay, MatchInv, MatchTyped, Syncers, PosProcs
<1>2. CASE Doing(x, "sync") /\ UNCHANGED posMissed /\
           \E m \in posCall[x].todo : Call(x, [posCall[x] EXCEPT !.todo = @ \ {m}])
  <2>1. PICK m \in posCall[x].todo : Call(x, [posCall[x] EXCEPT !.todo = @ \ {m}])
    BY <1>2
  <2>2. PICK c : c = [posCall[x] EXCEPT !.todo = @ \ {m}]
    OBVIOUS
  <2>3. "at" \in DOMAIN c /\ c.at = "sync" /\ posCall[x].at = "sync"
    BY <1>1, <1>2, <2>2 DEF Doing, MatchInv, MatchTyped
  <2>4. UserCall(c) /\ posCall' = [posCall EXCEPT ![x] = c]
    BY <2>1, <2>2, <2>3 DEF UserCall, Call
  <2>. QED  BY <1>1, <1>2, <2>3, <2>4, QuietMatch
<1>c. PICK c : c = [at |-> "sync", todo |-> posCall[x].todo, store |-> posCall[x].store]
  OBVIOUS
<1>3. c = [at |-> "sync", todo |-> posCall[x].todo, store |-> posCall[x].store] /\ "at" \in DOMAIN c /\ c.at = "sync"
  BY <1>c
<1>4. UserCall(c)
  BY <1>3 DEF UserCall
<1>5. CASE Doing(x, "record") /\ NextLink(x) /\ UNCHANGED posMissed
  <2>1. posCall' = [posCall EXCEPT ![x] = c] /\ posCall[x].at = "record"
    BY <1>3, <1>5 DEF NextLink, Doing, Call
  <2>. QED  BY <1>1, <1>3, <1>4, <1>5, <2>1, QuietMatch
<1>6. CASE Doing(x, "resolve") /\ NextLink(x) /\
           posMissed' = posMissed \union {posCall[x].store[posCall[x].link]}
  <2>1. posCall' = [posCall EXCEPT ![x] = c] /\ posCall[x].at = "resolve"
    BY <1>3, <1>6 DEF NextLink, Doing, Call
  <2>2. MatchTyped' /\ posCall'[x] = c /\ \A y \in PosProcs : y # x => posCall'[y] = posCall[y]
    <3>1. /\ posAlias' \in [Scopes -> PosProducts \union {NoPos}]
          /\ DOMAIN sale' = PosStores
          /\ \A s \in PosStores : sale'[s] # NoPos => "product" \in DOMAIN sale'[s]
      BY <1>1 DEF MatchInv, MatchTyped
    <3>. QED  BY <1>1, <1>3, <1>4, <2>1, <3>1, CallTyped
  <2>3. ASSUME NEW s \in PosStores, Unmatched(s)', HasAlias(s)'
        PROVE  s \in posMissed' \/ StillToMatch(posCall', s)
    <3>1. s \in posMissed \/ StillToMatch(posCall, s)
      BY <1>1, <2>3, MatchIs DEF MatchInv, Unmatched, HasAlias
    <3>2. CASE s = posCall[x].store[posCall[x].link]
      BY <1>6, <3>2
    <3>3. CASE s # posCall[x].store[posCall[x].link]
      <4>1. ~ResolvesFor(posCall[x], s) /\ (x = "user" => ~RelinksFor(posCall["user"], s))
        BY <2>1, <3>3 DEF ResolvesFor, RelinksFor
      <4>. QED  BY <1>6, <2>2, <3>1, <4>1, Carried
    <3>. QED  BY <3>2, <3>3
  <2>. QED  BY <2>2, <2>3, MatchIsNext DEF MatchInv
<1>. QED  BY <1>2, <1>5, <1>6 DEF LinkFails

-----------------------------------------------------------------------------
(* The user's alias: the rows of its scope are matched next.               *)
LEMMA AliasKeeps ==
    ASSUME MatchInv, upsertAlias
    PROVE  MatchInv'
<1>1. PICK p \in PosProducts : p = posCall["user"].product
  BY DEF upsertAlias, Doing, MatchInv, MatchTyped
<1>2. PICK scope \in Scopes : scope = posProduct[p].scope
  BY <1>1 DEF upsertAlias, Doing, MatchInv, MatchTyped, PosProductRow
<1>3. PICK last \in {"idle", "resolve all"} : last = posCall["user"].last
  BY DEF upsertAlias, Doing, MatchInv, MatchTyped
<1>c. PICK c : c = [at |-> "relink", product |-> p, scope |-> scope, last |-> last]
  OBVIOUS
<1>4. c = [at |-> "relink", product |-> p, scope |-> scope, last |-> last] /\ "at" \in DOMAIN c /\ c.at = "relink" /\ c.product = p /\ c.scope = scope /\ c.last = last
  BY <1>c
<1>5. /\ posCall["user"].at = "alias" /\ UNCHANGED <<posProduct, sale, posMissed>>
      /\ posAlias' = [posAlias EXCEPT ![scope] = p] /\ posCall' = [posCall EXCEPT !["user"] = c]
  BY <1>1, <1>2, <1>3, <1>4 DEF upsertAlias, Doing, Call
<1>6. /\ posAlias' \in [Scopes -> PosProducts \union {NoPos}]
      /\ \A k \in Scopes : k # scope => posAlias'[k] = posAlias[k]
      /\ "user" \in PosProcs
  BY <1>5 DEF MatchInv, MatchTyped, PosProcs
<1>7. UserCall(c) /\ ProductsStay
  BY <1>4, <1>5 DEF UserCall, ProductsStay, MatchInv, MatchTyped
<1>8. /\ MatchTyped' /\ posCall'["user"] = c
      /\ \A y \in PosProcs : y # "user" => posCall'[y] = posCall[y]
  <2>1. /\ DOMAIN sale' = PosStores
        /\ \A s \in PosStores : sale'[s] # NoPos => "product" \in DOMAIN sale'[s]
    BY <1>5 DEF MatchInv, MatchTyped
  <2>. QED  BY <1>4, <1>5, <1>6, <1>7, <2>1, CallTyped
<1>9. ASSUME NEW s \in PosStores, Unmatched(s)', HasAlias(s)'
      PROVE  s \in posMissed' \/ StillToMatch(posCall', s)
  <2>1. CASE HasAlias(s)
    <3>1. s \in posMissed \/ StillToMatch(posCall, s)
      BY <1>5, <1>9, <2>1, MatchIs DEF MatchInv, Unmatched
    <3>2. ~ResolvesFor(posCall["user"], s) /\ ~RelinksFor(posCall["user"], s)
      BY <1>5 DEF ResolvesFor, RelinksFor
    <3>. QED  BY <1>5, <1>8, <3>1, <3>2, Carried
  <2>2. CASE ~HasAlias(s)
    <3>1. s = scope \/ Everywhere = scope
      BY <1>6, <1>9, <2>2 DEF HasAlias, Scopes
    <3>. QED  BY <1>4, <1>8, <3>1 DEF StillToMatch, RelinksFor, InScope
  <2>. QED  BY <2>1, <2>2
<1>. QED  BY <1>8, <1>9, MatchIsNext DEF MatchInv

LEMMA RelinkKeeps ==
    ASSUME MatchInv, Relink
    PROVE  MatchInv'
<1>1. PICK p \in PosProducts : p = posCall["user"].product
  BY DEF Relink, Doing, MatchInv, MatchTyped
<1>c. PICK c : c = [at |-> posCall["user"].last]
  OBVIOUS
<1>2. c = [at |-> posCall["user"].last] /\ "at" \in DOMAIN c /\ c.at = posCall["user"].last
  BY <1>c
<1>3. /\ posCall["user"].at = "relink" /\ UNCHANGED <<posProduct, posAlias>>
      /\ posCall' = [posCall EXCEPT !["user"] = c] /\ MissedAnd({}) /\ "user" \in PosProcs
      /\ c.at \in {"idle", "resolve all"}
  BY <1>2 DEF Relink, Doing, Call, PosProcs, MatchInv, MatchTyped
<1>4. sale' = [s \in PosStores |-> IF sale[s] # NoPos /\ InScope(s, posCall["user"].scope)
                                   THEN [sale[s] EXCEPT !.product = p] ELSE sale[s]]
  BY <1>1 DEF Relink
<1>5. ASSUME NEW s \in PosStores
      PROVE  /\ sale'[s] # NoPos => "product" \in DOMAIN sale'[s]
             /\ Unmatched(s)' => Unmatched(s) /\ ~InScope(s, posCall["user"].scope)
  <2>1. CASE sale[s] # NoPos /\ InScope(s, posCall["user"].scope)
    <3>1. sale'[s] = [sale[s] EXCEPT !.product = p] /\ "product" \in DOMAIN sale[s]
      BY <1>4, <2>1 DEF MatchInv, MatchTyped
    <3>2. "product" \in DOMAIN sale'[s] /\ sale'[s].product = p
      BY <3>1
    <3>3. p # NoPos
      BY NoPosAssumption
    <3>. QED  BY <3>2, <3>3 DEF Unmatched
  <2>2. CASE ~(sale[s] # NoPos /\ InScope(s, posCall["user"].scope))
    <3>1. sale'[s] = sale[s]
      BY <1>4, <2>2
    <3>. QED  BY <2>2, <3>1 DEF Unmatched, MatchInv, MatchTyped
  <2>. QED  BY <2>1, <2>2
<1>6. UserCall(c) /\ ProductsStay
  BY <1>2, <1>3 DEF UserCall, ProductsStay, MatchInv, MatchTyped
<1>7. /\ MatchTyped' /\ posCall'["user"] = c
      /\ \A y \in PosProcs : y # "user" => posCall'[y] = posCall[y]
  <2>1. DOMAIN sale' = PosStores /\ posAlias' \in [Scopes -> PosProducts \union {NoPos}]
    BY <1>3, <1>4 DEF MatchInv, MatchTyped
  <2>. QED  BY <1>2, <1>3, <1>5, <1>6, <2>1, CallTyped
<1>8. ASSUME NEW s \in PosStores, Unmatched(s)', HasAlias(s)'
      PROVE  s \in posMissed' \/ StillToMatch(posCall', s)
  <2>1. Unmatched(s) /\ HasAlias(s) /\ ~InScope(s, posCall["user"].scope)
    BY <1>3, <1>5, <1>8 DEF HasAlias
  <2>2. s \in posMissed \/ StillToMatch(posCall, s)
    BY <2>1, MatchIs DEF MatchInv
  <2>3. ~ResolvesFor(posCall["user"], s) /\ ~RelinksFor(posCall["user"], s)
    BY <1>3, <2>1 DEF ResolvesFor, RelinksFor
  <2>4. s \in posMissed => s \in posMissed'
    BY <1>3, <1>8 DEF MissedAnd
  <2>. QED  BY <1>3, <1>7, <2>2, <2>3, <2>4, Carried
<1>. QED  BY <1>7, <1>8, MatchIsNext DEF MatchInv

(* All rows are resolved, or those of a removed alias set free.            *)
LEMMA ResolveAllKeeps ==
    ASSUME MatchInv, ResolveAll
    PROVE  MatchInv'
<1>1. /\ ResolveIn(PosStores) /\ UNCHANGED <<posProduct, posAlias>> /\ "user" \in PosProcs
      /\ posCall' = [posCall EXCEPT !["user"] = Waiting]
  BY DEF ResolveAll, Call, PosProcs
<1>2. /\ DOMAIN sale' = PosStores
      /\ \A s \in PosStores : sale'[s] # NoPos => "product" \in DOMAIN sale'[s]
      /\ \A s \in PosStores : Unmatched(s)' => Unmatched(s) /\ (s \in PosStores => ~HasAlias(s))
  BY <1>1, ResolveInFacts
<1>3. UserCall(Waiting) /\ ProductsStay /\ "at" \in DOMAIN Waiting /\ Waiting.at = "idle"
  BY <1>1 DEF UserCall, ProductsStay, MatchInv, MatchTyped, Waiting
<1>4. MatchTyped'
  <2>1. posAlias' \in [Scopes -> PosProducts \union {NoPos}]
    BY <1>1 DEF MatchInv, MatchTyped
  <2>. QED  BY <1>1, <1>2, <1>3, <2>1, CallTyped
<1>5. \A s \in PosStores : ~(Unmatched(s)' /\ HasAlias(s)')
  BY <1>1, <1>2 DEF HasAlias
<1>. QED  BY <1>4, <1>5, MatchIsNext DEF MatchInv

LEMMA RevertKeeps ==
    ASSUME MatchInv, Revert
    PROVE  MatchInv'
<1>1. PICK its \in SUBSET PosStores :
        /\ \A s \in its : sale[s] # NoPos
        /\ sale' = [s \in PosStores |-> IF s \in its THEN [sale[s] EXCEPT !.product = NoPos] ELSE sale[s]]
        /\ MissedAnd(its)
  BY DEF Revert
<1>2. /\ posCall["user"].at = "revert" /\ UNCHANGED <<posProduct, posAlias>> /\ "user" \in PosProcs
      /\ posCall' = [posCall EXCEPT !["user"] = Waiting]
  BY DEF Revert, Doing, Call, PosProcs
<1>3. \A s \in PosStores : /\ s \notin its => sale'[s] = sale[s]
                           /\ sale'[s] # NoPos => "product" \in DOMAIN sale'[s]
  BY <1>1 DEF MatchInv, MatchTyped
<1>4. UserCall(Waiting) /\ ProductsStay /\ "at" \in DOMAIN Waiting /\ Waiting.at = "idle"
  BY <1>2 DEF UserCall, ProductsStay, MatchInv, MatchTyped, Waiting
<1>5. MatchTyped' /\ \A y \in PosProcs : y # "user" => posCall'[y] = posCall[y]
  <2>1. DOMAIN sale' = PosStores /\ posAlias' \in [Scopes -> PosProducts \union {NoPos}]
    BY <1>1, <1>2 DEF MatchInv, MatchTyped
  <2>. QED  BY <1>2, <1>3, <1>4, <2>1, CallTyped
<1>6. ASSUME NEW s \in PosStores, Unmatched(s)', HasAlias(s)'
      PROVE  s \in posMissed' \/ StillToMatch(posCall', s)
  <2>1. s \in posMissed \union its => s \in posMissed'
    BY <1>1, <1>6 DEF MissedAnd
  <2>2. CASE s \in its
    BY <2>1, <2>2
  <2>3. CASE s \notin its
    <3>1. s \in posMissed \/ StillToMatch(posCall, s)
      BY <1>2, <1>3, <1>6, <2>3, MatchIs DEF MatchInv, Unmatched, HasAlias
    <3>2. ~ResolvesFor(posCall["user"], s) /\ ~RelinksFor(posCall["user"], s)
      BY <1>2 DEF ResolvesFor, RelinksFor
    <3>. QED  BY <1>2, <1>5, <2>1, <3>1, <3>2, Carried
  <2>. QED  BY <2>2, <2>3
<1>. QED  BY <1>5, <1>6, MatchIsNext DEF MatchInv

(* An alias less can only leave fewer rows to be matched.                  *)
LEMMA RemoveKeeps ==
    ASSUME MatchInv, removeAlias
    PROVE  MatchInv'
<1>1. PICK scope \in Scopes :
        /\ posAlias' = [posAlias EXCEPT ![scope] = NoPos]
        /\ Call("user", [at |-> "revert", scope |-> scope, product |-> posAlias[scope]])
  BY DEF removeAlias
<1>c. PICK c : c = [at |-> "revert", scope |-> scope, product |-> posAlias[scope]]
  OBVIOUS
<1>2. c = [at |-> "revert", scope |-> scope, product |-> posAlias[scope]] /\ "at" \in DOMAIN c /\ c.at = "revert"
  BY <1>c
<1>3. /\ posCall["user"].at = "idle" /\ UNCHANGED <<posProduct, sale, posMissed>> /\ "user" \in PosProcs
      /\ posCall' = [posCall EXCEPT !["user"] = c]
  BY <1>1, <1>2 DEF removeAlias, Doing, Call, PosProcs
<1>4. UserCall(c) /\ ProductsStay
  BY <1>2, <1>3 DEF UserCall, ProductsStay, MatchInv, MatchTyped
<1>5. /\ posAlias' \in [Scopes -> PosProducts \union {NoPos}]
      /\ \A k \in Scopes : posAlias'[k] # NoPos => posAlias[k] # NoPos
  BY <1>1 DEF MatchInv, MatchTyped
<1>6. MatchTyped' /\ \A y \in PosProcs : y # "user" => posCall'[y] = posCall[y]
  <2>1. /\ DOMAIN sale' = PosStores
        /\ \A s \in PosStores : sale'[s] # NoPos => "product" \in DOMAIN sale'[s]
    BY <1>3 DEF MatchInv, MatchTyped
  <2>. QED  BY <1>2, <1>3, <1>4, <1>5, <2>1, CallTyped
<1>7. ASSUME NEW s \in PosStores, Unmatched(s)', HasAlias(s)'
      PROVE  s \in posMissed' \/ StillToMatch(posCall', s)
  <2>1. Unmatched(s) /\ HasAlias(s)
    BY <1>3, <1>5, <1>7 DEF Unmatched, HasAlias, Scopes
  <2>2. s \in posMissed \/ StillToMatch(posCall, s)
    BY <2>1, MatchIs DEF MatchInv
  <2>3. ~ResolvesFor(posCall["user"], s) /\ ~RelinksFor(posCall["user"], s)
    BY <1>3 DEF ResolvesFor, RelinksFor
  <2>. QED  BY <1>3, <1>6, <2>2, <2>3, Carried
<1>. QED  BY <1>6, <1>7, MatchIsNext DEF MatchInv

(* Products, and the links and their discovery, change no row.             *)
LEMMA ProductKeeps ==
    ASSUME MatchInv, createProduct \/ updateProduct \/ StartAlias
    PROVE  MatchInv'
<1>1. CASE createProduct
  <2>1. PICK p \in PosProducts, row \in PosProductRow, promoted \in BOOLEAN :
          /\ posProduct' = [posProduct EXCEPT ![p] = row]
          /\ Call("user", IF promoted THEN [at |-> "alias", product |-> p, last |-> "resolve all"]
                          ELSE [at |-> "resolve all"])
    BY <1>1 DEF createProduct
  <2>2. PICK c : c = IF promoted THEN [at |-> "alias", product |-> p, last |-> "resolve all"]
                     ELSE [at |-> "resolve all"]
    OBVIOUS
  <2>3. /\ posProduct'[p] = row /\ DOMAIN posProduct' = PosProducts
        /\ \A q \in PosProducts : q # p => posProduct'[q] = posProduct[q]
    BY <2>1 DEF MatchInv, MatchTyped
  <2>4. /\ "at" \in DOMAIN c /\ c.at \in {"alias", "resolve all"}
        /\ c.at = "alias" => c.product = p /\ c.last = "resolve all"
    BY <2>2
  <2>5. /\ UserCall(c) /\ ProductsStay
        /\ \A q \in PosProducts : posProduct[q] \in PosProductRow => posProduct'[q] \in PosProductRow
    BY <2>3, <2>4 DEF UserCall, ProductsStay, MatchInv, MatchTyped
  <2>6. /\ posCall' = [posCall EXCEPT !["user"] = c] /\ posCall["user"].at = "idle" /\ "user" \in PosProcs
        /\ UNCHANGED <<posAlias, sale, posMissed>>
    BY <1>1, <2>1, <2>2 DEF createProduct, Doing, Call, PosProcs
  <2>. QED  BY <2>4, <2>5, <2>6, QuietMatch
<1>2. CASE updateProduct
  <2>1. PICK p \in PosProducts, scope \in Scopes :
          posProduct[p] # NoPos /\ posProduct' = [posProduct EXCEPT ![p].scope = scope]
    BY <1>2 DEF updateProduct
  <2>2. posProduct[p] \in PosProductRow
    BY <2>1 DEF MatchInv, MatchTyped
  <2>3. /\ posProduct'[p] \in PosProductRow /\ DOMAIN posProduct' = PosProducts
        /\ \A q \in PosProducts : q # p => posProduct'[q] = posProduct[q]
    BY <2>1, <2>2 DEF MatchInv, MatchTyped, PosProductRow
  <2>4. UNCHANGED <<posAlias, sale, posMissed, posCall>>
    BY <1>2 DEF updateProduct
  <2>5. MatchTyped'
    BY <2>3, <2>4 DEF MatchInv, MatchTyped
  <2>6. AliasedIsMatched'
    BY <2>4 DEF MatchInv, AliasedIsMatched, Unmatched, HasAlias, Doing
  <2>. QED  BY <2>5, <2>6 DEF MatchInv
<1>3. CASE StartAlias
  <2>1. PICK p \in PosProducts :
          posProduct[p] # NoPos /\ Call("user", [at |-> "alias", product |-> p, last |-> "idle"])
    BY <1>3 DEF StartAlias
  <2>c. PICK c : c = [at |-> "alias", product |-> p, last |-> "idle"]
    OBVIOUS
  <2>2. c = [at |-> "alias", product |-> p, last |-> "idle"] /\ "at" \in DOMAIN c /\ c.at = "alias" /\ c.product = p /\ c.last = "idle"
    BY <2>c
  <2>3. /\ posCall' = [posCall EXCEPT !["user"] = c] /\ posCall["user"].at = "idle" /\ "user" \in PosProcs
        /\ UNCHANGED <<posProduct, posAlias, sale, posMissed>>
    BY <1>3, <2>1, <2>2 DEF StartAlias, posTables, Doing, Call, PosProcs
  <2>4. UserCall(c) /\ ProductsStay
    BY <2>1, <2>2, <2>3 DEF UserCall, ProductsStay, MatchInv, MatchTyped
  <2>. QED  BY <2>2, <2>3, <2>4, QuietMatch
<1>. QED  BY <1>1, <1>2, <1>3

LEMMA LinkKeeps ==
    ASSUME MatchInv, upsertLink \/ markDiscoveredLinked \/ TossWebhook
    PROVE  MatchInv'
<1>0. Waiting.at = "idle" /\ "at" \in DOMAIN Waiting
  BY DEF Waiting
<1>1. \E x \in {"user", "toss"} : \E c :
        /\ posCall' = [posCall EXCEPT ![x] = c] /\ "at" \in DOMAIN c
        /\ c.at \in {"linked", "idle", "received", "recorded", "found"}
        /\ posCall[x].at \notin {"resolve", "relink"}
        /\ UNCHANGED <<posProduct, posAlias, sale, posMissed>>
  <2>1. CASE upsertLink
    <3>1. PICK m \in Merchants : Call("user", [at |-> "linked", merchant |-> m])
      BY <2>1 DEF upsertLink
    <3>2. PICK c : c = [at |-> "linked", merchant |-> m]
      OBVIOUS
    <3>3. c.at = "linked" /\ "at" \in DOMAIN c
      BY <3>2
    <3>. QED  BY <2>1, <3>1, <3>2, <3>3 DEF upsertLink, Call, Doing
  <2>2. CASE markDiscoveredLinked
    BY <1>0, <2>2 DEF markDiscoveredLinked, MarkLinked, Call, Doing
  <2>3. CASE recordWebhookInbox
    <3>1. PICK m \in Merchants : Call("toss", [at |-> "received", merchant |-> m])
      BY <2>3 DEF recordWebhookInbox
    <3>2. PICK c : c = [at |-> "received", merchant |-> m]
      OBVIOUS
    <3>3. c.at = "received" /\ "at" \in DOMAIN c
      BY <3>2
    <3>. QED  BY <2>3, <3>1, <3>2, <3>3 DEF recordWebhookInbox, Call, Doing
  <2>4. CASE recordDiscoveredMerchant
    <3>1. PICK c : c = [posCall["toss"] EXCEPT !.at = "recorded"]
      OBVIOUS
    <3>2. "at" \in DOMAIN c /\ c.at = "recorded"
      BY <3>1 DEF MatchInv, MatchTyped, PosProcs
    <3>. QED  BY <2>4, <3>1, <3>2 DEF recordDiscoveredMerchant, Call, Doing
  <2>5. CASE findLinkByMerchant
    <3>1. PICK c : c = IF posLink[posCall["toss"].merchant] = NoPos THEN Waiting
                       ELSE [posCall["toss"] EXCEPT !.at = "found"]
      OBVIOUS
    <3>2. "at" \in DOMAIN c /\ c.at \in {"idle", "found"}
      BY <3>1 DEF MatchInv, MatchTyped, PosProcs, Waiting
    <3>. QED  BY <2>5, <3>1, <3>2 DEF findLinkByMerchant, Call, Doing, posTables
  <2>6. CASE MarkLinked("toss", "found")
    BY <1>0, <2>6 DEF MarkLinked, Call, Doing
  <2>. QED  BY <2>1, <2>2, <2>3, <2>4, <2>5, <2>6 DEF TossWebhook
<1>2. PICK x \in {"user", "toss"} : \E c :
        /\ posCall' = [posCall EXCEPT ![x] = c] /\ "at" \in DOMAIN c
        /\ c.at \in {"linked", "idle", "received", "recorded", "found"}
        /\ posCall[x].at \notin {"resolve", "relink"}
        /\ UNCHANGED <<posProduct, posAlias, sale, posMissed>>
  BY <1>1
<1>3. PICK c :
        /\ posCall' = [posCall EXCEPT ![x] = c] /\ "at" \in DOMAIN c
        /\ c.at \in {"linked", "idle", "received", "recorded", "found"}
        /\ posCall[x].at \notin {"resolve", "relink"}
        /\ UNCHANGED <<posProduct, posAlias, sale, posMissed>>
  BY <1>2
<1>4. UserCall(c) /\ ProductsStay /\ x \in PosProcs
  BY <1>3 DEF UserCall, ProductsStay, MatchInv, MatchTyped, PosProcs
<1>. QED  BY <1>3, <1>4, QuietMatch

LEMMA MatchStepHolds == MatchInv /\ [PosNext]_posVars => MatchInv'
<1> SUFFICES ASSUME MatchInv, [PosNext]_posVars PROVE MatchInv'
  OBVIOUS
<1>1. ASSUME NEW x \in Syncers, Sync(x) PROVE MatchInv'
  BY <1>1, QuietSync, RecordKeeps, ResolveKeeps, FailKeeps DEF Sync
<1>2. CASE TossWebhook \/ UserNext
  BY <1>2, LinkKeeps, ProductKeeps, AliasKeeps, RelinkKeeps, ResolveAllKeeps, RevertKeeps, RemoveKeeps
     DEF UserNext
<1>3. CASE Provider \/ UNCHANGED posVars
  <2>1. UNCHANGED <<posProduct, posAlias, sale, posMissed, posCall>>
    BY <1>3 DEF Provider, posTables, posVars
  <2>2. MatchTyped'
    BY <2>1 DEF MatchInv, MatchTyped
  <2>3. AliasedIsMatched'
    BY <2>1 DEF MatchInv, AliasedIsMatched, Unmatched, HasAlias, Doing
  <2>. QED  BY <2>2, <2>3 DEF MatchInv
<1>. QED  BY <1>1, <1>2, <1>3 DEF PosNext, Syncers

(* The sales of an item that has an alias are told by its product, or the  *)
(* step that will find them is still to come, whichever of a               *)
(* synchronisation and the request for the alias is first; an error or the *)
(* removal of another alias aside (AliasedIsMatched).                      *)
THEOREM AliasedItems == PosSpec => []AliasedIsMatched
<1>1. MatchInv => AliasedIsMatched
  BY DEF MatchInv
<1>. QED  BY <1>1, MatchInitHolds, MatchStepHolds, PTL DEF PosSpec
-----------------------------------------------------------------------------
(***************************************************************************)
(* LegacyImport: a cut-over has everything.                                *)
(*                                                                         *)
(* An accepted batch brought every row it was asked for, which is every row*)
(* of the old data that was not there unchanged.                           *)
(***************************************************************************)

-----------------------------------------------------------------------------
(* Plans and the batches they were applied as.                             *)
Plan == [rows : [SourceRows -> Nat], profiles : SUBSET SourceStores]
Batch == [plan : Plan, outcome : [SourceRows -> Outcomes]]

ImportTyped ==
    /\ source \in [SourceRows -> Nat] /\ profiled \in SUBSET SourceStores
    /\ exports \in SUBSET Plan
    /\ batches \in Seq(Batch)
    /\ target \in [SourceRows -> Nat]

(* What a batch accepted could be imported from its plan, and is there.    *)
AcceptedIsThere ==
    \A i \in DOMAIN batches : \A r \in SourceRows :
        Accepted(batches[i].outcome[r]) => r \in Importable(batches[i].plan) /\ target[r] # 0

ImportInv == ImportTyped /\ AcceptedIsThere

LEMMA ImportInitHolds == ImportInit => ImportInv
<1> SUFFICES ASSUME ImportInit PROVE ImportInv
  OBVIOUS
<1>1. batches \in Seq(Batch) /\ DOMAIN batches = {}
  <2>1. <<>> \in Seq(Batch)
    OBVIOUS
  <2> QED BY <2>1 DEF ImportInit
<1>2. source \in [SourceRows -> Nat] /\ target \in [SourceRows -> Nat]
  BY DEF ImportInit
<1> QED BY <1>1, <1>2 DEF ImportInit, ImportInv, ImportTyped, AcceptedIsThere

(* The latest mapping of a row that was mapped is one of the batches.      *)
LEMMA LatestIsThere ==
    ASSUME ImportInv, NEW r \in SourceRows, Mapped(r) # {}
    PROVE  Max(Mapped(r)) \in DOMAIN batches
<1>1. Mapped(r) \in SUBSET Nat /\ Mapped(r) \subseteq DOMAIN batches /\ Len(batches) \in Nat
  BY DEF Mapped, ImportInv, ImportTyped
<1>2. \A i \in Mapped(r) : i <= Len(batches)
  BY <1>1 DEF ImportInv, ImportTyped
<1>3. \E i \in Mapped(r) : \A j \in Mapped(r) : i >= j
  BY <1>1, <1>2, LargestNumber
<1>4. Max(Mapped(r)) \in Mapped(r)
  BY <1>3 DEF Max
<1> QED BY <1>1, <1>4

(* A row that is replayed is there already.                                *)
LEMMA ReplayedIsThere ==
    ASSUME ImportInv, NEW plan \in Plan, NEW r \in SourceRows, Decision(plan, r) = "replayed"
    PROVE  target[r] # 0
<1>1. Mapped(r) # {} /\ Accepted(LatestMapping(r).outcome[r])
  BY DEF Decision, Accepted
<1>2. Max(Mapped(r)) \in DOMAIN batches
  BY <1>1, LatestIsThere
<1> QED BY <1>1, <1>2 DEF LatestMapping, ImportInv, AcceptedIsThere

LEMMA ImportableRows ==
    ASSUME NEW plan \in Plan, NEW r \in Importable(plan)
    PROVE  /\ r \in SourceRows /\ plan.rows[r] # 0
           /\ r \in SourceOrders =>
                 OrderStore[r] \in Importable(plan) /\ OrderProduct[r] \in Importable(plan)
BY SourceAssumption DEF Importable, SourceRows

LEMMA OutcomeFits ==
    ASSUME NEW plan \in Plan
    PROVE  /\ OutcomeOf(plan) \in [SourceRows -> Outcomes]
           /\ \A r \in SourceRows : Accepted(OutcomeOf(plan)[r]) =>
                 r \in Importable(plan) /\ OutcomeOf(plan)[r] = Decision(plan, r)
<1>1. \A r : Decision(plan, r) \in Outcomes
  BY DEF Decision, Outcomes
<1> QED BY <1>1 DEF OutcomeOf, Outcomes, Accepted

(* A plan is applied: nothing that was there goes away, and what it        *)
(* accepts is there after it.                                              *)
LEMMA ApplyStep ==
    ASSUME ImportInv, NEW plan \in exports, ApplyPlan(plan)
    PROVE  ImportInv'
<1>1. plan \in Plan
  BY DEF ImportInv, ImportTyped
<1>2. PICK outcome : outcome = OutcomeOf(plan)
  OBVIOUS
<1>3. /\ batches' = Append(batches, [plan |-> plan, outcome |-> outcome])
      /\ target' = Inserted(plan, outcome)
      /\ UNCHANGED <<source, profiled, exports>>
  BY <1>2 DEF ApplyPlan
<1>4. outcome \in [SourceRows -> Outcomes]
  BY <1>1, <1>2, OutcomeFits
<1>5. [plan |-> plan, outcome |-> outcome] \in Batch
  BY <1>1, <1>4 DEF Batch
<1>6. target' \in [SourceRows -> Nat] /\ \A r \in SourceRows :
         /\ target[r] # 0 => target'[r] # 0
         /\ outcome[r] = "imported" /\ plan.rows[r] # 0 => target'[r] # 0
  BY <1>1, <1>3 DEF Inserted, Plan, ImportInv, ImportTyped
<1>7. ImportTyped'
  BY <1>3, <1>5, <1>6 DEF ImportInv, ImportTyped
<1>8. ASSUME NEW r \in SourceRows, Accepted(outcome[r])
      PROVE  r \in Importable(plan) /\ target'[r] # 0
  <2>1. r \in Importable(plan) /\ outcome[r] = Decision(plan, r)
    BY <1>1, <1>2, <1>8, OutcomeFits
  <2>2. CASE outcome[r] = "imported"
    BY <1>1, <1>6, <2>1, <2>2, ImportableRows
  <2>3. CASE outcome[r] = "replayed"
    BY <1>1, <1>6, <2>1, <2>3, ReplayedIsThere
  <2> QED BY <1>8, <2>1, <2>2, <2>3 DEF Accepted
<1>9. AcceptedIsThere'
  <2> SUFFICES ASSUME NEW i \in DOMAIN batches', NEW r \in SourceRows,
                      Accepted(batches'[i].outcome[r])
               PROVE  r \in Importable(batches'[i].plan) /\ target'[r] # 0
    BY DEF AcceptedIsThere, Accepted
  <2>1. CASE i \in DOMAIN batches
    <3>1. batches'[i] = batches[i]
      BY <1>3, <2>1 DEF ImportInv, ImportTyped
    <3> QED BY <1>6, <2>1, <3>1 DEF ImportInv, AcceptedIsThere
  <2>2. CASE i \notin DOMAIN batches
    <3>1. batches'[i] = [plan |-> plan, outcome |-> outcome]
      BY <1>3, <2>2 DEF ImportInv, ImportTyped
    <3>2. batches'[i].plan = plan /\ batches'[i].outcome = outcome
      BY <3>1
    <3> QED BY <1>8, <3>2
  <2> QED BY <2>1, <2>2
<1> QED BY <1>7, <1>9 DEF ImportInv

LEMMA ImportStep == ImportInv /\ [ImportNext]_importVars => ImportInv'
<1> SUFFICES ASSUME ImportInv, [ImportNext]_importVars PROVE ImportInv'
  OBVIOUS
<1> USE DEF ImportInv, ImportTyped, AcceptedIsThere, Accepted
<1>1. ASSUME NEW r \in SourceStores \union SourceProducts, EditSource(r) PROVE ImportInv'
  BY <1>1 DEF EditSource, SourceRows
<1>2. ASSUME NEW o \in SourceOrders, SubmitSource(o) PROVE ImportInv'
  <2>1. source[OrderProduct[o]] \in Nat
    BY SourceAssumption DEF SourceRows
  <2> QED BY <1>2, <2>1 DEF SubmitSource
<1>3. ASSUME NEW s \in SourceStores, ReviewProfile(s) PROVE ImportInv'
  BY <1>3 DEF ReviewProfile
<1>4. CASE Export
  <2>1. [rows |-> source, profiles |-> profiled] \in Plan
    BY DEF Plan
  <2> QED BY <1>4, <2>1 DEF Export
<1>5. ASSUME NEW plan \in exports, ApplyPlan(plan) PROVE ImportInv'
  BY <1>5, ApplyStep
<1>6. CASE Promote
  BY <1>6 DEF Promote
<1>7. CASE UNCHANGED importVars
  BY <1>7 DEF importVars
<1> QED BY <1>1, <1>2, <1>3, <1>4, <1>5, <1>6, <1>7 DEF ImportNext

LEMMA BatchPlans ==
    ASSUME ImportInv, NEW i \in DOMAIN batches
    PROVE  batches[i].plan \in Plan
<1>1. batches[i] \in Batch
  BY DEF ImportInv, ImportTyped
<1> QED BY <1>1 DEF Batch

(* When the counts of a batch agree, all that its plan can import was      *)
(* accepted.                                                               *)
LEMMA AllAccepted ==
    ASSUME ImportInv, NEW i \in DOMAIN batches, CountsMatch(batches[i]),
           NEW r \in Importable(batches[i].plan)
    PROVE  Accepted(batches[i].outcome[r])
<1>1. batches[i].plan \in Plan
  BY BatchPlans
<1>2. r \in SourceRows
  BY <1>1, ImportableRows
<1>3. PICK kind \in {SourceStores, SourceProducts, SourceOrders} : r \in kind
  BY <1>2 DEF SourceRows
<1> DEFINE can == kind \intersect Importable(batches[i].plan)
           did == {x \in kind : Accepted(batches[i].outcome[x])}
<1>4. did \in SUBSET can
  BY <1>3 DEF ImportInv, AcceptedIsThere, SourceRows
<1>5. IsFiniteSet(can)
  BY <1>3, SourceAssumption, FS_Intersection
<1>6. Cardinality(can) = Cardinality(did)
  BY <1>3 DEF CountsMatch
<1>7. did = can
  <2> HIDE DEF can, did
  <2> QED BY <1>4, <1>5, <1>6, FS_Subset
<1> QED BY <1>3, <1>7

(* When the check says a batch is ready, all its plan can import is in     *)
(* Postgres, and the store and the product of every order with it.         *)
THEOREM CutOverAll == ImportSpec => []CutoverIsComplete
<1>1. ImportInv => CutoverIsComplete
  <2> SUFFICES ASSUME ImportInv, NEW i \in DOMAIN batches, CutoverReady(batches[i]),
                      NEW r \in Importable(batches[i].plan)
               PROVE  /\ target[r] # 0
                      /\ r \in SourceOrders =>
                            target[OrderStore[r]] # 0 /\ target[OrderProduct[r]] # 0
    BY DEF CutoverIsComplete
  <2>1. batches[i].plan \in Plan
    BY BatchPlans
  <2>2. \A x \in Importable(batches[i].plan) : target[x] # 0
    <3> TAKE x \in Importable(batches[i].plan)
    <3>1. x \in SourceRows
      BY <2>1, ImportableRows
    <3>2. Accepted(batches[i].outcome[x])
      BY AllAccepted DEF CutoverReady
    <3> QED BY <3>1, <3>2 DEF ImportInv, AcceptedIsThere
  <2> QED BY <2>1, <2>2, ImportableRows
<1> QED BY ImportInitHolds, ImportStep, <1>1, PTL DEF ImportSpec

-----------------------------------------------------------------------------
(***************************************************************************)
(* BankSync: what the bank showed of a finished period is in the books.    *)
(*                                                                         *)
(* A job imports page after page of what the bank had when it answered, and*)
(* ends with the page after which nothing is left.                         *)
(***************************************************************************)

Period == [from : Nat, to : Nat, done : BOOLEAN, holder : Importers \union {"none"},
           shown : SUBSET Credits]
Job == [at : {"idle", "poll", "search", "import", "complete"}, sync : Nat, result : Seq(Credits),
        page : Nat \ {0}, fetched : SUBSET Credits]

BankTyped ==
    /\ bankDay \in Nat
    /\ IsFiniteSet(DOMAIN posted) /\ DOMAIN posted \subseteq Credits
    /\ syncs \in Seq(Period)
    /\ importer \in [Importers -> Job]
    /\ bankBooks \in SUBSET Credits

(* What the bank showed of a period it still shows, and has in the books   *)
(* once the synchronisation is done.                                       *)
PeriodHonest(p) ==
    /\ p.shown \subseteq Between(p.from, p.to)
    /\ p.done => p.shown \subseteq bankBooks

(* The result has all that was shown; the pages read are those before the  *)
(* present one; what is imported are all pages.                            *)
JobHonest(job) ==
    LET shown == syncs[job.sync].shown
    IN /\ job.at # "idle" => job.sync \in DOMAIN syncs
       /\ job.at = "poll" => job.page = 1
       /\ job.at = "search" =>
            /\ \A c \in shown : \E i \in DOMAIN job.result : c = job.result[i]
            /\ \A i \in DOMAIN job.result :
                  (i - 1) \div PageSize < job.page - 1 => job.result[i] \in job.fetched
       /\ job.at = "import" => shown \subseteq job.fetched
       /\ job.at = "complete" => shown \subseteq bankBooks

BankInv ==
    /\ BankTyped
    /\ \A e \in DOMAIN syncs : PeriodHonest(syncs[e])
    /\ \A w \in Importers : JobHonest(importer[w])

LEMMA IdleJob == ImporterIdle \in Job /\ ImporterIdle.at = "idle"
<1>1. <<>> \in Seq(Credits)
  OBVIOUS
<1> QED BY <1>1 DEF ImporterIdle, Job

LEMMA BankInitHolds == BankInit => BankInv
<1> SUFFICES ASSUME BankInit PROVE BankInv
  OBVIOUS
<1>1. <<>> \in Seq(Period) /\ DOMAIN <<>> = {}
  OBVIOUS
<1>2. BankTyped
  BY <1>1, IdleJob, FS_EmptySet DEF BankInit, BankTyped
<1>3. \A w \in Importers : JobHonest(importer[w])
  <2>1. \A w \in Importers : importer[w].at = "idle"
    BY IdleJob DEF BankInit
  <2> QED BY <2>1 DEF JobHonest
<1> QED BY <1>1, <1>2, <1>3 DEF BankInit, BankInv

-----------------------------------------------------------------------------
(* The bank goes on: what it showed it still shows.                        *)
LEMMA PostStep ==
    ASSUME BankInv, PostCredit
    PROVE  BankInv'
<1>1. UNCHANGED <<bankDay, syncs, importer, bankBooks>>
  BY DEF PostCredit
<1>2. NewCredit \in Credits /\ NewCredit \notin DOMAIN posted
  BY DEF PostCredit, NewCredit, BankInv, BankTyped
<1>3. /\ DOMAIN posted' = DOMAIN posted \union {NewCredit}
      /\ \A c \in DOMAIN posted : posted'[c] = posted[c]
  BY <1>2 DEF PostCredit
<1>4. \A a, b : Between(a, b) \subseteq Between(a, b)'
  BY <1>3 DEF Between
<1>5. BankTyped'
  BY <1>1, <1>2, <1>3, FS_AddElement DEF BankInv, BankTyped
<1> QED BY <1>1, <1>4, <1>5 DEF BankInv, PeriodHonest, JobHonest

(* A synchronisation is asked for.                                         *)
LEMMA QueueStep ==
    ASSUME BankInv, NEW a \in Nat, NEW b \in Nat, QueueSync(a, b),
           UNCHANGED <<bankDay, posted, importer, bankBooks>>
    PROVE  BankInv'
<1>1. PICK p : p = [from |-> a, to |-> b, done |-> FALSE, holder |-> "none", shown |-> Between(a, b)]
  OBVIOUS
<1>2. p \in Period /\ PeriodHonest(p)
  BY <1>1 DEF Period, PeriodHonest, Between, BankInv, BankTyped
<1>3. syncs' = Append(syncs, p) /\ syncs \in Seq(Period)
  BY <1>1 DEF QueueSync, BankInv, BankTyped
<1>4. /\ syncs' \in Seq(Period) /\ DOMAIN syncs \subseteq DOMAIN syncs'
      /\ \A e \in DOMAIN syncs : syncs'[e] = syncs[e]
      /\ \A e \in DOMAIN syncs' : e \in DOMAIN syncs \/ syncs'[e] = p
  BY <1>2, <1>3
<1>5. BankTyped'
  BY <1>4 DEF BankInv, BankTyped
<1>6. \A e \in DOMAIN syncs' : PeriodHonest(syncs[e])' 
  BY <1>2, <1>4 DEF BankInv, PeriodHonest, Between
<1>7. \A w \in Importers : JobHonest(importer[w])'
  BY <1>4 DEF BankInv, JobHonest
<1> QED BY <1>5, <1>6, <1>7 DEF BankInv

-----------------------------------------------------------------------------
(* One handler goes on; the periods keep what was shown of them.           *)
LEMMA JobGoesOn ==
    ASSUME BankInv, NEW w \in Importers, NEW next \in Job,
           importer' = [importer EXCEPT ![w] = next],
           JobHonest(next)',
           UNCHANGED <<bankDay, posted>>,
           syncs' \in Seq(Period), DOMAIN syncs' = DOMAIN syncs,
           \A e \in DOMAIN syncs : /\ syncs'[e].from = syncs[e].from /\ syncs'[e].to = syncs[e].to
                                   /\ syncs'[e].shown = syncs[e].shown
                                   /\ syncs'[e].done =>
                                        syncs[e].done \/ syncs[e].shown \subseteq bankBooks,
           bankBooks \subseteq bankBooks', bankBooks' \subseteq Credits
    PROVE  BankInv'
<1>1. BankTyped'
  BY DEF BankInv, BankTyped
<1>2. \A e \in DOMAIN syncs' : PeriodHonest(syncs[e])'
  BY DEF BankInv, PeriodHonest, Between
<1>3. ASSUME NEW x \in Importers PROVE JobHonest(importer[x])'
  <2>1. CASE x = w
    <3>1. importer'[x] = next
      BY <2>1 DEF BankInv, BankTyped
    <3> QED BY <3>1 DEF JobHonest
  <2>2. CASE x # w
    <3>1. importer'[x] = importer[x] /\ JobHonest(importer[x])
      BY <2>2 DEF BankInv, BankTyped
    <3> QED BY <3>1 DEF JobHonest
  <2> QED BY <2>1, <2>2
<1> QED BY <1>1, <1>2, <1>3 DEF BankInv

LEMMA IdleHonest == ImporterIdle \in Job /\ JobHonest(ImporterIdle)'
BY IdleJob DEF JobHonest

LEMMA RequestStep ==
    ASSUME BankInv, NEW w \in Importers, NEW e \in DOMAIN syncs, requestJob(w, e)
    PROVE  BankInv'
<1>1. PICK next : next = [ImporterIdle EXCEPT !.at = "poll", !.sync = e]
  OBVIOUS
<1>2. next = [at |-> "poll", sync |-> e, result |-> <<>>, page |-> 1, fetched |-> {}]
  BY <1>1 DEF ImporterIdle
<1>3. <<>> \in Seq(Credits) /\ e \in Nat
  BY DEF BankInv, BankTyped
<1>4. next \in Job
  BY <1>2, <1>3 DEF Job
<1>5. PICK p : p = syncs[e]
  OBVIOUS
<1>6. syncs \in Seq(Period) /\ p \in Period
  BY <1>5 DEF BankInv, BankTyped
<1>7. PICK q : q = [p EXCEPT !.holder = w]
  OBVIOUS
<1>8. q = [from |-> p.from, to |-> p.to, done |-> p.done, holder |-> w, shown |-> p.shown]
  BY <1>6, <1>7 DEF Period
<1>9. q \in Period
  BY <1>6, <1>8 DEF Period
<1>10. syncs' = [syncs EXCEPT ![e] = q]
  BY <1>5, <1>7 DEF requestJob
<1>11. syncs' \in Seq(Period) /\ DOMAIN syncs' = DOMAIN syncs
       /\ \A d \in DOMAIN syncs : syncs'[d] = IF d = e THEN q ELSE syncs[d]
  BY <1>6, <1>9, <1>10
<1>12. \A d \in DOMAIN syncs : /\ syncs'[d].from = syncs[d].from /\ syncs'[d].to = syncs[d].to
                               /\ syncs'[d].shown = syncs[d].shown /\ syncs'[d].done = syncs[d].done
  BY <1>5, <1>8, <1>11
<1>13. next.at = "poll" /\ next.sync = e /\ next.page = 1
  BY <1>2
<1>14. JobHonest(next)'
  BY <1>11, <1>13 DEF JobHonest
<1>15. UNCHANGED <<bankDay, posted, bankBooks>> /\ importer' = [importer EXCEPT ![w] = next]
  BY <1>1 DEF requestJob, SetImporter
<1> QED BY <1>4, <1>11, <1>12, <1>14, <1>15, JobGoesOn DEF BankInv, BankTyped

(* The result has every transaction of the period once, so all of them.    *)
LEMMA ResultHasAll ==
    ASSUME NEW S, IsFiniteSet(S), NEW result \in SetToSeqs(S)
    PROVE  result \in Seq(S) /\ \A c \in S : \E i \in DOMAIN result : c = result[i]
<1>1. PICK n \in Nat : n = Cardinality(S)
  BY FS_CardinalityType
<1>2. result \in [1 .. n -> S] /\ \A i, j \in 1 .. n : i # j => result[i] # result[j]
  BY <1>1 DEF SetToSeqs
<1>3. result \in Injection(1 .. n, S)
  BY <1>2 DEF Injection, IsInjective
<1>4. Cardinality(1 .. n) = n
  BY FS_Interval
<1>5. result \in Surjection(1 .. n, S)
  BY <1>1, <1>3, <1>4, FS_Injection
<1> QED BY <1>2, <1>5 DEF Surjection

LEMMA PollStep ==
    ASSUME BankInv, NEW w \in Importers, getJobState(w)
    PROVE  BankInv'
<1>1. PICK job \in Job : job = importer[w]
  BY DEF BankInv, BankTyped
<1>2. PICK p \in Period : p = syncs[job.sync] /\ PeriodHonest(p) /\ job.sync \in DOMAIN syncs /\ job.page = 1
  <2>1. job.at = "poll" /\ JobHonest(job)
    BY <1>1 DEF getJobState, ImporterAt, BankInv
  <2>2. job.sync \in DOMAIN syncs /\ job.page = 1
    BY <2>1 DEF JobHonest
  <2>3. syncs[job.sync] \in Period
    BY <2>2 DEF BankInv, BankTyped
  <2> QED BY <2>2, <2>3 DEF BankInv
<1>3. PICK result \in SetToSeqs(Between(p.from, p.to)) :
         importer' = [importer EXCEPT ![w] = [job EXCEPT !.at = "search", !.result = result]]
  BY <1>1, <1>2 DEF getJobState, SyncOf, SetImporter
<1>4. IsFiniteSet(Between(p.from, p.to)) /\ Between(p.from, p.to) \subseteq Credits
  <2>1. Between(p.from, p.to) \in SUBSET DOMAIN posted
    BY DEF Between
  <2> QED BY <2>1, FS_Subset DEF BankInv, BankTyped
<1>5. /\ result \in Seq(Between(p.from, p.to))
      /\ \A c \in Between(p.from, p.to) : \E i \in DOMAIN result : c = result[i]
  BY <1>4, ResultHasAll
<1>6. PICK next : next = [job EXCEPT !.at = "search", !.result = result]
  OBVIOUS
<1>7. next = [at |-> "search", sync |-> job.sync, result |-> result, page |-> job.page, fetched |-> job.fetched]
  BY <1>6 DEF Job
<1>8. next \in Job
  BY <1>4, <1>5, <1>7 DEF Job
<1>9. next.at = "search" /\ next.sync = job.sync /\ next.result = result /\ next.page = 1
  BY <1>2, <1>7
<1>10. UNCHANGED <<bankDay, posted, syncs, bankBooks>>
  BY DEF getJobState
<1>11. \A i \in DOMAIN result : ~ ((i - 1) \div PageSize < 0)
  BY <1>5, BankAssumption
<1>12. JobHonest(next)'
  BY <1>2, <1>5, <1>9, <1>10, <1>11 DEF JobHonest, PeriodHonest
<1> QED BY <1>3, <1>6, <1>8, <1>10, <1>12, JobGoesOn DEF BankInv, BankTyped

(* Division, by a number that is not known.                                *)
LEMMA Quotient ==
    ASSUME NEW a \in Nat, NEW d \in Nat \ {0}
    PROVE  /\ a \div d \in Nat
           /\ d * (a \div d) <= a /\ a < d * (a \div d) + d
OBVIOUS

LEMMA Multiplied ==
    ASSUME NEW d \in Nat, NEW p \in Nat, NEW q \in Nat, p <= q
    PROVE  d * p <= d * q
<1>1. PICK x \in Nat : q = p + x
  <2>1. q - p \in Nat /\ q = p + (q - p)
    OBVIOUS
  <2> QED BY <2>1
<1>2. d * q = d * p + d * x /\ d * x \in Nat /\ d * p \in Nat
  BY <1>1
<1> QED BY <1>2

LEMMA DivisionMonotone ==
    ASSUME NEW a \in Nat, NEW b \in Nat, NEW d \in Nat \ {0}, a <= b
    PROVE  a \div d <= b \div d
<1>1. PICK p \in Nat : p = a \div d /\ d * p <= a
  BY Quotient
<1>2. PICK q \in Nat : q = b \div d /\ b < d * q + d
  BY Quotient
<1> SUFFICES ASSUME q + 1 <= p PROVE FALSE
  BY <1>1, <1>2
<1>3. d * (q + 1) <= d * p
  BY Multiplied
<1>4. d * (q + 1) = d * q + d
  OBVIOUS
<1>5. d * p \in Nat /\ d * q \in Nat
  OBVIOUS
<1> QED BY <1>1, <1>2, <1>3, <1>4, <1>5

(* The pages up to the last one have the whole result.                     *)
LEMMA LastPageEnds ==
    ASSUME NEW result \in Seq(Credits), NEW page \in Nat \ {0}, IsLastPage(result, page),
           NEW i \in DOMAIN result
    PROVE  (i - 1) \div PageSize < page
<1>1. PICK n \in Nat \ {0} : n = Len(result) /\ i \in 1 .. n
  OBVIOUS
<1>2. (n + PageSize - 1) \div PageSize <= page
  BY <1>1 DEF IsLastPage, PageCount
<1>3. PICK d \in Nat \ {0} : d = PageSize
  BY BankAssumption
<1>4. n + d - 1 = (n - 1) + d /\ n - 1 \in Nat /\ i - 1 \in Nat /\ i - 1 <= n - 1
  BY <1>1
<1>5. ((n - 1) + d) \div d = (n - 1) \div d + 1
  <2>1. PICK p \in Nat : p = (n - 1) \div d /\ d * p <= n - 1 /\ n - 1 < d * p + d
    BY <1>4, Quotient
  <2>2. PICK q \in Nat : q = ((n - 1) + d) \div d /\ d * q <= (n - 1) + d /\ (n - 1) + d < d * q + d
    <3>1. (n - 1) + d \in Nat
      BY <1>4
    <3> QED BY <3>1, Quotient
  <2>3. d * (p + 1) = d * p + d /\ d * (q + 1) = d * q + d /\ d * (p + 2) = d * p + d + d
    OBVIOUS
  <2>4. d * p \in Nat /\ d * q \in Nat
    OBVIOUS
  <2>5. ~ (p + 2 <= q)
    <3>1. p + 2 <= q => d * (p + 2) <= d * q
      BY Multiplied
    <3> QED BY <1>4, <2>1, <2>2, <2>3, <2>4, <3>1
  <2>6. ~ (q <= p)
    <3>1. q <= p => d * q <= d * p
      BY Multiplied
    <3> QED BY <1>4, <2>1, <2>2, <2>3, <2>4, <3>1
  <2> QED BY <2>1, <2>2, <2>5, <2>6
<1>6. (i - 1) \div d <= (n - 1) \div d
  BY <1>4, DivisionMonotone
<1> QED BY <1>2, <1>3, <1>4, <1>5, <1>6

LEMMA SearchStep ==
    ASSUME BankInv, NEW w \in Importers, searchBankTransactions(w)
    PROVE  BankInv'
<1>1. PICK job \in Job : job = importer[w]
  BY DEF BankInv, BankTyped
<1>2. job.at = "search" /\ JobHonest(job)
  BY <1>1 DEF searchBankTransactions, ImporterAt, BankInv
<1>3. PICK result \in Seq(Credits), page \in Nat \ {0}, fetched \in SUBSET Credits :
         result = job.result /\ page = job.page /\ fetched = job.fetched
  BY DEF Job
<1>4. PICK more : more = fetched \union PageOf(result, page)
  OBVIOUS
<1>5. PICK at \in {"import", "search"} : at = IF IsLastPage(result, page) THEN "import" ELSE "search"
  OBVIOUS
<1>6. PICK following \in Nat \ {0} : following = page + 1
  OBVIOUS
<1>7. PICK next : next = [job EXCEPT !.fetched = more, !.page = following, !.at = at]
  OBVIOUS
<1>8. next = [at |-> at, sync |-> job.sync, result |-> result, page |-> following, fetched |-> more]
  BY <1>3, <1>7 DEF Job
<1>9. importer' = [importer EXCEPT ![w] = next]
  BY <1>1, <1>3, <1>4, <1>5, <1>6, <1>7 DEF searchBankTransactions, SetImporter
<1>10. more \in SUBSET Credits
  BY <1>3, <1>4 DEF PageOf
<1>11. next \in Job
  BY <1>8, <1>10 DEF Job
<1>12. \A i \in DOMAIN result : (i - 1) \div PageSize < page => result[i] \in more
  <2> TAKE i \in DOMAIN result
  <2>1. (i - 1) \div PageSize \in Nat
    BY BankAssumption
  <2>2. CASE (i - 1) \div PageSize < page - 1
    BY <1>2, <1>3, <1>4, <2>2 DEF JobHonest
  <2>3. CASE (i - 1) \div PageSize = page - 1
    BY <1>4, <2>3 DEF PageOf
  <2> QED BY <2>1, <2>2, <2>3
<1>13. UNCHANGED <<bankDay, posted, syncs, bankBooks>>
  BY DEF searchBankTransactions
<1>14. /\ job.sync \in DOMAIN syncs
       /\ \A c \in syncs[job.sync].shown : \E i \in DOMAIN result : c = result[i]
  BY <1>2, <1>3 DEF JobHonest
<1>15. next.at = at /\ next.sync = job.sync /\ next.result = result /\ next.page = following
       /\ next.fetched = more
  BY <1>8
<1>16. at = "import" => syncs[job.sync].shown \subseteq more
  BY <1>5, <1>12, <1>14, LastPageEnds
<1>17. following - 1 = page
  BY <1>6
<1>18. JobHonest(next)'
  BY <1>12, <1>13, <1>14, <1>15, <1>16, <1>17 DEF JobHonest
<1> QED BY <1>9, <1>11, <1>13, <1>18, JobGoesOn DEF BankInv, BankTyped

LEMMA ImportTxStep ==
    ASSUME BankInv, NEW w \in Importers, importTransactions(w)
    PROVE  BankInv'
<1>1. PICK job \in Job : job = importer[w]
  BY DEF BankInv, BankTyped
<1>2. job.at = "import" /\ JobHonest(job)
  BY <1>1 DEF importTransactions, ImporterAt, BankInv
<1>3. UNCHANGED <<bankDay, posted, syncs>>
  BY DEF importTransactions
<1>4. CASE job.fetched \intersect bankBooks = {}
  <2>1. PICK next : next = [job EXCEPT !.at = "complete"]
    OBVIOUS
  <2>2. next = [at |-> "complete", sync |-> job.sync, result |-> job.result, page |-> job.page,
                fetched |-> job.fetched]
    BY <2>1 DEF Job
  <2>3. next \in Job /\ next.at = "complete" /\ next.sync = job.sync
    BY <2>2 DEF Job
  <2>4. bankBooks' = bankBooks \union job.fetched /\ importer' = [importer EXCEPT ![w] = next]
    BY <1>1, <1>4, <2>1 DEF importTransactions, SetImporter
  <2>5. bankBooks' \subseteq Credits
    BY <2>4 DEF BankInv, BankTyped, Job
  <2>6. JobHonest(next)'
    BY <1>2, <1>3, <2>3, <2>4 DEF JobHonest
  <2> QED BY <1>3, <2>3, <2>4, <2>5, <2>6, JobGoesOn DEF BankInv, BankTyped
<1>5. CASE job.fetched \intersect bankBooks # {}
  BY <1>1, <1>3, <1>5, IdleHonest, JobGoesOn
     DEF importTransactions, SetImporter, BankInv, BankTyped
<1> QED BY <1>4, <1>5

(* A synchronisation that counts as done was imported by its handler.      *)
LEMMA CompleteStep ==
    ASSUME BankInv, NEW w \in Importers, completeSync(w)
    PROVE  BankInv'
<1>1. PICK job \in Job : job = importer[w]
  BY DEF BankInv, BankTyped
<1>2. PICK e \in DOMAIN syncs : e = job.sync /\ syncs[e].shown \subseteq bankBooks
  BY <1>1 DEF completeSync, ImporterAt, BankInv, JobHonest
<1>3. PICK p : p = syncs[e]
  OBVIOUS
<1>4. syncs \in Seq(Period) /\ p \in Period
  BY <1>3 DEF BankInv, BankTyped
<1>5. PICK done \in BOOLEAN : done = (p.done \/ p.holder = w)
  OBVIOUS
<1>6. PICK q : q = [p EXCEPT !.done = done]
  OBVIOUS
<1>7. q = [from |-> p.from, to |-> p.to, done |-> done, holder |-> p.holder, shown |-> p.shown]
  BY <1>4, <1>6 DEF Period
<1>8. q \in Period
  BY <1>4, <1>7 DEF Period
<1>9. syncs' = [syncs EXCEPT ![e] = q]
  BY <1>1, <1>2, <1>3, <1>5, <1>6 DEF completeSync, SyncOf
<1>10. syncs' \in Seq(Period) /\ DOMAIN syncs' = DOMAIN syncs
       /\ \A d \in DOMAIN syncs : syncs'[d] = IF d = e THEN q ELSE syncs[d]
  BY <1>4, <1>8, <1>9
<1>11. \A d \in DOMAIN syncs : /\ syncs'[d].from = syncs[d].from /\ syncs'[d].to = syncs[d].to
                               /\ syncs'[d].shown = syncs[d].shown
                               /\ syncs'[d].done =>
                                    syncs[d].done \/ syncs[d].shown \subseteq bankBooks
  BY <1>2, <1>3, <1>7, <1>10
<1>12. UNCHANGED <<bankDay, posted, bankBooks>> /\ importer' = [importer EXCEPT ![w] = ImporterIdle]
  BY DEF completeSync, SetImporter
<1> QED BY <1>10, <1>11, <1>12, IdleHonest, JobGoesOn DEF BankInv, BankTyped

LEMMA BankStep == BankInv /\ [BankNext]_bankVars => BankInv'
<1> SUFFICES ASSUME BankInv, [BankNext]_bankVars PROVE BankInv'
  OBVIOUS
<1>1. CASE PostCredit
  BY <1>1, PostStep
<1>2. CASE BankDayPasses
  BY <1>2 DEF BankDayPasses, BankInv, BankTyped, PeriodHonest, JobHonest, Between
<1>3. CASE ScheduleSync
  BY <1>3, QueueStep DEF ScheduleSync, BankInv, BankTyped
<1>4. ASSUME NEW a \in 0 .. bankDay, NEW b \in 0 .. bankDay, requestBankSync(a, b) PROVE BankInv'
  BY <1>4, QueueStep DEF requestBankSync, BankInv, BankTyped
<1>5. ASSUME NEW w \in Importers, NEW e \in DOMAIN syncs, requestJob(w, e) PROVE BankInv'
  BY <1>5, RequestStep
<1>6. ASSUME NEW w \in Importers,
             \/ getJobState(w) \/ searchBankTransactions(w) \/ importTransactions(w) \/ completeSync(w)
      PROVE  BankInv'
  BY <1>6, PollStep, SearchStep, ImportTxStep, CompleteStep
<1>7. ASSUME NEW w \in Importers, syncFails(w) PROVE BankInv'
  BY <1>7, IdleHonest, JobGoesOn DEF syncFails, SetImporter, BankInv, BankTyped
<1>8. CASE UNCHANGED bankVars
  BY <1>8 DEF bankVars, BankInv, BankTyped, PeriodHonest, JobHonest, Between
<1> QED BY <1>1, <1>2, <1>3, <1>4, <1>5, <1>6, <1>7, <1>8 DEF BankNext

(* A synchronisation that is done has all in the books that the bank had   *)
(* posted of its days when it was asked for.                               *)
THEOREM ImportedPeriods == BankSpec => []SyncedIsImported
<1>1. BankInv => SyncedIsImported
  BY DEF BankInv, PeriodHonest, SyncedIsImported
<1> QED BY BankInitHolds, BankStep, <1>1, PTL DEF BankSpec

-----------------------------------------------------------------------------
(***************************************************************************)
(* LegacyBackfill: every day of a job is counted once.                     *)
(*                                                                         *)
(* The months that were saved end where the job goes on, and the one that  *)
(* is fetched begins there.                                                *)
(***************************************************************************)

(* What some days sold is a sum.                                           *)
LEMMA RevenueIsSum ==
    ASSUME NEW D, IsFiniteSet(D)
    PROVE  RevenueOfDays(D) = SumOf(RevenueOn, D)
<1> DEFINE it == CHOOSE h : h = [s \in SUBSET D |->
                     IF s = {} THEN 0
                     ELSE RevenueOn[CHOOSE x \in s : TRUE] + h[s \ {CHOOSE x \in s : TRUE}]]
<1>1. RevenueOfDays(D) = it[D]
  BY DEF RevenueOfDays, MapThenSumSet, MapThenFoldSet
<1>2. PICK h : Summing(h, RevenueOn, D)
  BY SumExists
<1>3. \A k : [s \in SUBSET D |-> IF s = {} THEN 0
                 ELSE RevenueOn[CHOOSE x \in s : TRUE] + k[s \ {CHOOSE x \in s : TRUE}]]
           = [s \in SUBSET D |-> IF s = {} THEN 0 ELSE RevenueOn[Pick(s)] + k[s \ {Pick(s)}]]
  BY DEF Pick
<1>4. h = [s \in SUBSET D |-> IF s = {} THEN 0
              ELSE RevenueOn[CHOOSE x \in s : TRUE] + h[s \ {CHOOSE x \in s : TRUE}]]
  BY <1>2, <1>3 DEF Summing
<1>5. it = [s \in SUBSET D |-> IF s = {} THEN 0
              ELSE RevenueOn[CHOOSE x \in s : TRUE] + it[s \ {CHOOSE x \in s : TRUE}]]
  BY <1>4
<1>6. Summing(it, RevenueOn, D)
  BY <1>3, <1>5 DEF Summing
<1> HIDE DEF it
<1> QED BY <1>1, <1>6, SumIsSumming

-----------------------------------------------------------------------------
JobRow == [status : {"queued", "running", "interrupted", "done"}, from : Nat, to : 0 .. LastToday,
           next : Nat, completed : Nat, revenue : Int]
Active(job) == job.status \in {"queued", "running"}

BackfillTyped ==
    /\ kstDay \in FirstToday .. LastToday
    /\ jobs \in [JobIds -> JobRow \union {NoJob}]
    /\ savedDays \in SUBSET Nat /\ fetching \in SUBSET Nat

(* Saved and counted up to the job's place.                                *)
PlaceHonest(job) ==
    /\ job.from <= job.next /\ job.next <= job.to + 1
    /\ job.from .. (job.next - 1) \subseteq savedDays
    /\ job.completed = job.next - job.from
    /\ job.revenue = SumOf(RevenueOn, job.from .. (job.next - 1))
    /\ job.status = "done" => job.next = job.to + 1

OneActive == \A j, k \in JobIds : Active(jobs[j]) /\ Active(jobs[k]) => j = k
(* What is fetched is the month at the place of the job that runs.         *)
FetchHonest ==
    fetching # {} => \E j \in JobIds :
        /\ jobs[j].status = "running" /\ jobs[j].next <= jobs[j].to
        /\ fetching = Chunk(jobs[j].next, jobs[j].to)

BackfillInv ==
    /\ BackfillTyped /\ OneActive /\ FetchHonest
    /\ \A j \in JobIds : Made(j) => PlaceHonest(jobs[j])

LEMMA JobFields ==
    ASSUME BackfillInv, NEW j \in JobIds
    PROVE  /\ Made(j) <=> jobs[j] \in JobRow
           /\ Active(jobs[j]) => Made(j)
           /\ jobs[j].status \in {"none", "queued", "running", "interrupted", "done"}
           /\ ~ Made(j) => jobs[j] = NoJob
<1>1. NoJob.status = "none" /\ \A r \in JobRow : r.status # "none"
  BY DEF NoJob, JobRow
<1> QED BY <1>1 DEF BackfillInv, BackfillTyped, Made, Active, JobRow

LEMMA BackfillInitHolds == BackfillInit => BackfillInv
<1> SUFFICES ASSUME BackfillInit PROVE BackfillInv
  OBVIOUS
<1>1. \A j \in JobIds : jobs[j] = NoJob /\ NoJob.status = "none"
  BY DEF BackfillInit, NoJob
<1>2. BackfillTyped
  BY PeriodAssumption DEF BackfillInit, BackfillTyped
<1> QED BY <1>1, <1>2 DEF BackfillInit, BackfillInv, OneActive, FetchHonest, Active, Made

(* One job changes and the rest stays.                                     *)
LEMMA JobChanges ==
    ASSUME BackfillInv, NEW j \in JobIds, NEW job \in JobRow,
           jobs' = [jobs EXCEPT ![j] = job], UNCHANGED kstDay,
           savedDays \subseteq savedDays', savedDays' \in SUBSET Nat, fetching' \in SUBSET Nat,
           Active(job) => \A k \in JobIds : k # j => ~ Active(jobs[k]),
           PlaceHonest(job)',
           FetchHonest'
    PROVE  BackfillInv'
<1>1. \A k \in JobIds : jobs'[k] = IF k = j THEN job ELSE jobs[k]
  BY DEF BackfillInv, BackfillTyped
<1>2. BackfillTyped'
  BY <1>1 DEF BackfillInv, BackfillTyped
<1>3. OneActive'
  <2> SUFFICES ASSUME NEW a \in JobIds, NEW b \in JobIds, Active(jobs'[a]), Active(jobs'[b])
               PROVE  a = b
    BY DEF OneActive, Active
  <2> QED BY <1>1 DEF BackfillInv, OneActive, Active
<1>4. ASSUME NEW k \in JobIds, Made(k)' PROVE PlaceHonest(jobs[k])'
  <2>1. CASE k = j
    <3>1. jobs'[k] = job
      BY <1>1, <2>1
    <3> QED BY <3>1 DEF PlaceHonest
  <2>2. CASE k # j
    <3>1. jobs'[k] = jobs[k]
      BY <1>1, <2>2
    <3>2. PlaceHonest(jobs[k])
      BY <1>4, <3>1 DEF BackfillInv, Made
    <3> QED BY <3>1, <3>2 DEF PlaceHonest
  <2> QED BY <2>1, <2>2
<1> QED BY <1>2, <1>3, <1>4 DEF BackfillInv

-----------------------------------------------------------------------------
(* A job that is interrupted and taken up is one of them.                  *)
LEMMA NewestIsThere ==
    ASSUME NEW y, Interrupted(y) # {}
    PROVE  Newest(Interrupted(y)) \in Interrupted(y)
<1> DEFINE J == Interrupted(y)
           T == {j[2] : j \in J}
<1>1. \A j \in J : j \in JobIds /\ j[2] \in Nat /\ j[2] <= LastToday
  BY PeriodAssumption DEF Interrupted, JobIds
<1>2. T \in SUBSET Nat /\ T # {} /\ \A x \in T : x <= LastToday
  BY <1>1
<1>3. PICK x \in T : \A z \in T : x >= z
  <2> HIDE DEF T
  <2> QED BY <1>2, PeriodAssumption, LargestNumber
<1>4. PICK j \in J : x = j[2]
  BY <1>3
<1>5. \A i \in J : i[2] <= j[2]
  BY <1>1, <1>3, <1>4
<1> HIDE DEF J
<1>6. Newest(J) \in J
  BY <1>4, <1>5 DEF Newest
<1> QED BY <1>6 DEF J

(* The period of a new job.                                                *)
LEMMA BoundsFit ==
    ASSUME BackfillInv, NEW y \in Years
    PROVE  /\ backfillBounds(y, kstDay).from \in Nat
           /\ backfillBounds(y, kstDay).to = kstDay /\ kstDay \in 0 .. LastToday
           /\ backfillBounds(y, kstDay).from <= kstDay
<1>1. kstDay \in Nat /\ y \in Nat /\ y >= 1 /\ kstDay <= LastToday /\ OpenDay \in Nat
  BY PeriodAssumption DEF BackfillInv, BackfillTyped
<1>2. Min2(y, kstDay + 1) \in 1 .. kstDay + 1
  BY <1>1 DEF Min2
<1>3. PICK from \in Nat : from = kstDay + 1 - Min2(y, kstDay + 1) /\ from <= kstDay
  BY <1>1, <1>2
<1>4. OpenDay <= kstDay => Max2(from, OpenDay) \in Nat /\ Max2(from, OpenDay) <= kstDay
  BY <1>1, <1>3 DEF Max2
<1> QED BY <1>1, <1>3, <1>4 DEF backfillBounds

LEMMA BackfillPostStep ==
    ASSUME BackfillInv, NEW y \in Years, PostBackfill(y)
    PROVE  BackfillInv'
<1>1. NoneActive /\ fetching = {} /\ UNCHANGED <<kstDay, fetching, savedDays>>
  BY DEF PostBackfill, NoneActive, BackfillInv, FetchHonest
<1>2. \A k \in JobIds : ~ Active(jobs[k])
  BY <1>1 DEF NoneActive, Active
<1>3. FetchHonest' /\ savedDays' \in SUBSET Nat /\ fetching' \in SUBSET Nat
  BY <1>1 DEF FetchHonest, BackfillInv, BackfillTyped
<1>4. CASE Interrupted(y) # {}
  <2>1. PICK j : j = Newest(Interrupted(y))
    OBVIOUS
  <2>2. j \in JobIds /\ jobs[j].status = "interrupted" /\ jobs' = [jobs EXCEPT ![j].status = "queued"]
    BY <1>4, <2>1, NewestIsThere DEF Interrupted, PostBackfill
  <2>3. PICK row \in JobRow : row = jobs[j] /\ PlaceHonest(row)
    BY <2>2, JobFields DEF BackfillInv, Made
  <2>4. PICK job : job = [row EXCEPT !.status = "queued"]
    OBVIOUS
  <2>5. /\ job \in JobRow /\ job.status = "queued" /\ job.from = row.from /\ job.to = row.to
        /\ job.next = row.next /\ job.completed = row.completed /\ job.revenue = row.revenue
    BY <2>4 DEF JobRow
  <2>6. jobs' = [jobs EXCEPT ![j] = job]
    BY <2>2, <2>3, <2>4 DEF BackfillInv, BackfillTyped
  <2>7. PlaceHonest(job)'
    BY <1>1, <2>3, <2>5 DEF PlaceHonest
  <2> QED BY <1>1, <1>2, <1>3, <2>2, <2>5, <2>6, <2>7, JobChanges
<1>5. CASE Interrupted(y) = {}
  <2>1. PICK from \in Nat, to \in 0 .. LastToday :
            from = backfillBounds(y, kstDay).from /\ to = backfillBounds(y, kstDay).to
            /\ from <= to /\ to = kstDay
    BY BoundsFit
  <2>2. PICK job : job = [status |-> "queued", from |-> from, to |-> to, next |-> from,
                          completed |-> 0, revenue |-> 0]
    OBVIOUS
  <2>3. jobs' = [jobs EXCEPT ![<<y, kstDay>>] = job]
    BY <1>5, <2>1, <2>2 DEF PostBackfill
  <2>4. PICK j \in JobIds : j = <<y, kstDay>>
    BY DEF JobIds, BackfillInv, BackfillTyped
  <2>5. job \in JobRow
    BY <2>1, <2>2 DEF JobRow
  <2>6. from .. (from - 1) = {}
    BY <2>1
  <2>7. PlaceHonest(job)'
    <3>1. SumOf(RevenueOn, from .. (from - 1)) = 0
      BY <2>6, SumEmpty
    <3> QED BY <2>1, <2>2, <2>6, <3>1 DEF PlaceHonest
  <2> QED BY <1>1, <1>2, <1>3, <2>3, <2>4, <2>5, <2>7, JobChanges
<1> QED BY <1>4, <1>5

(* Steps of the runner change the status or the place of the job that runs. *)
LEMMA StatusStep ==
    ASSUME BackfillInv, NEW j \in JobIds, NEW status \in {"running", "interrupted"},
           Active(jobs[j]), jobs' = [jobs EXCEPT ![j].status = status], UNCHANGED kstDay,
           savedDays \subseteq savedDays', savedDays' \in SUBSET Nat, fetching' = {}
    PROVE  BackfillInv'
<1>1. PICK row \in JobRow : row = jobs[j] /\ PlaceHonest(row)
  BY JobFields DEF BackfillInv
<1>2. PICK job : job = [row EXCEPT !.status = status]
  OBVIOUS
<1>3. /\ job \in JobRow /\ job.status = status /\ job.from = row.from /\ job.to = row.to
      /\ job.next = row.next /\ job.completed = row.completed /\ job.revenue = row.revenue
  BY <1>2 DEF JobRow
<1>4. jobs' = [jobs EXCEPT ![j] = job]
  BY <1>1, <1>2 DEF BackfillInv, BackfillTyped
<1>5. PlaceHonest(job)'
  BY <1>1, <1>3 DEF PlaceHonest
<1>6. \A k \in JobIds : k # j => ~ Active(jobs[k])
  BY DEF BackfillInv, OneActive
<1>7. FetchHonest' /\ fetching' \in SUBSET Nat
  BY DEF FetchHonest
<1> QED BY <1>3, <1>4, <1>5, <1>6, <1>7, JobChanges

LEMMA StartStep ==
    ASSUME BackfillInv, NEW j \in JobIds, StartJob(j)
    PROVE  BackfillInv'
<1>1. Active(jobs[j]) /\ jobs[j].status = "queued"
  BY DEF StartJob, Active
<1>2. fetching = {}
  BY <1>1 DEF BackfillInv, FetchHonest, OneActive, Active
<1>3. savedDays' \in SUBSET Nat
  BY DEF StartJob, BackfillInv, BackfillTyped
<1>4. jobs' = [jobs EXCEPT ![j].status = "running"] /\ UNCHANGED <<kstDay, fetching, savedDays>>
  BY DEF StartJob
<1> QED BY <1>1, <1>2, <1>3, <1>4, StatusStep

(* A month goes on from the place and not past the end.                    *)
LEMMA ChunkFits ==
    ASSUME NEW d \in Nat, NEW to \in Nat, d <= to
    PROVE  \E last \in Nat : Chunk(d, to) = d .. last /\ d <= last /\ last <= to
<1>1. PICK m \in Nat : m = d % MonthLength /\ m <= MonthLength - 1
  BY PeriodAssumption
<1>2. d + MonthLength - 1 - m >= d /\ d + MonthLength - 1 - m \in Nat
  BY <1>1, PeriodAssumption
<1>3. Min2(to, d + MonthLength - 1 - m) \in Nat /\ d <= Min2(to, d + MonthLength - 1 - m)
      /\ Min2(to, d + MonthLength - 1 - m) <= to
  BY <1>2 DEF Min2
<1> QED BY <1>1, <1>3 DEF Chunk

LEMMA FetchStep ==
    ASSUME BackfillInv, NEW j \in JobIds, FetchMonth(j)
    PROVE  BackfillInv'
<1>1. PICK row \in JobRow : row = jobs[j] /\ row.next <= row.to
  BY JobFields DEF FetchMonth, Active
<1>2. row.next \in Nat /\ row.to \in Nat
  BY PeriodAssumption DEF JobRow
<1>3. Chunk(row.next, row.to) \in SUBSET Nat
  <2>1. PICK d \in Nat, to \in Nat : d = row.next /\ to = row.to /\ d <= to
    BY <1>1, <1>2
  <2>2. PICK last \in Nat : Chunk(d, to) = d .. last /\ d <= last /\ last <= to
    BY <2>1, ChunkFits
  <2> QED BY <2>1, <2>2
<1>4. UNCHANGED <<kstDay, jobs, savedDays>> /\ fetching' = Chunk(row.next, row.to) /\ row.status = "running"
  BY <1>1 DEF FetchMonth
<1>5. FetchHonest'
  BY <1>1, <1>4 DEF FetchHonest
<1>6. BackfillTyped' /\ OneActive'
  BY <1>3, <1>4 DEF BackfillInv, BackfillTyped, OneActive, Active
<1> QED BY <1>4, <1>5, <1>6 DEF BackfillInv, Made, PlaceHonest

LEMMA SaveStep ==
    ASSUME BackfillInv, NEW j \in JobIds, SaveMonth(j)
    PROVE  BackfillInv'
<1>1. jobs[j].status = "running" /\ fetching # {} /\ Active(jobs[j])
  BY DEF SaveMonth, Active
<1>2. PICK row \in JobRow : row = jobs[j] /\ PlaceHonest(row)
  BY <1>1, JobFields DEF BackfillInv
<1>3. fetching = Chunk(row.next, row.to) /\ row.next <= row.to
  BY <1>1, <1>2 DEF BackfillInv, FetchHonest, OneActive, Active
<1>4. PICK from \in Nat, next \in Nat, to \in Nat, completed \in Nat, revenue \in Int :
          /\ from = row.from /\ next = row.next /\ to = row.to /\ to <= LastToday
          /\ completed = row.completed /\ revenue = row.revenue
  BY PeriodAssumption DEF JobRow
<1>5. PICK last \in Nat : fetching = next .. last /\ next <= last /\ last <= to
  BY <1>3, <1>4, ChunkFits
<1> DEFINE past == from .. (next - 1)
<1>6. /\ from <= next /\ past \subseteq savedDays /\ completed = next - from
      /\ revenue = SumOf(RevenueOn, past)
  BY <1>2, <1>4 DEF PlaceHonest
<1>7. /\ IsFiniteSet(fetching) /\ IsFiniteSet(past) /\ Cardinality(fetching) = last - next + 1
      /\ past \intersect fetching = {} /\ past \union fetching = from .. ((last + 1) - 1)
  <2>1. IsFiniteSet(next .. last) /\ Cardinality(next .. last) = last - next + 1 /\ IsFiniteSet(past)
    BY <1>5, FS_Interval
  <2> QED BY <1>5, <1>6, <2>1
<1>8. \A d \in past \union fetching : RevenueOn[d] \in Int
  <2>1. \A d \in past \union fetching : d \in 0 .. LastToday
    <3> HIDE DEF past
    <3>1. \A d \in past \union fetching : d \in from .. ((last + 1) - 1)
      BY <1>7
    <3> QED BY <1>4, <1>5, <3>1, PeriodAssumption
  <2> HIDE DEF past
  <2> QED BY <2>1, PeriodAssumption
<1>9. PICK n \in Int : n = RevenueOfDays(fetching) /\ n = SumOf(RevenueOn, fetching)
  <2> HIDE DEF past
  <2>1. RevenueOfDays(fetching) = SumOf(RevenueOn, fetching)
    BY <1>7, RevenueIsSum
  <2>2. SumOf(RevenueOn, fetching) \in Int
    BY <1>7, <1>8, SumType
  <2> QED BY <2>1, <2>2
<1>10. SumOf(RevenueOn, past \union fetching) = revenue + n
  <2> HIDE DEF past
  <2> QED BY <1>6, <1>7, <1>8, <1>9, SumUnion
<1>11. PICK k \in Nat : k = Cardinality(fetching) /\ k = last - next + 1
  BY <1>5, <1>7
<1>12. PICK job : job = [row EXCEPT !.next = next + k, !.completed = completed + k,
                                    !.revenue = revenue + n]
  OBVIOUS
<1>13. job = [status |-> row.status, from |-> from, to |-> to, next |-> next + k,
              completed |-> completed + k, revenue |-> revenue + n]
  BY <1>4, <1>12 DEF JobRow
<1>14. job \in JobRow /\ job.status = "running"
  BY <1>1, <1>2, <1>4, <1>13 DEF JobRow
<1>15. jobs' = [jobs EXCEPT ![j] = job]
  <2>1. WithMonth(row, fetching) = job
    BY <1>4, <1>9, <1>11, <1>12 DEF WithMonth
  <2> QED BY <1>2, <2>1 DEF SaveMonth, BackfillInv, BackfillTyped
<1>16. UNCHANGED kstDay /\ savedDays' = savedDays \union fetching /\ fetching' = {}
  BY DEF SaveMonth
<1>17. PlaceHonest(job)'
  <2>1. next + k = last + 1
    BY <1>11
  <2>2. from .. (job.next - 1) = past \union fetching
    BY <1>7, <1>13, <2>1
  <2>3. job.revenue = SumOf(RevenueOn, from .. (job.next - 1))
    BY <1>10, <1>13, <2>2
  <2>4. job.from = from /\ job.to = to /\ job.next = last + 1 /\ job.completed = completed + k
    BY <1>13, <2>1
  <2>5. job.completed = job.next - job.from /\ job.from <= job.next /\ job.next <= job.to + 1
    BY <1>5, <1>6, <1>11, <2>4
  <2>6. from .. (job.next - 1) \subseteq savedDays'
    BY <1>6, <1>16, <2>2
  <2> QED BY <1>14, <2>3, <2>4, <2>5, <2>6 DEF PlaceHonest
<1>18. \A k1 \in JobIds : k1 # j => ~ Active(jobs[k1])
  BY <1>1 DEF BackfillInv, OneActive
<1>19. FetchHonest' /\ fetching' \in SUBSET Nat /\ savedDays' \in SUBSET Nat
  BY <1>16 DEF FetchHonest, BackfillInv, BackfillTyped
<1> QED BY <1>14, <1>15, <1>16, <1>17, <1>18, <1>19, JobChanges

LEMMA FailStep ==
    ASSUME BackfillInv, NEW j \in JobIds, MonthFails(j)
    PROVE  BackfillInv'
<1>1. jobs' = [jobs EXCEPT ![j].status = "interrupted"] /\ Active(jobs[j])
  BY DEF MonthFails, Stopped, BackfillInv, BackfillTyped, Active
<1>2. PICK D \in SomeDays : savedDays' = savedDays \union D
  BY DEF MonthFails
<1>3. savedDays' \in SUBSET Nat /\ savedDays \subseteq savedDays'
  BY <1>2 DEF SomeDays, BackfillInv, BackfillTyped
<1>4. UNCHANGED kstDay /\ fetching' = {}
  BY DEF MonthFails
<1> QED BY <1>1, <1>3, <1>4, StatusStep

LEMMA FinishStep ==
    ASSUME BackfillInv, NEW j \in JobIds, FinishJob(j)
    PROVE  BackfillInv'
<1>1. PICK row \in JobRow : row = jobs[j] /\ PlaceHonest(row)
  BY JobFields DEF FinishJob, Active, BackfillInv
<1>2. PICK from \in Nat, next \in Nat, to \in Nat : from = row.from /\ next = row.next /\ to = row.to
  BY PeriodAssumption DEF JobRow
<1>3. next = to + 1 /\ from <= next /\ TotalDays(j) = next - from
  <2>1. next > to
    BY <1>1, <1>2 DEF FinishJob
  <2>2. from <= next /\ next <= to + 1
    BY <1>1, <1>2 DEF PlaceHonest
  <2>3. TotalDays(j) = to + 1 - from
    BY <1>1, <1>2 DEF TotalDays
  <2> QED BY <2>1, <2>2, <2>3
<1>4. PICK n \in Nat : n = TotalDays(j) /\ n = next - from
  BY <1>3
<1>5. PICK job : job = [row EXCEPT !.status = "done", !.completed = n]
  OBVIOUS
<1>6. /\ job \in JobRow /\ job.status = "done" /\ job.from = row.from /\ job.to = row.to
      /\ job.next = row.next /\ job.completed = n /\ job.revenue = row.revenue
  BY <1>5 DEF JobRow
<1>7. jobs' = [jobs EXCEPT ![j] = job]
  BY <1>1, <1>4, <1>5 DEF FinishJob, BackfillInv, BackfillTyped
<1>8. UNCHANGED <<kstDay, fetching, savedDays>> /\ fetching = {}
  BY DEF FinishJob
<1>9. PlaceHonest(job)'
  BY <1>1, <1>2, <1>3, <1>4, <1>6, <1>8 DEF PlaceHonest
<1>10. FetchHonest' /\ fetching' \in SUBSET Nat /\ savedDays' \in SUBSET Nat
  BY <1>8 DEF FetchHonest, BackfillInv, BackfillTyped
<1> QED BY <1>6, <1>7, <1>8, <1>9, <1>10, JobChanges DEF Active

LEMMA RestartStep ==
    ASSUME BackfillInv, RestartServer
    PROVE  BackfillInv'
<1>1. PICK D \in SomeDays : savedDays' = savedDays \union D
  BY DEF RestartServer
<1>2. savedDays' \in SUBSET Nat /\ savedDays \subseteq savedDays'
  BY <1>1 DEF SomeDays, BackfillInv, BackfillTyped
<1>3. UNCHANGED kstDay /\ fetching' = {} /\ jobs' = Halted(jobs)
  BY DEF RestartServer
<1>4. \A j \in JobIds : jobs'[j] = IF Active(jobs[j]) THEN [jobs[j] EXCEPT !.status = "interrupted"]
                                   ELSE jobs[j]
  BY <1>3 DEF Halted, Active, Stopped
<1>5. ASSUME NEW j \in JobIds
      PROVE  /\ jobs'[j] \in JobRow \union {NoJob} /\ ~ Active(jobs'[j])
             /\ Made(j)' => PlaceHonest(jobs[j])'
  <2>1. CASE Active(jobs[j])
    <3>1. PICK row \in JobRow : row = jobs[j] /\ PlaceHonest(row)
      BY <2>1, JobFields DEF BackfillInv
    <3>2. PICK job : job = [row EXCEPT !.status = "interrupted"]
      OBVIOUS
    <3>3. /\ job \in JobRow /\ job.status = "interrupted" /\ job.from = row.from /\ job.to = row.to
          /\ job.next = row.next /\ job.completed = row.completed /\ job.revenue = row.revenue
      BY <3>2 DEF JobRow
    <3>4. jobs'[j] = job
      BY <1>4, <2>1, <3>1, <3>2
    <3>5. PlaceHonest(jobs[j])'
      BY <1>2, <3>1, <3>3, <3>4 DEF PlaceHonest
    <3> QED BY <3>3, <3>4, <3>5 DEF Active
  <2>2. CASE ~ Active(jobs[j])
    <3>1. jobs'[j] = jobs[j]
      BY <1>4, <2>2
    <3>2. Made(j) => PlaceHonest(jobs[j])
      BY DEF BackfillInv
    <3>3. Made(j)' => PlaceHonest(jobs[j])'
      BY <1>2, <3>1, <3>2 DEF PlaceHonest, Made
    <3> QED BY <2>2, <3>1, <3>3 DEF BackfillInv, BackfillTyped
  <2> QED BY <2>1, <2>2
<1>6. jobs' \in [JobIds -> JobRow \union {NoJob}]
  BY <1>3, <1>5 DEF Halted
<1>7. BackfillTyped' /\ OneActive' /\ FetchHonest'
  BY <1>2, <1>3, <1>5, <1>6 DEF BackfillInv, BackfillTyped, OneActive, FetchHonest
<1> QED BY <1>5, <1>7 DEF BackfillInv

LEMMA BackfillStep == BackfillInv /\ [BackfillNext]_backfillVars => BackfillInv'
<1> SUFFICES ASSUME BackfillInv, [BackfillNext]_backfillVars PROVE BackfillInv'
  OBVIOUS
<1>1. ASSUME NEW y \in Years, PostBackfill(y) PROVE BackfillInv'
  BY <1>1, BackfillPostStep
<1>2. CASE RunnerStep
  BY <1>2, StartStep, FetchStep, SaveStep, FinishStep DEF RunnerStep
<1>3. ASSUME NEW j \in JobIds, MonthFails(j) PROVE BackfillInv'
  BY <1>3, FailStep
<1>4. CASE RestartServer
  BY <1>4, RestartStep
<1>5. CASE BackfillDayPasses
  <2>1. UNCHANGED <<jobs, fetching, savedDays>> /\ kstDay' \in FirstToday .. LastToday
    BY <1>5, PeriodAssumption DEF BackfillDayPasses, BackfillInv, BackfillTyped
  <2> QED BY <2>1 DEF BackfillInv, BackfillTyped, OneActive, FetchHonest, PlaceHonest, Made, Active
<1>6. CASE UNCHANGED backfillVars
  BY <1>6 DEF backfillVars, BackfillInv, BackfillTyped, OneActive, FetchHonest, PlaceHonest, Made, Active
<1> QED BY <1>1, <1>2, <1>3, <1>4, <1>5, <1>6 DEF BackfillNext

(* Totals of a job are those of the days before its place, each saved and  *)
(* counted once, for any sales, months, deaths and failures                *)
(* (runManualBackfill).                                                    *)
THEOREM CountedOnce == BackfillSpec => []BackfillIsWhole
<1>1. BackfillInv => BackfillIsWhole
  <2> SUFFICES ASSUME BackfillInv, NEW j \in JobIds, Made(j)
               PROVE  LET past == jobs[j].from .. (jobs[j].next - 1) IN
                      /\ past \subseteq savedDays
                      /\ jobs[j].completed = Cardinality(past)
                      /\ jobs[j].revenue = RevenueOfDays(past)
                      /\ jobs[j].status = "done" => jobs[j].next = jobs[j].to + 1
    BY DEF BackfillIsWhole
  <2>1. PICK row \in JobRow : row = jobs[j] /\ PlaceHonest(row)
    BY JobFields DEF BackfillInv
  <2>2. PICK from \in Nat, next \in Nat : from = row.from /\ next = row.next
    BY DEF JobRow
  <2>3. IsFiniteSet(from .. (next - 1)) /\ Cardinality(from .. (next - 1)) = next - from
    <3>1. from <= next
      BY <2>1, <2>2 DEF PlaceHonest
    <3>2. CASE from = next
      <4>1. from .. (next - 1) = {}
        BY <3>2
      <4> QED BY <3>2, <4>1, FS_EmptySet
    <3>3. CASE from < next
      BY <3>3, FS_Interval
    <3> QED BY <3>1, <3>2, <3>3
  <2>4. RevenueOfDays(from .. (next - 1)) = SumOf(RevenueOn, from .. (next - 1))
    BY <2>3, RevenueIsSum
  <2> QED BY <2>1, <2>2, <2>3, <2>4 DEF PlaceHonest
<1> QED BY <1>1, BackfillInitHolds, BackfillStep, PTL DEF BackfillSpec

-----------------------------------------------------------------------------
(***************************************************************************)
(* Money: an order can be split and its lines add up.                      *)
(*                                                                         *)
(* What the document rounds is at most the number of lines that have       *)
(* something left over, and the lines with the largest remainders are among*)
(* these.                                                                  *)
(***************************************************************************)

(* What the total of a document is made of.                                *)
LEMMA TotalIsSum ==
    ASSUME NEW D, IsFiniteSet(D), NEW f, f = [x \in D |-> f[x]]
    PROVE  TotalOf(f) = SumOf(f, D)
<1> DEFINE it == CHOOSE h : h = [s \in SUBSET D |->
                     IF s = {} THEN 0
                     ELSE f[CHOOSE x \in s : TRUE] + h[s \ {CHOOSE x \in s : TRUE}]]
<1>1. DOMAIN f = D
  OBVIOUS
<1>2. TotalOf(f) = it[D]
  BY <1>1 DEF TotalOf, FoldFunction, FoldFunctionOnSet, MapThenFoldSet
<1>3. PICK h : Summing(h, f, D)
  BY SumExists
<1>4. \A k : [s \in SUBSET D |-> IF s = {} THEN 0
                 ELSE f[CHOOSE x \in s : TRUE] + k[s \ {CHOOSE x \in s : TRUE}]]
           = [s \in SUBSET D |-> IF s = {} THEN 0 ELSE f[Pick(s)] + k[s \ {Pick(s)}]]
  BY DEF Pick
<1>5. h = [s \in SUBSET D |-> IF s = {} THEN 0
              ELSE f[CHOOSE x \in s : TRUE] + h[s \ {CHOOSE x \in s : TRUE}]]
  BY <1>3, <1>4 DEF Summing
<1>6. it = [s \in SUBSET D |-> IF s = {} THEN 0
              ELSE f[CHOOSE x \in s : TRUE] + it[s \ {CHOOSE x \in s : TRUE}]]
  BY <1>5
<1>7. Summing(it, f, D)
  BY <1>4, <1>6 DEF Summing
<1> HIDE DEF it
<1> QED BY <1>2, <1>7, SumIsSumming

-----------------------------------------------------------------------------
(* Of the parts of a finite set with k members, one has the k largest.     *)
LEMMA LargestExist ==
    ASSUME NEW D, IsFiniteSet(D), NEW r \in [D -> Nat], NEW b \in Nat, \A i \in D : r[i] <= b,
           NEW k \in 0 .. Cardinality(D)
    PROVE  \E extra \in SUBSET D : /\ Cardinality(extra) = k
                                   /\ \A i \in extra, j \in D \ extra : r[i] >= r[j]
<1> DEFINE Has(m) == \E extra \in SUBSET D : /\ Cardinality(extra) = m
                                             /\ \A i \in extra, j \in D \ extra : r[i] >= r[j]
           Missing == {m \in 0 .. Cardinality(D) : ~ Has(m)}
<1>1. Cardinality(D) \in Nat
  BY FS_CardinalityType
<1>2. Has(0)
  BY FS_EmptySet
<1> SUFFICES ASSUME Missing # {} PROVE FALSE
  OBVIOUS
<1>3. Missing \in SUBSET Nat
  BY <1>1
<1>4. PICK m \in Missing : \A l \in Missing : m <= l
  <2> HIDE DEF Missing
  <2> QED BY <1>3, LeastNumber
<1>5. m # 0 /\ m \in Nat /\ m <= Cardinality(D) /\ ~ Has(m)
  BY <1>1, <1>2, <1>4
<1>6. m - 1 \in 0 .. Cardinality(D) /\ m - 1 \notin Missing
  BY <1>1, <1>4, <1>5
<1>7. Has(m - 1)
  BY <1>6
<1>8. PICK extra \in SUBSET D : /\ Cardinality(extra) = m - 1
                                /\ \A i \in extra, j \in D \ extra : r[i] >= r[j]
  BY <1>7
<1>9. IsFiniteSet(extra) /\ extra # D
  BY <1>1, <1>5, <1>8, FS_Subset
<1> DEFINE Rest == {r[j] : j \in D \ extra}
<1>10. Rest \in SUBSET Nat /\ Rest # {} /\ \A x \in Rest : x <= b
  BY <1>9
<1>11. PICK x \in Rest : \A y \in Rest : x >= y
  <2> HIDE DEF Rest
  <2> QED BY <1>10, LargestNumber
<1>12. PICK n \in D \ extra : x = r[n]
  BY <1>11
<1>13. \A j \in D \ extra : r[n] >= r[j]
  BY <1>11, <1>12
<1>14. Cardinality(extra \union {n}) = m
  <2>1. Cardinality(extra \union {n}) = Cardinality(extra) + 1
    BY <1>9, <1>12, FS_AddElement
  <2> QED BY <1>5, <1>8, <2>1
<1>15. \A i \in extra \union {n}, j \in D \ (extra \union {n}) : r[i] >= r[j]
  BY <1>8, <1>12, <1>13
<1> QED BY <1>5, <1>12, <1>14, <1>15

-----------------------------------------------------------------------------
(* Where nothing is left over by a line, less than a won is by each that   *)
(* leaves something.                                                       *)
LEMMA LeftOverBounded ==
    ASSUME NEW D, IsFiniteSet(D), NEW r \in [D -> Nat], \A i \in D : r[i] <= 109
    PROVE  /\ SumOf(r, D) \in Nat
           /\ SumOf(r, D) <= 109 * Cardinality({i \in D : r[i] > 0})
<1> DEFINE P == {i \in D : r[i] > 0}
<1>1. IsFiniteSet(P) /\ IsFiniteSet(D \ P) /\ P \intersect (D \ P) = {} /\ P \union (D \ P) = D
  BY FS_Subset
<1>2. \A i \in D : r[i] \in Int /\ r[i] >= 0
  OBVIOUS
<1>3. SumOf(r, D) = SumOf(r, P) + SumOf(r, D \ P)
  <2> HIDE DEF P
  <2>1. SumOf(r, P \union (D \ P)) = SumOf(r, P) + SumOf(r, D \ P)
    BY <1>1, <1>2, SumUnion
  <2> QED BY <1>1, <2>1
<1>4. SumOf(r, D \ P) = 0
  <2>1. \A i \in D \ P : r[i] = 0
    BY <1>2
  <2> HIDE DEF P
  <2> QED BY <1>1, <2>1, SumZero
<1>5. SumOf(r, P) <= 109 * Cardinality(P) /\ SumOf(r, P) \in Int
  <2>1. \A i \in P : r[i] \in Int /\ r[i] <= 109
    BY <1>2
  <2> HIDE DEF P
  <2> QED BY <1>1, <2>1, SumBounded, SumType
<1>6. SumOf(r, D) >= 0
  <2> DEFINE z == [i \in D |-> 0]
  <2>1. SumOf(z, D) = 0
    BY SumZero
  <2>2. SumOf(z, D) <= SumOf(r, D)
    <3>1. \A i \in D : z[i] \in Int /\ r[i] \in Int /\ z[i] <= r[i]
      BY <1>2
    <3> HIDE DEF z
    <3> QED BY <3>1, SumMonotone
  <2>3. SumOf(r, D) \in Int
    BY <1>2, SumType
  <2> QED BY <2>1, <2>2, <2>3
<1>7. SumOf(r, D) \in Int
  BY <1>2, SumType
<1> QED BY <1>3, <1>4, <1>5, <1>6, <1>7

(* Every line's share, in 110ths.                                          *)
LEMMA SharesAddUp ==
    ASSUME NEW D, IsFiniteSet(D), NEW g \in [D -> Nat], NEW f \in [D -> Nat], NEW r \in [D -> Nat],
           \A i \in D : 100 * g[i] = 110 * f[i] + r[i]
    PROVE  100 * SumOf(g, D) = 110 * SumOf(f, D) + SumOf(r, D)
<1> DEFINE Good == {T \in SUBSET D : 100 * SumOf(g, T) = 110 * SumOf(f, T) + SumOf(r, T)}
<1> SUFFICES ASSUME NEW T \in SUBSET D, \A U \in SUBSET T : U # T => U \in Good
             PROVE  T \in Good
  <2> HIDE DEF Good
  <2>1. D \in Good
    BY SubsetInduction
  <2> QED BY <2>1 DEF Good
<1>1. CASE T = {}
  BY <1>1, SumEmpty
<1>2. CASE T # {}
  <2> DEFINE i == Pick(T)  U == T \ {i}
  <2>1. i \in T /\ U # T /\ U \in SUBSET T
    BY <1>2, Picked
  <2>2. 100 * SumOf(g, U) = 110 * SumOf(f, U) + SumOf(r, U)
    BY <2>1
  <2>3. IsFiniteSet(T) /\ IsFiniteSet(U)
    BY FS_Subset
  <2>4. /\ SumOf(g, T) = g[i] + SumOf(g, U)
        /\ SumOf(f, T) = f[i] + SumOf(f, U)
        /\ SumOf(r, T) = r[i] + SumOf(r, U)
    BY <1>2, <2>3, SumFirst
  <2>5. SumOf(g, U) \in Int /\ SumOf(f, U) \in Int /\ SumOf(r, U) \in Int
    <3>1. \A j \in U : g[j] \in Int /\ f[j] \in Int /\ r[j] \in Int
      BY <2>1
    <3> HIDE DEF U, i
    <3> QED BY <2>3, <3>1, SumType
  <2>6. i \in D
    BY <2>1
  <2> HIDE DEF U, i
  <2>7. 100 * g[i] = 110 * f[i] + r[i] /\ g[i] \in Int /\ f[i] \in Int /\ r[i] \in Int
    BY <2>6
  <2> QED BY <2>2, <2>4, <2>5, <2>7
<1> QED BY <1>1, <1>2

(* One more for each of some.                                              *)
LEMMA OneMoreEach ==
    ASSUME NEW D, IsFiniteSet(D), NEW extra \in SUBSET D
    PROVE  SumOf([i \in D |-> IF i \in extra THEN 1 ELSE 0], D) = Cardinality(extra)
<1> DEFINE e == [i \in D |-> IF i \in extra THEN 1 ELSE 0]
<1> DEFINE Good == {T \in SUBSET D : SumOf(e, T) = Cardinality(T \intersect extra)}
<1>a. \A i \in D : e[i] = (IF i \in extra THEN 1 ELSE 0)
  OBVIOUS
<1> HIDE DEF e
<1>b. D \in Good
  <2> SUFFICES ASSUME NEW T \in SUBSET D, \A U \in SUBSET T : U # T => U \in Good
               PROVE  T \in Good
    <3> HIDE DEF Good
    <3> QED BY SubsetInduction
  <2>1. CASE T = {}
    <3>1. T \intersect extra = {}
      BY <2>1
    <3> QED BY <2>1, <3>1, SumEmpty, FS_EmptySet
  <2>2. CASE T # {}
    <3> DEFINE i == Pick(T)  U == T \ {i}
    <3>1. i \in T /\ U # T /\ U \in SUBSET T
      BY <2>2, Picked
    <3>2. SumOf(e, U) = Cardinality(U \intersect extra)
      BY <3>1
    <3>3. IsFiniteSet(T) /\ IsFiniteSet(U \intersect extra)
      BY FS_Subset
    <3>4. SumOf(e, T) = e[i] + SumOf(e, U)
      BY <2>2, <3>3, SumFirst
    <3>5. e[i] = IF i \in extra THEN 1 ELSE 0
      BY <1>a, <3>1
    <3> HIDE DEF i
    <3>6. Cardinality(U \intersect extra) \in Nat
      BY <3>3, FS_CardinalityType
    <3>7. CASE i \in extra
      <4>1. T \intersect extra = (U \intersect extra) \union {i} /\ i \notin U \intersect extra
        BY <3>1, <3>7
      <4>2. Cardinality((U \intersect extra) \union {i}) = Cardinality(U \intersect extra) + 1
        BY <3>3, <4>1, FS_AddElement
      <4>3. Cardinality(T \intersect extra) = SumOf(e, U) + 1
        BY <3>2, <4>1, <4>2
      <4>4. SumOf(e, T) = Cardinality(T \intersect extra)
        <5> HIDE DEF U
        <5> QED BY <3>2, <3>4, <3>5, <3>6, <3>7, <4>3
      <4> QED BY <4>4
    <3>8. CASE i \notin extra
      <4>1. T \intersect extra = U \intersect extra
        BY <3>8
      <4>2. SumOf(e, T) = SumOf(e, U)
        <5> HIDE DEF U
        <5> QED BY <3>2, <3>4, <3>5, <3>6, <3>8
      <4> QED BY <3>2, <4>1, <4>2
    <3> QED BY <3>7, <3>8
  <2> QED BY <2>1, <2>2
<1>c. D \intersect extra = extra
  OBVIOUS
<1> QED BY <1>b, <1>c DEF e

-----------------------------------------------------------------------------
(* What a line is split into: what is left over of a line is less than a   *)
(* won.                                                                    *)
LEMMA Shares ==
    ASSUME NEW a \in Nat
    PROVE  /\ Base(a) \in Nat /\ Remainder(a) \in Nat /\ Remainder(a) <= 109
           /\ 100 * a = 110 * Base(a) + Remainder(a)
           /\ Base(a) <= a /\ (Remainder(a) > 0 => Base(a) + 1 <= a)
BY DEF Base, Remainder

(* A document can be split, whatever its lines cost: there are enough      *)
(* lines with something left over to take what the document rounds.        *)
LEMMA SplitsAddUp ==
    ASSUME NEW D, IsFiniteSet(D), NEW g \in [D -> Nat]
    PROVE  LET extras == LargestRemainders(g)
               Supply(extra) == [i \in D |-> Base(g[i]) + IF i \in extra THEN 1 ELSE 0]
           IN /\ extras # {}
              /\ \A extra \in extras :
                    /\ extra \subseteq {i \in D : Remainder(g[i]) > 0}
                    /\ TotalOf(Supply(extra)) = RoundedSupply(TotalOf(g))
                    /\ TotalOf(g) \in Nat
<1> DEFINE f == [i \in D |-> Base(g[i])]
           r == [i \in D |-> Remainder(g[i])]
           P == {i \in D : r[i] > 0}
<1>1. /\ f \in [D -> Nat] /\ r \in [D -> Nat] /\ \A i \in D : r[i] <= 109
      /\ \A i \in D : 100 * g[i] = 110 * f[i] + r[i]
      /\ \A i \in D : f[i] = Base(g[i]) /\ r[i] = Remainder(g[i])
  BY Shares
<1>2. TotalOf(g) = SumOf(g, D) /\ TotalOf(f) = SumOf(f, D)
  <2>1. g = [i \in D |-> g[i]] /\ f = [i \in D |-> f[i]]
    OBVIOUS
  <2> HIDE DEF f
  <2> QED BY <2>1, TotalIsSum
<1>3. [i \in DOMAIN g |-> Base(g[i])] = f /\ DOMAIN g = D
  OBVIOUS
<1> HIDE DEF f, r
<1>4. PICK G \in Int, F \in Int, R \in Int :
         /\ G = SumOf(g, D) /\ F = SumOf(f, D) /\ R = SumOf(r, D)
  <2>1. \A i \in D : g[i] \in Int /\ f[i] \in Int /\ r[i] \in Int
    BY <1>1
  <2> QED BY <2>1, SumType
<1>5. 100 * G = 110 * F + R
  <2>1. 100 * SumOf(g, D) = 110 * SumOf(f, D) + SumOf(r, D)
    BY <1>1, SharesAddUp
  <2> QED BY <1>4, <2>1
<1>6. R \in Nat /\ R <= 109 * Cardinality(P)
  BY <1>1, <1>4, LeftOverBounded
<1>7. F \in Nat /\ G \in Nat
  <2>1. \A i \in D : f[i] \in Nat /\ g[i] \in Nat
    BY <1>1
  <2> DEFINE z == [i \in D |-> 0]
  <2>2. SumOf(z, D) = 0
    BY SumZero
  <2>3. \A i \in D : z[i] \in Int /\ f[i] \in Int /\ z[i] <= f[i]
    BY <2>1
  <2> HIDE DEF z
  <2>4. SumOf(z, D) <= SumOf(f, D)
    BY <2>3, SumMonotone
  <2> QED BY <1>4, <1>5, <1>6, <2>2, <2>4
<1>8. IsFiniteSet(P) /\ Cardinality(P) \in Nat /\ Cardinality(D) \in Nat /\ Cardinality(P) <= Cardinality(D)
  BY FS_Subset, FS_CardinalityType
<1> DEFINE k == RoundedSupply(G) - F
<1>9. k = (R + 55) \div 110 /\ k \in Nat /\ k <= Cardinality(P)
  <2>1. RoundedSupply(G) = (110 * F + R + 55) \div 110
    BY <1>5, <1>4 DEF RoundedSupply
  <2>2. PICK p \in Nat : p = Cardinality(P)
    BY <1>8
  <2>3. (110 * F + R + 55) \div 110 = F + (R + 55) \div 110
    BY <1>6, <1>7
  <2>4. (R + 55) \div 110 \in Nat /\ (R + 55) \div 110 <= p
    BY <1>6, <2>2
  <2> QED BY <2>1, <2>2, <2>3, <2>4, <1>7
<1>10. RoundedSupply(TotalOf(g)) - TotalOf(f) = k
  BY <1>2, <1>4
<1> HIDE DEF k
<1>11. LargestRemainders(g) = {extra \in SUBSET D :
           /\ Cardinality(extra) = k
           /\ \A i \in extra, j \in D \ extra : r[i] >= r[j]}
  <2>1. (IF k < 0 THEN 0 ELSE k) = k
    BY <1>9
  <2>2. LargestRemainders(g) = {extra \in SUBSET D :
           /\ Cardinality(extra) = IF k < 0 THEN 0 ELSE k
           /\ \A i \in extra, j \in D \ extra : Remainder(g[i]) >= Remainder(g[j])}
    BY <1>3, <1>10 DEF LargestRemainders
  <2>3. \A extra \in SUBSET D :
           (\A i \in extra, j \in D \ extra : Remainder(g[i]) >= Remainder(g[j]))
           <=> (\A i \in extra, j \in D \ extra : r[i] >= r[j])
    BY <1>1
  <2> QED BY <2>1, <2>2, <2>3
<1>12. LargestRemainders(g) # {}
  <2>1. k \in 0 .. Cardinality(D)
    BY <1>8, <1>9
  <2> QED BY <1>1, <1>11, <2>1, LargestExist
<1>13. ASSUME NEW extra \in LargestRemainders(g)
       PROVE  /\ extra \subseteq {i \in D : Remainder(g[i]) > 0}
              /\ TotalOf([i \in D |-> Base(g[i]) + IF i \in extra THEN 1 ELSE 0]) = RoundedSupply(TotalOf(g))
  <2>1. extra \in SUBSET D /\ Cardinality(extra) = k /\ \A i \in extra, j \in D \ extra : r[i] >= r[j]
    BY <1>11
  <2>2. IsFiniteSet(extra)
    BY <2>1, FS_Subset
  <2>3. extra \subseteq P
    <3> SUFFICES ASSUME NEW i \in extra, i \notin P PROVE FALSE
      OBVIOUS
    <3>1. r[i] = 0
      BY <1>1, <2>1
    <3>2. P \subseteq extra \ {i}
      BY <1>1, <2>1, <3>1
    <3>3. Cardinality(P) <= Cardinality(extra \ {i})
      <4>1. IsFiniteSet(extra \ {i})
        BY <2>2, FS_Subset
      <4> HIDE DEF P
      <4> QED BY <3>2, <4>1, FS_Subset
    <3>4. Cardinality(extra \ {i}) = Cardinality(extra) - 1
      BY <2>2, FS_RemoveElement
    <3> QED BY <1>8, <1>9, <2>1, <3>3, <3>4
  <2> DEFINE e == [i \in D |-> IF i \in extra THEN 1 ELSE 0]
             s == [i \in D |-> Base(g[i]) + IF i \in extra THEN 1 ELSE 0]
  <2>4. SumOf(e, D) = k
    BY <2>1, OneMoreEach
  <2>5. SumOf(s, D) = SumOf(f, D) + SumOf(e, D)
    <3>1. \A i \in D : f[i] \in Int /\ e[i] \in Int /\ s[i] = f[i] + e[i]
      BY <1>1
    <3> HIDE DEF e, s
    <3> QED BY <3>1, SumOfSums
  <2>6. TotalOf(s) = SumOf(s, D)
    <3>1. s = [i \in D |-> s[i]]
      OBVIOUS
    <3> HIDE DEF s
    <3> QED BY <3>1, TotalIsSum
  <2>7. TotalOf(s) = RoundedSupply(TotalOf(g))
    <3>1. F + k = RoundedSupply(G)
      <4>1. RoundedSupply(G) \in Int
        BY DEF RoundedSupply
      <4> QED BY <4>1 DEF k
    <3> HIDE DEF s, e
    <3> QED BY <1>2, <1>4, <2>4, <2>5, <2>6, <3>1
  <2>8. P = {i \in D : Remainder(g[i]) > 0}
    BY <1>1
  <2> QED BY <2>3, <2>7, <2>8
<1> QED BY <1>2, <1>4, <1>7, <1>12, <1>13

(* A price is the sum of its parts, line by line.                          *)
LEMMA PricedAddsUp == SplitAddsUp /\ [priceOrderItems]_quote => SplitAddsUp'
<1> SUFFICES ASSUME SplitAddsUp, priceOrderItems PROVE SplitAddsUp'
  BY DEF SplitAddsUp
<1>1. PICK n \in 1 .. MaxItems : \E items \in [1 .. n -> [unit : UnitPrices, quantity : ItemCounts]] :
          LET splits == splitVatInclusive(LineGross(items))
          IN quote' \in IF splits = {} THEN NotSplit(LineGross(items)) ELSE splits
  BY DEF priceOrderItems
<1>2. PICK items \in [1 .. n -> [unit : UnitPrices, quantity : ItemCounts]] :
          quote' \in IF splitVatInclusive(LineGross(items)) = {} THEN NotSplit(LineGross(items))
                     ELSE splitVatInclusive(LineGross(items))
  BY <1>1
<1> DEFINE D == 1 .. n
<1>3. n \in Nat /\ IsFiniteSet(D)
  BY PriceAssumption, FS_Interval
<1>4. PICK g : g = LineGross(items)
  OBVIOUS
<1>5. g \in [D -> Nat]
  <2>1. \A i \in D : items[i].unit \in Nat /\ items[i].quantity \in Nat
    BY PriceAssumption
  <2>2. \A i \in D : items[i].unit * items[i].quantity \in Nat
    BY <2>1
  <2> QED BY <1>4, <2>2 DEF LineGross
<1> HIDE DEF D
<1>6. DOMAIN g = D
  BY <1>5
<1> DEFINE Supply(extra) == [i \in D |-> Base(g[i]) + IF i \in extra THEN 1 ELSE 0]
<1>7. LineSupplies(g) = {Supply(extra) : extra \in LargestRemainders(g)}
  BY <1>6 DEF LineSupplies
<1>8. LineSupplies(g) # {}
  <2>1. LargestRemainders(g) # {}
    BY <1>3, <1>5, SplitsAddUp
  <2>2. PICK extra : extra \in LargestRemainders(g)
    BY <2>1
  <2> HIDE DEF Supply
  <2>3. Supply(extra) \in LineSupplies(g)
    BY <1>7, <2>2
  <2> QED BY <2>3
<1> DEFINE Split(supplies) == [gross |-> TotalOf(g), supply |-> RoundedSupply(TotalOf(g)),
      vat |-> TotalOf(g) - RoundedSupply(TotalOf(g)),
      lines |-> [i \in D |-> [gross |-> g[i], supply |-> supplies[i], vat |-> g[i] - supplies[i]]]]
<1>9. splitVatInclusive(g) = {Split(supplies) : supplies \in LineSupplies(g)}
  BY <1>6 DEF splitVatInclusive
<1>10. quote' \in {Split(supplies) : supplies \in LineSupplies(g)}
  <2>1. splitVatInclusive(g) # {}
    <3>1. PICK s : s \in LineSupplies(g)
      BY <1>8
    <3> HIDE DEF Split
    <3>2. Split(s) \in splitVatInclusive(g)
      BY <1>9, <3>1
    <3> QED BY <3>2
  <2>2. quote' \in splitVatInclusive(g)
    BY <1>2, <1>4, <2>1
  <2> QED BY <1>9, <2>2
<1>11. PICK s : s \in LineSupplies(g) /\ quote' = Split(s)
  BY <1>10
<1>12. PICK extra \in LargestRemainders(g) : s = Supply(extra)
  BY <1>7, <1>11
<1>13. /\ \A i \in extra : i \in D /\ Remainder(g[i]) > 0
       /\ TotalOf(s) = RoundedSupply(TotalOf(g)) /\ TotalOf(g) \in Nat
  <2>1. /\ extra \subseteq {i \in D : Remainder(g[i]) > 0}
        /\ TotalOf([i \in D |-> Base(g[i]) + IF i \in extra THEN 1 ELSE 0]) = RoundedSupply(TotalOf(g))
        /\ TotalOf(g) \in Nat
    BY <1>3, <1>5, SplitsAddUp
  <2> QED BY <1>12, <2>1
<1>14. \A i \in D : s[i] = Base(g[i]) + (IF i \in extra THEN 1 ELSE 0)
  BY <1>12
<1>15. DOMAIN s = D
  BY <1>12
<1>16. \A i \in D : /\ s[i] \in Nat /\ g[i] \in Nat /\ g[i] - s[i] >= 0
                    /\ -110 < 110 * s[i] - 100 * g[i] /\ 110 * s[i] - 100 * g[i] < 110
  <2> TAKE i \in D
  <2>1. g[i] \in Nat
    BY <1>5
  <2>2. PICK b \in Nat, r \in Nat : b = Base(g[i]) /\ r = Remainder(g[i])
    BY <2>1, Shares
  <2>3. r <= 109 /\ 100 * g[i] = 110 * b + r /\ b <= g[i] /\ (r > 0 => b + 1 <= g[i])
    BY <2>1, <2>2, Shares
  <2>4. CASE i \in extra
    <3>1. s[i] = b + 1 /\ r > 0
      BY <1>13, <1>14, <2>2, <2>4
    <3> QED BY <2>1, <2>3, <3>1
  <2>5. CASE i \notin extra
    <3>1. s[i] = b
      BY <1>14, <2>2, <2>5
    <3> QED BY <2>1, <2>3, <3>1
  <2> QED BY <2>4, <2>5
<1> HIDE DEF Supply
<1> DEFINE v == [i \in D |-> g[i] - s[i]]
<1>17. TotalOf(v) = TotalOf(g) - TotalOf(s)
  <2>1. g = [i \in D |-> g[i]] /\ s = [i \in D |-> s[i]] /\ v = [i \in D |-> v[i]]
    BY <1>5, <1>12, <1>15 DEF Supply
  <2>2. \A i \in D : s[i] \in Int /\ v[i] \in Int /\ g[i] = s[i] + v[i]
    BY <1>16
  <2> HIDE DEF v
  <2>3. SumOf(g, D) = SumOf(s, D) + SumOf(v, D)
    BY <1>3, <2>2, SumOfSums
  <2>4. SumOf(s, D) \in Int /\ SumOf(v, D) \in Int
    BY <1>3, <2>2, SumType
  <2>5. TotalOf(g) = SumOf(g, D) /\ TotalOf(s) = SumOf(s, D) /\ TotalOf(v) = SumOf(v, D)
    BY <1>3, <2>1, TotalIsSum
  <2> QED BY <2>3, <2>4, <2>5
<1>18. /\ quote'.gross = TotalOf(g) /\ quote'.supply = RoundedSupply(TotalOf(g))
       /\ quote'.vat = TotalOf(g) - RoundedSupply(TotalOf(g))
       /\ DOMAIN quote'.lines = D
       /\ \A i \in D : /\ quote'.lines[i].gross = g[i] /\ quote'.lines[i].supply = s[i]
                       /\ quote'.lines[i].vat = g[i] - s[i]
  BY <1>11
<1>19. [i \in DOMAIN quote'.lines |-> quote'.lines[i].supply] = s
  BY <1>12, <1>15, <1>18 DEF Supply
<1>20. [i \in DOMAIN quote'.lines |-> quote'.lines[i].vat] = v
  BY <1>18
<1>21. RoundedSupply(TotalOf(g)) \in Int
  BY <1>13 DEF RoundedSupply
<1> HIDE DEF v
<1>22. quote'.supply = TotalOf([i \in DOMAIN quote'.lines |-> quote'.lines[i].supply])
  BY <1>13, <1>18, <1>19
<1>23. quote'.vat = TotalOf([i \in DOMAIN quote'.lines |-> quote'.lines[i].vat])
  BY <1>13, <1>17, <1>18, <1>20
<1>24. quote'.gross = quote'.supply + quote'.vat
  BY <1>13, <1>18, <1>21
<1>25. \A i \in DOMAIN quote'.lines :
         /\ quote'.lines[i].vat >= 0
         /\ -110 < 110 * quote'.lines[i].supply - 100 * quote'.lines[i].gross
         /\ 110 * quote'.lines[i].supply - 100 * quote'.lines[i].gross < 110
  BY <1>16, <1>18
<1> QED BY <1>22, <1>23, <1>24, <1>25 DEF SplitAddsUp

(* Any order can be split, and its lines add up to the document with no    *)
(* line a won away from its share (splitVatInclusive), for any prices,     *)
(* quantities and number of lines.                                         *)
THEOREM SplitsAreExact == MoneySpec => []SplitAddsUp
<1>1. MoneyInit => SplitAddsUp
  <2> SUFFICES ASSUME MoneyInit PROVE SplitAddsUp
    OBVIOUS
  <2>1. DOMAIN quote.lines = {}
    BY DEF MoneyInit
  <2> DEFINE none == [i \in {} |-> 0]
  <2>2. TotalOf(none) = 0
    <3>1. IsFiniteSet({}) /\ none = [x \in {} |-> none[x]]
      BY FS_EmptySet
    <3>2. TotalOf(none) = SumOf(none, {})
      <4> HIDE DEF none
      <4> QED BY <3>1, TotalIsSum
    <3> QED BY <3>2, SumEmpty
  <2>3. /\ [i \in DOMAIN quote.lines |-> quote.lines[i].supply] = none
        /\ [i \in DOMAIN quote.lines |-> quote.lines[i].vat] = none
    BY <2>1
  <2> HIDE DEF none
  <2> QED BY <2>1, <2>2, <2>3 DEF MoneyInit, SplitAddsUp
<1> QED BY <1>1, PricedAddsUp, PTL DEF MoneySpec

-----------------------------------------------------------------------------
(***************************************************************************)
(* LossReports: what a store lost.                                         *)
(*                                                                         *)
(* Per product and store, what is over in a month is at least what is left *)
(* of it and at most what is over on its days, for what one day sells of   *)
(* another day's goods only makes the loss smaller.  The totals are sums of*)
(* these in another order: by product, by day and by store.                *)
(***************************************************************************)

LEMMA SumSame ==
    ASSUME NEW S, IsFiniteSet(S), NEW f, NEW g, \A x \in S : f[x] \in Int /\ g[x] = f[x]
    PROVE  SumOf(f, S) = SumOf(g, S)
<1>1. \A x \in S : f[x] \in Int /\ g[x] \in Int /\ f[x] <= g[x] /\ g[x] <= f[x]
  OBVIOUS
<1>2. SumOf(f, S) \in Int /\ SumOf(g, S) \in Int
  BY <1>1, SumType
<1>3. SumOf(f, S) <= SumOf(g, S)
  BY <1>1, SumMonotone
<1>4. SumOf(g, S) <= SumOf(f, S)
  BY <1>1, SumMonotone
<1> QED BY <1>2, <1>3, <1>4

LEMMA SumNat ==
    ASSUME NEW S, IsFiniteSet(S), NEW f, \A x \in S : f[x] \in Nat
    PROVE  SumOf(f, S) \in Nat
<1>1. PICK z : z = [x \in S |-> 0]
  OBVIOUS
<1>2. SumOf(z, S) = 0
  BY <1>1, SumZero
<1>3. \A x \in S : z[x] \in Int /\ f[x] \in Int /\ z[x] <= f[x]
  BY <1>1
<1>4. SumOf(z, S) <= SumOf(f, S)
  BY <1>3, SumMonotone
<1>5. SumOf(f, S) \in Int
  BY <1>3, SumType
<1> QED BY <1>2, <1>4, <1>5

LEMMA SumSubset ==
    ASSUME NEW S, IsFiniteSet(S), NEW T \in SUBSET S, NEW f, \A x \in S : f[x] \in Nat
    PROVE  SumOf(f, T) \in Nat /\ SumOf(f, T) <= SumOf(f, S)
<1>1. PICK R : R = S \ T
  OBVIOUS
<1>2. IsFiniteSet(T) /\ IsFiniteSet(R) /\ T \intersect R = {} /\ T \union R = S
  BY <1>1, FS_Subset
<1>3. SumOf(f, T) \in Nat
  BY <1>2, SumNat
<1>4. SumOf(f, R) \in Nat
  BY <1>1, <1>2, SumNat
<1>5. SumOf(f, T \union R) = SumOf(f, T) + SumOf(f, R)
  BY <1>1, <1>2, SumUnion
<1>6. PICK a \in Nat, b \in Nat : a = SumOf(f, T) /\ b = SumOf(f, R)
  BY <1>3, <1>4
<1>7. SumOf(f, S) = a + b
  BY <1>2, <1>5, <1>6
<1> QED BY <1>6, <1>7

(* A sum is the sum of the sums of its parts.                              *)
PartSums(g, S, part, I) == [i \in I |-> SumOf(g, {x \in S : part[x] = i})]

LEMMA SumParts ==
    ASSUME NEW S, IsFiniteSet(S), NEW I, IsFiniteSet(I), NEW part \in [S -> I],
           NEW g, \A x \in S : g[x] \in Int
    PROVE  SumOf(g, S) = SumOf(PartSums(g, S, part, I), I)
<1>0. PICK h : h = PartSums(g, S, part, I) /\ h = [i \in I |-> SumOf(g, {x \in S : part[x] = i})]
  BY DEF PartSums
<1> DEFINE InPart(J) == {x \in S : part[x] \in J}
<1> DEFINE Good == {J \in SUBSET I : SumOf(g, InPart(J)) = SumOf(h, J)}
<1>1. \A i \in I : h[i] \in Int
  <2> SUFFICES ASSUME NEW i \in I PROVE h[i] \in Int
    OBVIOUS
  <2>1. PICK T : T = {x \in S : part[x] = i}
    OBVIOUS
  <2>2. IsFiniteSet(T) /\ \A x \in T : g[x] \in Int
    BY <2>1, FS_Subset
  <2> QED BY <1>0, <2>1, <2>2, SumType
<1>2. ASSUME NEW J \in SUBSET I, \A U \in SUBSET J : U # J => U \in Good
      PROVE  J \in Good
  <2>1. CASE J = {}
    <3>1. InPart(J) = {}
      BY <2>1
    <3> QED BY <2>1, <3>1, SumEmpty
  <2>2. CASE J # {}
    <3>1. PICK i \in J : TRUE
      BY <2>2
    <3>2. PICK K : K = J \ {i}
      OBVIOUS
    <3>3. K \in Good /\ K \in SUBSET I /\ IsFiniteSet(J) /\ IsFiniteSet(K)
      BY <1>2, <3>1, <3>2, FS_Subset
    <3>4. PICK T : T = {x \in S : part[x] = i}
      OBVIOUS
    <3>5. PICK N : N = InPart(K)
      OBVIOUS
    <3>6. InPart(J) = T \union N /\ T \intersect N = {} /\ T \subseteq S /\ N \subseteq S
      BY <3>1, <3>2, <3>4, <3>5
    <3>7. IsFiniteSet(T) /\ IsFiniteSet(N)
      BY <3>6, FS_Subset
    <3>8. SumOf(g, T \union N) = SumOf(g, T) + SumOf(g, N)
      BY <3>6, <3>7, SumUnion
    <3>9. SumOf(g, T) = h[i]
      BY <1>0, <3>1, <3>4
    <3>10. SumOf(g, N) = SumOf(h, K)
      BY <3>3, <3>5
    <3>11. SumOf(h, J) = h[i] + SumOf(h, K)
      <4>1. \A y \in J : h[y] \in Int
        BY <1>1
      <4>2. IsFiniteSet(J) /\ i \in J
        BY <3>1, <3>3
      <4>3. SumOf(h, J) = h[i] + SumOf(h, J \ {i})
        <5> HIDE DEF InPart, Good
        <5> QED BY <4>1, <4>2, SumAny
      <4> QED BY <3>2, <4>3
    <3> QED BY <3>6, <3>8, <3>9, <3>10, <3>11
  <2> QED BY <2>1, <2>2
<1>3. I \in Good
  <2> HIDE DEF Good
  <2> QED BY <1>2, SubsetInduction
<1>4. InPart(I) = S
  OBVIOUS
<1> QED BY <1>0, <1>3, <1>4

(* Sums may be taken in either order.                                      *)
Rows(f, I, J) == [i \in I |-> SumOf(f[i], J)]
Columns(f, I, J) == [j \in J |-> SumOf([i \in I |-> f[i][j]], I)]

LEMMA SumExchange ==
    ASSUME NEW I, IsFiniteSet(I), NEW J, IsFiniteSet(J), NEW f, \A i \in I, j \in J : f[i][j] \in Int
    PROVE  SumOf(Rows(f, I, J), I) = SumOf(Columns(f, I, J), J)
<1>10. PICK rows : rows = Rows(f, I, J) /\ rows = [i \in I |-> SumOf(f[i], J)]
  BY DEF Rows
<1>11. PICK C : C = [j \in J |-> [i \in I |-> f[i][j]]]
  OBVIOUS
<1>12. PICK columns : columns = Columns(f, I, J) /\ columns = [j \in J |-> SumOf(C[j], I)]
  <2>1. Columns(f, I, J) = [j \in J |-> SumOf(C[j], I)]
    BY <1>11 DEF Columns
  <2> QED BY <2>1
<1> DEFINE Good == {K \in SUBSET I : SumOf(rows, K) = SumOf([j \in J |-> SumOf(C[j], K)], J)}
<1>1. \A i \in I : rows[i] \in Int
  BY <1>10, SumType
<1>2. ASSUME NEW K \in SUBSET I, \A U \in SUBSET K : U # K => U \in Good
      PROVE  K \in Good
  <2>0. IsFiniteSet(K)
    BY FS_Subset
  <2>1. CASE K = {}
    <3>1. PICK z : z = [j \in J |-> SumOf(C[j], K)]
      OBVIOUS
    <3>2. \A j \in J : z[j] = 0
      BY <2>1, <3>1, SumEmpty
    <3>3. SumOf(z, J) = 0
      BY <3>2, SumZero
    <3> QED BY <2>1, <3>1, <3>3, SumEmpty
  <2>2. CASE K # {}
    <3>1. PICK x \in K : TRUE
      BY <2>2
    <3>2. PICK M : M = K \ {x}
      OBVIOUS
    <3>3. M \in Good /\ M \in SUBSET I /\ IsFiniteSet(M)
      BY <1>2, <2>0, <3>1, <3>2, FS_Subset
    <3>4. PICK z : z = [j \in J |-> SumOf(C[j], M)]
      OBVIOUS
    <3>5. PICK y : y = [j \in J |-> SumOf(C[j], K)]
      OBVIOUS
    <3>6. \A j \in J : \A i \in I : C[j][i] \in Int /\ C[j][i] = f[i][j]
      BY <1>11
    <3>7. \A j \in J : f[x][j] \in Int /\ z[j] \in Int /\ y[j] = f[x][j] + z[j]
      <4> SUFFICES ASSUME NEW j \in J PROVE f[x][j] \in Int /\ z[j] \in Int /\ y[j] = f[x][j] + z[j]
        OBVIOUS
      <4>1. SumOf(C[j], M) \in Int
        BY <3>3, <3>6, SumType
      <4>2. SumOf(C[j], K) = C[j][x] + SumOf(C[j], M)
        BY <2>0, <3>1, <3>2, <3>6, SumAny
      <4> QED BY <3>1, <3>4, <3>5, <3>6, <4>1, <4>2
    <3>8. SumOf(y, J) = SumOf(f[x], J) + SumOf(z, J)
      BY <3>7, SumOfSums
    <3>9. SumOf(rows, K) = rows[x] + SumOf(rows, M)
      BY <1>1, <2>0, <3>1, <3>2, SumAny
    <3>10. SumOf(rows, M) = SumOf(z, J)
      BY <3>3, <3>4
    <3> QED BY <1>10, <3>1, <3>5, <3>8, <3>9, <3>10
  <2> QED BY <2>1, <2>2
<1>3. I \in Good
  <2> HIDE DEF Good
  <2> QED BY <1>2, SubsetInduction
<1> QED BY <1>3, <1>10, <1>12

-----------------------------------------------------------------------------
(* What is over.                                                           *)
LEMMA OverIs ==
    ASSUME NEW a \in Nat, NEW b \in Nat
    PROVE  /\ Over(a, b) \in Nat /\ Over(a, b) >= a - b /\ Over(a, b) <= a
           /\ \A c \in Nat : a - b <= c => Over(a, b) <= c
BY DEF Over

(* What is left of a month is at most what is left of its days.            *)
LEMMA OverOfDays ==
    ASSUME NEW D, IsFiniteSet(D), NEW l \in [D -> Nat], NEW s \in [D -> Nat]
    PROVE  Over(SumOf(l, D), SumOf(s, D)) <= SumOf([d \in D |-> Over(l[d], s[d])], D)
<1>1. PICK w : w = [d \in D |-> Over(l[d], s[d])]
  OBVIOUS
<1>2. PICK t : t = [d \in D |-> w[d] + s[d]]
  OBVIOUS
<1>3. \A d \in D : w[d] \in Nat /\ s[d] \in Nat /\ t[d] = w[d] + s[d] /\ l[d] \in Nat /\ l[d] <= t[d]
  <2> SUFFICES ASSUME NEW d \in D
               PROVE  w[d] \in Nat /\ s[d] \in Nat /\ t[d] = w[d] + s[d] /\ l[d] \in Nat /\ l[d] <= t[d]
    OBVIOUS
  <2>1. w[d] \in Nat /\ w[d] >= l[d] - s[d] /\ l[d] \in Nat /\ s[d] \in Nat
    BY <1>1, OverIs
  <2> QED BY <1>2, <2>1
<1>4. \A d \in D : w[d] \in Int /\ s[d] \in Int /\ t[d] = w[d] + s[d] /\ l[d] \in Int /\ t[d] \in Int
  BY <1>3
<1>5. SumOf(t, D) = SumOf(w, D) + SumOf(s, D)
  BY <1>4, SumOfSums
<1>6. SumOf(l, D) <= SumOf(t, D)
  BY <1>3, <1>4, SumMonotone
<1>7. SumOf(w, D) \in Nat
  BY <1>3, SumNat
<1>8. SumOf(s, D) \in Nat
  BY <1>3, SumNat
<1>9. SumOf(l, D) \in Nat
  BY <1>3, SumNat
<1>10. PICK a \in Nat, b \in Nat, c \in Nat : a = SumOf(l, D) /\ b = SumOf(s, D) /\ c = SumOf(w, D)
  BY <1>7, <1>8, <1>9
<1>11. a - b <= c
  BY <1>5, <1>6, <1>10
<1>12. Over(a, b) <= c
  BY <1>11, OverIs
<1> QED BY <1>1, <1>10, <1>12

(* What a store lost: l of a product came with its order line and s were   *)
(* sold, u came without one.                                               *)
WasteOf(l, s, u, G) == SumOf([p \in G |-> Over(l[p], s[p])], G) + SumOf(u, G)

LEMMA WasteIsWhatWasLeft ==
    ASSUME NEW G, IsFiniteSet(G), NEW l \in [G -> Nat], NEW s \in [G -> Nat], NEW u \in [G -> Nat]
    PROVE  /\ WasteOf(l, s, u, G) \in Nat
           /\ \A P \in SUBSET G : /\ SumOf([p \in P |-> l[p] + u[p] - s[p]], P) \in Int
                                  /\ SumOf([p \in P |-> l[p] + u[p] - s[p]], P) <= WasteOf(l, s, u, G)
           /\ SumOf([p \in G |-> l[p] + u[p]], G) \in Nat
           /\ WasteOf(l, s, u, G) <= SumOf([p \in G |-> l[p] + u[p]], G)
<1>1. PICK o : o = [p \in G |-> Over(l[p], s[p])]
  OBVIOUS
<1>2. PICK w : w = [p \in G |-> o[p] + u[p]]
  OBVIOUS
<1>3. PICK t : t = [p \in G |-> l[p] + u[p]]
  OBVIOUS
<1>4. \A p \in G : /\ l[p] \in Nat /\ s[p] \in Nat /\ u[p] \in Nat
                   /\ o[p] \in Nat /\ o[p] >= l[p] - s[p] /\ o[p] <= l[p]
                   /\ w[p] = o[p] + u[p] /\ t[p] = l[p] + u[p]
  BY <1>1, <1>2, <1>3, OverIs
<1>5. \A p \in G : /\ o[p] \in Int /\ u[p] \in Int /\ w[p] = o[p] + u[p] /\ w[p] \in Int /\ t[p] \in Int
                   /\ w[p] <= t[p] /\ w[p] \in Nat /\ t[p] \in Nat /\ l[p] + u[p] - s[p] \in Int
                   /\ l[p] + u[p] - s[p] <= w[p]
  BY <1>4
<1>6. SumOf(w, G) = SumOf(o, G) + SumOf(u, G)
  BY <1>5, SumOfSums
<1>7. WasteOf(l, s, u, G) = SumOf(w, G)
  BY <1>1, <1>6 DEF WasteOf
<1>8. SumOf(w, G) \in Nat
  BY <1>5, SumNat
<1>9. SumOf(t, G) \in Nat
  BY <1>5, SumNat
<1>10. SumOf(w, G) <= SumOf(t, G)
  BY <1>5, SumMonotone
<1>11. ASSUME NEW P \in SUBSET G
       PROVE  /\ SumOf([p \in P |-> l[p] + u[p] - s[p]], P) \in Int
              /\ SumOf([p \in P |-> l[p] + u[p] - s[p]], P) <= SumOf(w, G)
  <2>1. PICK v : v = [p \in P |-> l[p] + u[p] - s[p]]
    OBVIOUS
  <2>2. IsFiniteSet(P)
    BY FS_Subset
  <2>3. \A p \in P : v[p] \in Int /\ w[p] \in Int /\ v[p] <= w[p]
    BY <1>5, <2>1
  <2>4. SumOf(v, P) <= SumOf(w, P)
    BY <2>2, <2>3, SumMonotone
  <2>5. SumOf(v, P) \in Int
    BY <2>2, <2>3, SumType
  <2>6. SumOf(w, P) \in Nat /\ SumOf(w, P) <= SumOf(w, G)
    BY <1>5, SumSubset
  <2> QED BY <1>8, <2>1, <2>4, <2>5, <2>6
<1> QED BY <1>3, <1>7, <1>8, <1>9, <1>10, <1>11

OverOnDays(dl, ds, G, D) == [d \in D |-> SumOf([p \in G |-> Over(dl[p][d], ds[p][d])], G)]

LEMMA WasteOfDays ==
    ASSUME NEW G, IsFiniteSet(G), NEW D, IsFiniteSet(D),
           NEW l \in [G -> Nat], NEW s \in [G -> Nat], NEW u \in [G -> Nat],
           NEW dl \in [G -> [D -> Nat]], NEW ds \in [G -> [D -> Nat]],
           \A p \in G : l[p] = SumOf(dl[p], D) /\ s[p] = SumOf(ds[p], D)
    PROVE  /\ SumOf(OverOnDays(dl, ds, G, D), D) \in Nat
           /\ WasteOf(l, s, u, G) <= SumOf(u, G) + SumOf(OverOnDays(dl, ds, G, D), D)
<1>0. PICK days : /\ days = OverOnDays(dl, ds, G, D)
                  /\ days = [d \in D |-> SumOf([p \in G |-> Over(dl[p][d], ds[p][d])], G)]
  BY DEF OverOnDays
<1>1. PICK f : f = [p \in G |-> [d \in D |-> Over(dl[p][d], ds[p][d])]]
  OBVIOUS
<1>2. PICK rows : rows = [p \in G |-> SumOf(f[p], D)]
  OBVIOUS
<1>3. PICK o : o = [p \in G |-> Over(l[p], s[p])]
  OBVIOUS
<1>4. \A p \in G : \A d \in D : dl[p][d] \in Nat /\ ds[p][d] \in Nat
  OBVIOUS
<1>5. \A p \in G, d \in D : f[p][d] \in Nat /\ f[p][d] = Over(dl[p][d], ds[p][d])
  BY <1>1, <1>4, OverIs
<1>6. \A p \in G : o[p] \in Nat /\ rows[p] \in Nat /\ o[p] <= rows[p]
  <2> SUFFICES ASSUME NEW p \in G PROVE o[p] \in Nat /\ rows[p] \in Nat /\ o[p] <= rows[p]
    OBVIOUS
  <2>1. PICK a \in [D -> Nat], b \in [D -> Nat] : a = dl[p] /\ b = ds[p]
    OBVIOUS
  <2>2. f[p] = [d \in D |-> Over(a[d], b[d])]
    BY <1>1, <2>1
  <2>3. Over(SumOf(a, D), SumOf(b, D)) <= SumOf([d \in D |-> Over(a[d], b[d])], D)
    BY OverOfDays
  <2>4. o[p] = Over(SumOf(a, D), SumOf(b, D)) /\ rows[p] = SumOf([d \in D |-> Over(a[d], b[d])], D)
    BY <1>2, <1>3, <2>1, <2>2
  <2>5. o[p] \in Nat
    BY <1>3, OverIs
  <2>6. rows[p] \in Nat
    BY <1>2, <1>5, SumNat
  <2> QED BY <2>3, <2>4, <2>5, <2>6
<1>7. PICK C : C = [d \in D |-> [p \in G |-> f[p][d]]]
  OBVIOUS
<1>8. PICK columns : columns = [d \in D |-> SumOf(C[d], G)]
  OBVIOUS
<1>9. \A p \in G, d \in D : f[p][d] \in Int
  BY <1>5
<1>10. SumOf(rows, G) = SumOf(columns, D)
  <2>1. SumOf(Rows(f, G, D), G) = SumOf(Columns(f, G, D), D)
    BY <1>9, SumExchange
  <2>2. rows = Rows(f, G, D)
    BY <1>2 DEF Rows
  <2>3. columns = Columns(f, G, D)
    BY <1>7, <1>8 DEF Columns
  <2> QED BY <2>1, <2>2, <2>3
<1>11. \A d \in D : C[d] = [p \in G |-> Over(dl[p][d], ds[p][d])]
  BY <1>5, <1>7
<1>12. columns = days
  BY <1>0, <1>8, <1>11
<1>13. \A p \in G : o[p] \in Int /\ rows[p] \in Int /\ o[p] <= rows[p]
  BY <1>6
<1>14. SumOf(o, G) <= SumOf(rows, G)
  BY <1>13, SumMonotone
<1>15. SumOf(rows, G) \in Nat
  BY <1>6, SumNat
<1>16. SumOf(o, G) \in Nat
  BY <1>6, SumNat
<1>17. SumOf(u, G) \in Nat
  BY SumNat
<1>18. WasteOf(l, s, u, G) = SumOf(o, G) + SumOf(u, G)
  BY <1>3 DEF WasteOf
<1>19. PICK x \in Nat, y \in Nat, z \in Nat : x = SumOf(o, G) /\ y = SumOf(days, D) /\ z = SumOf(u, G)
  BY <1>10, <1>12, <1>15, <1>16, <1>17
<1>20. x <= y
  BY <1>10, <1>12, <1>14, <1>19
<1>21. WasteOf(l, s, u, G) = x + z
  BY <1>18, <1>19
<1> QED BY <1>0, <1>19, <1>20, <1>21

-----------------------------------------------------------------------------
(* The rows, and the sums over them.                                       *)
DeliveryRow == [shop : Shops, at : Nat, quantity : [Goods -> Nat], linked : BOOLEAN]
SaleRow == [shop : Shops, day : Nat, product : Goods, quantity : Nat]
LossTyped == receipts \in Seq(DeliveryRow) /\ saleRows \in Seq(SaleRow)

LEMMA LossSum ==
    ASSUME NEW D, IsFiniteSet(D), NEW f, f = [x \in D |-> f[x]]
    PROVE  Sum(f) = SumOf(f, D)
<1>1. Sum(f) = TotalOf(f)
  BY DEF Sum, TotalOf
<1> QED BY <1>1, TotalIsSum

Amounts(p) == [r \in DOMAIN receipts |-> receipts[r].quantity[p]]
Sales == [s \in DOMAIN saleRows |-> saleRows[s].quantity]

LEMMA LossRows ==
    ASSUME LossTyped
    PROVE  /\ IsFiniteSet(DOMAIN receipts) /\ IsFiniteSet(DOMAIN saleRows)
           /\ \A r \in DOMAIN receipts : receipts[r] \in DeliveryRow
           /\ \A s \in DOMAIN saleRows : saleRows[s] \in SaleRow
           /\ \A p \in Goods : \A r \in DOMAIN receipts : Amounts(p)[r] \in Nat
           /\ \A s \in DOMAIN saleRows : Sales[s] \in Nat
<1>1. PICK n \in Nat : DOMAIN receipts = 1 .. n
  BY DEF LossTyped
<1>2. PICK k \in Nat : DOMAIN saleRows = 1 .. k
  BY DEF LossTyped
<1>3. IsFiniteSet(DOMAIN receipts) /\ IsFiniteSet(DOMAIN saleRows)
  BY <1>1, <1>2, FS_Interval
<1>4. \A r \in DOMAIN receipts : receipts[r] \in DeliveryRow
  BY DEF LossTyped
<1>5. \A s \in DOMAIN saleRows : saleRows[s] \in SaleRow
  BY DEF LossTyped
<1>6. \A p \in Goods : \A r \in DOMAIN receipts : Amounts(p)[r] \in Nat
  BY <1>4 DEF Amounts, DeliveryRow
<1>7. \A s \in DOMAIN saleRows : Sales[s] \in Nat
  BY <1>5 DEF Sales, SaleRow
<1> QED BY <1>3, <1>4, <1>5, <1>6, <1>7

LEMMA ReceivedIs ==
    ASSUME LossTyped, NEW rs \in SUBSET (DOMAIN receipts), NEW p \in Goods
    PROVE  /\ IsFiniteSet(rs) /\ \A r \in rs : Amounts(p)[r] \in Nat
           /\ Received(rs, p) = SumOf(Amounts(p), rs) /\ Received(rs, p) \in Nat
<1>1. IsFiniteSet(rs)
  BY LossRows, FS_Subset
<1>2. PICK f : f = [r \in rs |-> receipts[r].quantity[p]]
  OBVIOUS
<1>3. PICK g : g = Amounts(p)
  OBVIOUS
<1>4. \A r \in rs : f[r] \in Nat /\ g[r] = f[r] /\ g[r] \in Nat
  <2>1. \A r \in rs : g[r] \in Nat
    BY <1>3, LossRows
  <2>2. \A r \in rs : g[r] = f[r]
    BY <1>2, <1>3 DEF Amounts
  <2> QED BY <2>1, <2>2
<1>5. Received(rs, p) = Sum(f)
  BY <1>2 DEF Received
<1>6. Sum(f) = SumOf(f, rs)
  BY <1>1, <1>2, LossSum
<1>7. SumOf(f, rs) = SumOf(g, rs)
  BY <1>1, <1>4, SumSame
<1>8. SumOf(g, rs) \in Nat
  BY <1>1, <1>4, SumNat
<1> QED BY <1>1, <1>3, <1>4, <1>5, <1>6, <1>7, <1>8

LEMMA SoldIs ==
    ASSUME LossTyped, NEW shop, NEW days, NEW p
    PROVE  /\ SalesOf(shop, days, p) \subseteq DOMAIN saleRows /\ IsFiniteSet(SalesOf(shop, days, p))
           /\ productTotals(shop, days, p) = SumOf(Sales, SalesOf(shop, days, p))
           /\ productTotals(shop, days, p) \in Nat
<1>1. PICK ss : ss = SalesOf(shop, days, p) /\ ss \subseteq DOMAIN saleRows
  BY DEF SalesOf
<1>2. IsFiniteSet(ss)
  BY <1>1, LossRows, FS_Subset
<1>3. PICK f : f = [s \in ss |-> saleRows[s].quantity]
  OBVIOUS
<1>4. PICK g : g = Sales
  OBVIOUS
<1>5. \A r \in ss : f[r] \in Nat /\ g[r] = f[r] /\ g[r] \in Nat
  <2>1. \A r \in ss : g[r] \in Nat
    BY <1>1, <1>4, LossRows
  <2>2. \A r \in ss : g[r] = f[r]
    BY <1>1, <1>3, <1>4 DEF Sales
  <2> QED BY <2>1, <2>2
<1>6. productTotals(shop, days, p) = Sum(f)
  BY <1>1, <1>3 DEF productTotals
<1>7. Sum(f) = SumOf(f, ss)
  BY <1>2, <1>3, LossSum
<1>8. SumOf(f, ss) = SumOf(g, ss)
  BY <1>2, <1>5, SumSame
<1>9. SumOf(g, ss) \in Nat
  BY <1>2, <1>5, SumNat
<1> QED BY <1>1, <1>2, <1>4, <1>6, <1>7, <1>8, <1>9

(* What a store received and sold, of its days.                            *)
LEMMA ReceivedByDays ==
    ASSUME LossTyped, NEW shop, NEW D, IsFiniteSet(D), NEW p \in Goods,
           NEW h, h = [d \in D |-> Received(DayReceipts(shop, d), p)]
    PROVE  /\ Received(Linked(ReceiptsOf(shop, D)), p) = SumOf(h, D)
           /\ h \in [D -> Nat]
<1>1. PICK S : S = Linked(ReceiptsOf(shop, D)) /\ S \subseteq DOMAIN receipts
  BY DEF Linked, ReceiptsOf
<1>2. PICK part : part = [r \in S |-> kstDateOf(receipts[r].at)]
  OBVIOUS
<1>3. part \in [S -> D]
  BY <1>1, <1>2 DEF Linked, ReceiptsOf
<1>4. \A d \in D : {r \in S : part[r] = d} = DayReceipts(shop, d)
  BY <1>1, <1>2 DEF Linked, ReceiptsOf, DayReceipts
<1>5. \A d \in D : DayReceipts(shop, d) \subseteq DOMAIN receipts
  BY DEF DayReceipts, Linked, ReceiptsOf
<1>6. PICK g : g = Amounts(p)
  OBVIOUS
<1>7. IsFiniteSet(S) /\ (\A r \in S : g[r] \in Nat) /\ Received(S, p) = SumOf(g, S)
  BY <1>1, <1>6, ReceivedIs
<1>8. \A d \in D : h[d] = SumOf(g, {r \in S : part[r] = d}) /\ h[d] \in Nat
  BY <1>4, <1>5, <1>6, ReceivedIs
<1>9. h = [d \in D |-> SumOf(g, {r \in S : part[r] = d})] /\ h \in [D -> Nat]
  BY <1>8
<1>10. SumOf(g, S) = SumOf(h, D)
  <2>1. \A r \in S : g[r] \in Int
    BY <1>7
  <2>2. h = PartSums(g, S, part, D)
    BY <1>9 DEF PartSums
  <2> QED BY <1>3, <1>7, <2>1, <2>2, SumParts
<1> QED BY <1>1, <1>7, <1>9, <1>10

SoldOnDays(shop, D, p) == [d \in D |-> productTotals(shop, {d}, p)]

LEMMA SoldByDays ==
    ASSUME LossTyped, NEW shop, NEW D, IsFiniteSet(D), NEW p \in Goods
    PROVE  /\ productTotals(shop, D, p) = SumOf(SoldOnDays(shop, D, p), D)
           /\ SoldOnDays(shop, D, p) \in [D -> Nat]
<1>0. PICK h : h = SoldOnDays(shop, D, p)
  OBVIOUS
<1>1. PICK S : S = SalesOf(shop, D, p) /\ S \subseteq DOMAIN saleRows
  BY DEF SalesOf
<1>2. PICK part : part = [s \in S |-> saleRows[s].day]
  OBVIOUS
<1>3. part \in [S -> D]
  BY <1>1, <1>2 DEF SalesOf
<1>4. \A d \in D : {s \in S : part[s] = d} = SalesOf(shop, {d}, p)
  BY <1>1, <1>2 DEF SalesOf
<1>6. PICK g : g = Sales
  OBVIOUS
<1>7. IsFiniteSet(S) /\ productTotals(shop, D, p) = SumOf(g, S)
  BY <1>1, <1>6, SoldIs
<1>8. \A d \in D : h[d] = SumOf(g, {s \in S : part[s] = d}) /\ h[d] \in Nat
  <2> SUFFICES ASSUME NEW d \in D PROVE h[d] = SumOf(g, {s \in S : part[s] = d}) /\ h[d] \in Nat
    OBVIOUS
  <2>1. h[d] = productTotals(shop, {d}, p)
    BY <1>0 DEF SoldOnDays
  <2>2. productTotals(shop, {d}, p) = SumOf(Sales, SalesOf(shop, {d}, p)) /\ productTotals(shop, {d}, p) \in Nat
    BY SoldIs
  <2> QED BY <1>4, <1>6, <2>1, <2>2
<1>9. h = [d \in D |-> SumOf(g, {s \in S : part[s] = d})] /\ h \in [D -> Nat]
  <2>1. h = [d \in D |-> h[d]]
    BY <1>0 DEF SoldOnDays
  <2> QED BY <1>8, <2>1
<1>10. SumOf(g, S) = SumOf(h, D)
  <2>1. \A x \in S : g[x] \in Int
    BY <1>1, <1>6, LossRows
  <2>2. IsFiniteSet(S)
    BY <1>7
  <2>3. h = [d \in D |-> SumOf(g, {x \in S : part[x] = d})]
    BY <1>9
  <2>4. h = PartSums(g, S, part, D)
    BY <2>3 DEF PartSums
  <2>5. IsFiniteSet(D)
    OBVIOUS
  <2>6. SumOf(g, S) = SumOf(PartSums(g, S, part, D), D)
    BY ONLY <1>3, <2>1, <2>2, <2>5, SumParts
  <2> QED BY <2>4, <2>6
<1> QED BY <1>0, <1>7, <1>9, <1>10

-----------------------------------------------------------------------------
(* A store in a month.                                                     *)
LEMMA DaysFinite ==
    ASSUME NEW month \in 0 .. MaxMonth
    PROVE  IsFiniteSet(DaysIn(month)) /\ DaysIn(month) \subseteq Nat
<1>1. PICK k \in Nat \ {0} : k = DaysOfMonth
  BY LossAssumption
<1>2. month \in Nat
  BY LossAssumption
<1>3. PICK a \in Nat, b \in Int : a = month * k /\ b = (month + 1) * k - 1
  BY <1>2
<1>4. DaysIn(month) = a .. b
  BY <1>1, <1>3 DEF DaysIn
<1>5. IsFiniteSet(a .. b)
  BY <1>3, FS_Interval
<1>6. \A d \in a .. b : d \in Nat
  BY <1>3
<1> QED BY <1>4, <1>5, <1>6

LEMMA UnlinkedIs ==
    ASSUME LossTyped, NEW rs \in SUBSET (DOMAIN receipts),
           NEW u, u = [p \in Goods |-> Received(rs \ Linked(rs), p)]
    PROVE  u \in [Goods -> Nat] /\ Unlinked(rs) = SumOf(u, Goods) /\ Unlinked(rs) \in Nat
<1>1. PICK N : N = rs \ Linked(rs) /\ N \in SUBSET (DOMAIN receipts)
  OBVIOUS
<1>2. \A p \in Goods : Received(N, p) \in Nat
  BY <1>1, ReceivedIs
<1>3. u \in [Goods -> Nat]
  BY <1>1, <1>2
<1>4. Unlinked(rs) = Sum(u)
  BY DEF Unlinked
<1>5. Sum(u) = SumOf(u, Goods)
  <2>1. u = [p \in Goods |-> u[p]]
    BY <1>3
  <2>2. IsFiniteSet(Goods)
    BY LossAssumption
  <2> QED BY ONLY <2>1, <2>2, LossSum
<1>6. SumOf(u, Goods) \in Nat
  BY <1>3, LossAssumption, SumNat
<1> QED BY <1>3, <1>4, <1>5, <1>6

LEMMA ReceivedIsSplit ==
    ASSUME LossTyped, NEW rs \in SUBSET (DOMAIN receipts), NEW p \in Goods
    PROVE  Received(rs, p) = Received(Linked(rs), p) + Received(rs \ Linked(rs), p)
<1>1. PICK L, N : L = Linked(rs) /\ N = rs \ L
  OBVIOUS
<1>2. L \in SUBSET (DOMAIN receipts) /\ N \in SUBSET (DOMAIN receipts) /\ L \union N = rs /\ L \intersect N = {}
  BY <1>1 DEF Linked
<1>3. PICK g : g = Amounts(p)
  OBVIOUS
<1>4. IsFiniteSet(L) /\ Received(L, p) = SumOf(g, L)
  BY <1>2, <1>3, ReceivedIs
<1>5. IsFiniteSet(N) /\ Received(N, p) = SumOf(g, N)
  BY <1>2, <1>3, ReceivedIs
<1>6. Received(rs, p) = SumOf(g, rs) /\ \A r \in rs : g[r] \in Nat
  BY <1>3, ReceivedIs
<1>7. SumOf(g, L \union N) = SumOf(g, L) + SumOf(g, N)
  <2>1. \A r \in L \union N : g[r] \in Int
    BY <1>2, <1>6
  <2> QED BY <1>2, <1>4, <1>5, <2>1, SumUnion
<1> QED BY <1>1, <1>2, <1>4, <1>5, <1>6, <1>7

LeftOf(shop, month, P) ==
    SumOf([p \in P |-> Received(ReceiptsOf(shop, DaysIn(month)), p) - SoldIn(shop, month, p)], P)
LostByDays(shop, month) ==
    SumOf([day \in DaysIn(month) |-> buildWasteReport(shop, day).waste], DaysIn(month))

LEMMA StoreLoss ==
    ASSUME LossTyped, NEW month \in 0 .. MaxMonth, NEW shop
    PROVE  /\ Row(shop, month).waste \in Nat /\ Row(shop, month).received \in Nat
           /\ Row(shop, month).waste <= Row(shop, month).received
           /\ \A P \in SUBSET Goods : /\ LeftOf(shop, month, P) \in Int
                                      /\ LeftOf(shop, month, P) <= Row(shop, month).waste
           /\ LostByDays(shop, month) \in Nat
           /\ Unlinked(ReceiptsOf(shop, DaysIn(month))) \in Nat
           /\ Row(shop, month).waste <= Unlinked(ReceiptsOf(shop, DaysIn(month))) + LostByDays(shop, month)
<1>1. PICK D : D = DaysIn(month) /\ IsFiniteSet(D)
  BY DaysFinite
<1>2. PICK R : R = ReceiptsOf(shop, D) /\ R \in SUBSET (DOMAIN receipts)
  BY DEF ReceiptsOf
<1>3. PICK L, N : L = Linked(R) /\ N = R \ L
  OBVIOUS
<1>4. L \in SUBSET (DOMAIN receipts) /\ N \in SUBSET (DOMAIN receipts)
  BY <1>2, <1>3 DEF Linked
<1>5. IsFiniteSet(Goods)
  BY LossAssumption
<1>6. PICK l : l = [p \in Goods |-> Received(L, p)]
  OBVIOUS
<1>7. PICK s : s = [p \in Goods |-> SoldIn(shop, month, p)]
  OBVIOUS
<1>8. PICK u : u = [p \in Goods |-> Received(N, p)]
  OBVIOUS
<1>9. l \in [Goods -> Nat]
  <2>1. \A p \in Goods : Received(L, p) \in Nat
    BY <1>4, ReceivedIs
  <2> QED BY <1>6, <2>1
<1>10. s \in [Goods -> Nat]
  <2>1. \A p \in Goods : SoldIn(shop, month, p) \in Nat
    BY SoldIs DEF SoldIn
  <2> QED BY <1>7, <2>1
<1>11. u \in [Goods -> Nat] /\ Unlinked(R) = SumOf(u, Goods) /\ Unlinked(R) \in Nat
  <2>1. u = [p \in Goods |-> Received(R \ Linked(R), p)]
    BY <1>3, <1>8
  <2> QED BY <1>2, <2>1, UnlinkedIs
<1>12. PICK o : o = [p \in Goods |-> Over(l[p], s[p])]
  OBVIOUS
<1>13. Sum(o) = SumOf(o, Goods)
  <2>1. o = [p \in Goods |-> o[p]]
    BY <1>12
  <2> QED BY ONLY <1>5, <2>1, LossSum
<1>14. ProductWaste(R, shop, month) = WasteOf(l, s, u, Goods)
  <2>1. o = [p \in Goods |-> Over(Received(Linked(R), p), SoldIn(shop, month, p))]
    BY <1>3, <1>6, <1>7, <1>12
  <2>2. ProductWaste(R, shop, month) = Sum(o) + Unlinked(R)
    BY <2>1 DEF ProductWaste
  <2> QED BY <1>11, <1>12, <1>13, <2>2 DEF WasteOf
<1>15. Row(shop, month).waste = WasteOf(l, s, u, Goods)
  BY <1>1, <1>2, <1>14 DEF Row
<1>16. PICK t : t = [p \in Goods |-> l[p] + u[p]]
  OBVIOUS
<1>17. \A p \in Goods : Received(R, p) = l[p] + u[p]
  BY <1>2, <1>3, <1>6, <1>8, ReceivedIsSplit
<1>18. Row(shop, month).received = SumOf(t, Goods)
  <2>1. t = [p \in Goods |-> Received(R, p)]
    BY <1>16, <1>17
  <2>2. Row(shop, month).received = Sum(t)
    BY <1>1, <1>2, <2>1 DEF Row
  <2>3. t = [p \in Goods |-> t[p]]
    BY <1>16
  <2>4. Sum(t) = SumOf(t, Goods)
    BY ONLY <1>5, <2>3, LossSum
  <2> QED BY <2>2, <2>4
<1>19. /\ WasteOf(l, s, u, Goods) \in Nat
       /\ \A P \in SUBSET Goods : /\ SumOf([p \in P |-> l[p] + u[p] - s[p]], P) \in Int
                                  /\ SumOf([p \in P |-> l[p] + u[p] - s[p]], P) <= WasteOf(l, s, u, Goods)
       /\ SumOf([p \in Goods |-> l[p] + u[p]], Goods) \in Nat
       /\ WasteOf(l, s, u, Goods) <= SumOf([p \in Goods |-> l[p] + u[p]], Goods)
  BY ONLY <1>5, <1>9, <1>10, <1>11, WasteIsWhatWasLeft
<1>20. ASSUME NEW P \in SUBSET Goods
       PROVE  LeftOf(shop, month, P) \in Int /\ LeftOf(shop, month, P) <= Row(shop, month).waste
  <2>1. [p \in P |-> Received(R, p) - SoldIn(shop, month, p)] = [p \in P |-> l[p] + u[p] - s[p]]
    <3>1. ASSUME NEW p \in P PROVE Received(R, p) - SoldIn(shop, month, p) = l[p] + u[p] - s[p]
      <4>1. p \in Goods
        OBVIOUS
      <4>2. PICK a \in Nat, b \in Nat, c \in Nat : a = l[p] /\ b = u[p] /\ c = s[p]
        <5>1. l[p] \in Nat /\ u[p] \in Nat /\ s[p] \in Nat
          BY ONLY <1>9, <1>10, <1>11, <4>1
        <5> QED BY ONLY <5>1
      <4>3. Received(R, p) = a + b
        BY ONLY <1>17, <4>1, <4>2
      <4>4. SoldIn(shop, month, p) = c
        BY ONLY <1>7, <4>1, <4>2
      <4>5. Received(R, p) - SoldIn(shop, month, p) = a + b - c
        BY ONLY <4>3, <4>4
      <4>6. l[p] + u[p] - s[p] = a + b - c
        BY ONLY <4>2
      <4> QED BY ONLY <4>5, <4>6
    <3> QED BY <3>1, Zenon
  <2>2. LeftOf(shop, month, P) = SumOf([p \in P |-> l[p] + u[p] - s[p]], P)
    BY <1>1, <1>2, <2>1 DEF LeftOf
  <2> QED BY <1>15, <1>19, <2>2
<1>21. PICK dl : dl = [p \in Goods |-> [d \in D |-> Received(DayReceipts(shop, d), p)]]
  OBVIOUS
<1>22. PICK ds : ds = [p \in Goods |-> [d \in D |-> productTotals(shop, {d}, p)]]
  OBVIOUS
<1>23. ASSUME NEW p \in Goods
       PROVE  /\ dl[p] \in [D -> Nat] /\ ds[p] \in [D -> Nat]
              /\ l[p] = SumOf(dl[p], D) /\ s[p] = SumOf(ds[p], D)
  <2>1. PICK h : h = dl[p] /\ h = [d \in D |-> Received(DayReceipts(shop, d), p)]
    BY <1>21
  <2>2. Received(Linked(ReceiptsOf(shop, D)), p) = SumOf(h, D) /\ h \in [D -> Nat]
    BY <1>1, <2>1, ReceivedByDays
  <2>3. PICK k : k = ds[p] /\ k = SoldOnDays(shop, D, p)
    BY <1>22 DEF SoldOnDays
  <2>4. productTotals(shop, D, p) = SumOf(k, D) /\ k \in [D -> Nat]
    BY <1>1, <2>3, SoldByDays
  <2>5. l[p] = SumOf(h, D)
    BY <1>2, <1>3, <1>6, <2>2
  <2>6. s[p] = SumOf(k, D)
    BY <1>1, <1>7, <2>4 DEF SoldIn
  <2> QED BY <2>1, <2>2, <2>3, <2>4, <2>5, <2>6
<1>24. dl \in [Goods -> [D -> Nat]] /\ ds \in [Goods -> [D -> Nat]]
  BY <1>21, <1>22, <1>23
<1>25. PICK days : /\ days = OverOnDays(dl, ds, Goods, D)
                   /\ days = [d \in D |-> SumOf([p \in Goods |-> Over(dl[p][d], ds[p][d])], Goods)]
  BY DEF OverOnDays
<1>26. SumOf(days, D) \in Nat /\ WasteOf(l, s, u, Goods) <= SumOf(u, Goods) + SumOf(days, D)
  <2>1. \A p \in Goods : l[p] = SumOf(dl[p], D) /\ s[p] = SumOf(ds[p], D)
    BY <1>23
  <2>2. IsFiniteSet(D) /\ u \in [Goods -> Nat]
    BY <1>1, <1>11
  <2>3. /\ SumOf(OverOnDays(dl, ds, Goods, D), D) \in Nat
        /\ WasteOf(l, s, u, Goods) <= SumOf(u, Goods) + SumOf(OverOnDays(dl, ds, Goods, D), D)
    BY ONLY <1>5, <1>9, <1>10, <1>24, <2>1, <2>2, WasteOfDays
  <2> QED BY <1>25, <2>3
<1>27. ASSUME NEW d \in D PROVE buildWasteReport(shop, d).waste = days[d]
  <2>1. PICK f : f = [p \in Goods |-> Over(dl[p][d], ds[p][d])]
    OBVIOUS
  <2>2. \A p \in Goods : /\ DayItems(shop, d)[p].received = dl[p][d]
                         /\ DayItems(shop, d)[p].sold = ds[p][d]
    BY <1>21, <1>22 DEF DayItems
  <2>3. f = [p \in Goods |-> Over(DayItems(shop, d)[p].received, DayItems(shop, d)[p].sold)]
    BY <2>1, <2>2
  <2>4. buildWasteReport(shop, d).waste = Sum(f)
    BY <2>3 DEF buildWasteReport
  <2>5. f = [p \in Goods |-> f[p]]
    BY <2>1
  <2>6. Sum(f) = SumOf(f, Goods)
    BY ONLY <1>5, <2>5, LossSum
  <2> QED BY <1>25, <2>1, <2>4, <2>6
<1>28. LostByDays(shop, month) = SumOf(days, D)
  <2>1. days = [d \in D |-> buildWasteReport(shop, d).waste]
    BY <1>25, <1>27
  <2> QED BY <1>1, <2>1 DEF LostByDays
<1>29. Unlinked(ReceiptsOf(shop, DaysIn(month))) = SumOf(u, Goods)
  BY <1>1, <1>2, <1>11
<1> QED BY <1>1, <1>2, <1>11, <1>15, <1>16, <1>18, <1>19, <1>20, <1>26, <1>28, <1>29

-----------------------------------------------------------------------------
(* All stores.                                                             *)
LEMMA UnlinkedOfAll ==
    ASSUME LossTyped, NEW D, IsFiniteSet(D), NEW All, All = UNION {ReceiptsOf(shop, D) : shop \in Shops},
           NEW v, v = [shop \in Shops |-> Unlinked(ReceiptsOf(shop, D))]
    PROVE  Unlinked(All) = SumOf(v, Shops) /\ v \in [Shops -> Nat]
<1>1. IsFiniteSet(Shops) /\ IsFiniteSet(Goods)
  BY LossAssumption
<1>2. All \in SUBSET (DOMAIN receipts)
  BY DEF ReceiptsOf
<1>3. PICK N : N = All \ Linked(All) /\ N \in SUBSET (DOMAIN receipts)
  BY <1>2
<1>4. PICK part : part = [r \in N |-> receipts[r].shop]
  OBVIOUS
<1>5. part \in [N -> Shops]
  BY <1>3, <1>4 DEF ReceiptsOf
<1>6. PICK M : M = [shop \in Shops |-> ReceiptsOf(shop, D) \ Linked(ReceiptsOf(shop, D))]
  OBVIOUS
<1>7. \A shop \in Shops : {r \in N : part[r] = shop} = M[shop]
  BY <1>3, <1>4, <1>6 DEF ReceiptsOf, Linked
<1>8. \A shop \in Shops : M[shop] \in SUBSET (DOMAIN receipts) /\ ReceiptsOf(shop, D) \in SUBSET (DOMAIN receipts)
  BY <1>6 DEF ReceiptsOf
<1>9. PICK f : f = [shop \in Shops |-> [p \in Goods |-> Received(M[shop], p)]]
  OBVIOUS
<1>10. \A shop \in Shops, p \in Goods : f[shop][p] \in Nat
  BY <1>8, <1>9, ReceivedIs
<1>11. SumOf(Rows(f, Shops, Goods), Shops) = SumOf(Columns(f, Shops, Goods), Goods)
  <2>1. \A shop \in Shops, p \in Goods : f[shop][p] \in Int
    BY <1>10
  <2> QED BY ONLY <1>1, <2>1, SumExchange
<1>12. \A shop \in Shops : Unlinked(ReceiptsOf(shop, D)) = SumOf(f[shop], Goods) /\ Unlinked(ReceiptsOf(shop, D)) \in Nat
  <2> SUFFICES ASSUME NEW shop \in Shops
               PROVE  Unlinked(ReceiptsOf(shop, D)) = SumOf(f[shop], Goods) /\ Unlinked(ReceiptsOf(shop, D)) \in Nat
    OBVIOUS
  <2>1. PICK R, h : R = ReceiptsOf(shop, D) /\ h = f[shop]
    OBVIOUS
  <2>2. R \in SUBSET (DOMAIN receipts)
    BY <1>8, <2>1
  <2>3. h = [p \in Goods |-> Received(R \ Linked(R), p)]
    BY <1>6, <1>9, <2>1
  <2>4. Unlinked(R) = SumOf(h, Goods) /\ Unlinked(R) \in Nat
    BY <2>2, <2>3, UnlinkedIs
  <2> QED BY <2>1, <2>4
<1>13. v \in [Shops -> Nat]
  BY <1>12
<1>14. Rows(f, Shops, Goods) = v
  BY <1>12 DEF Rows
<1>15. PICK u : u = [p \in Goods |-> Received(N, p)]
  OBVIOUS
<1>16. Unlinked(All) = SumOf(u, Goods)
  <2>1. u = [p \in Goods |-> Received(All \ Linked(All), p)]
    BY <1>3, <1>15
  <2> QED BY <1>2, <2>1, UnlinkedIs
<1>17. ASSUME NEW p \in Goods
       PROVE  Received(N, p) = SumOf([shop \in Shops |-> f[shop][p]], Shops)
  <2>1. PICK g : g = Amounts(p)
    OBVIOUS
  <2>2. IsFiniteSet(N) /\ (\A r \in N : g[r] \in Nat) /\ Received(N, p) = SumOf(g, N)
    BY <1>3, <2>1, ReceivedIs
  <2>3. \A shop \in Shops : Received(M[shop], p) = SumOf(g, M[shop])
    BY <1>8, <2>1, ReceivedIs
  <2>4. PICK h : h = [shop \in Shops |-> f[shop][p]]
    OBVIOUS
  <2>5. \A shop \in Shops : h[shop] = SumOf(g, {r \in N : part[r] = shop})
    BY <1>7, <1>9, <2>3, <2>4
  <2>6. h = PartSums(g, N, part, Shops)
    <3>1. h = [shop \in Shops |-> SumOf(g, {r \in N : part[r] = shop})]
      BY <2>4, <2>5
    <3> QED BY <3>1 DEF PartSums
  <2>7. \A r \in N : g[r] \in Int
    BY <2>2
  <2>8. SumOf(g, N) = SumOf(PartSums(g, N, part, Shops), Shops)
    BY ONLY <1>1, <1>5, <2>2, <2>7, SumParts
  <2> QED BY <2>2, <2>4, <2>6, <2>8
<1>18. Columns(f, Shops, Goods) = u
  BY <1>15, <1>17 DEF Columns
<1> QED BY <1>11, <1>13, <1>14, <1>16, <1>18

(* The rows of the stores that received something have all there is.       *)
LEMMA EmptyRow ==
    ASSUME LossTyped, NEW month \in 0 .. MaxMonth, NEW shop
    PROVE  /\ Row(shop, month).count \in Nat
           /\ Row(shop, month).count = 0 => Row(shop, month).received = 0 /\ Row(shop, month).waste = 0
<1>1. PICK R : R = ReceiptsOf(shop, DaysIn(month)) /\ R \in SUBSET (DOMAIN receipts)
  BY DEF ReceiptsOf
<1>2. IsFiniteSet(R)
  BY <1>1, LossRows, FS_Subset
<1>3. Row(shop, month).count = Cardinality(R)
  BY <1>1 DEF Row
<1>4. Cardinality(R) \in Nat
  BY <1>2, FS_CardinalityType
<1>5. ASSUME R = {} PROVE Row(shop, month).received = 0
  <2>1. PICK t : t = [p \in Goods |-> Received(R, p)]
    OBVIOUS
  <2>2. Row(shop, month).received = Sum(t)
    BY <1>1, <2>1 DEF Row
  <2>3. t = [p \in Goods |-> t[p]]
    BY <2>1
  <2>4. IsFiniteSet(Goods)
    BY LossAssumption
  <2>5. Sum(t) = SumOf(t, Goods)
    BY ONLY <2>3, <2>4, LossSum
  <2>6. \A p \in Goods : t[p] = 0
    <3> SUFFICES ASSUME NEW p \in Goods PROVE t[p] = 0
      OBVIOUS
    <3>1. Received(R, p) = SumOf(Amounts(p), R)
      BY <1>1, ReceivedIs
    <3>2. SumOf(Amounts(p), {}) = 0
      BY SumEmpty
    <3> QED BY <1>5, <2>1, <3>1, <3>2
  <2>7. SumOf(t, Goods) = 0
    BY <2>4, <2>6, SumZero
  <2> QED BY <2>2, <2>5, <2>7
<1>6. Row(shop, month).waste \in Nat /\ Row(shop, month).received \in Nat /\ Row(shop, month).waste <= Row(shop, month).received
  BY StoreLoss
<1>7. Cardinality(R) = 0 => R = {}
  BY <1>2, FS_EmptySet
<1> QED BY <1>3, <1>4, <1>5, <1>6, <1>7

LEMMA RestIsZero ==
    ASSUME NEW S, IsFiniteSet(S), NEW T \in SUBSET S, NEW f, \A x \in S : f[x] \in Int,
           \A x \in S \ T : f[x] = 0
    PROVE  SumOf(f, T) = SumOf(f, S)
<1>1. PICK R : R = S \ T
  OBVIOUS
<1>2. IsFiniteSet(T) /\ IsFiniteSet(R) /\ T \intersect R = {} /\ T \union R = S
  BY <1>1, FS_Subset
<1>3. SumOf(f, R) = 0
  BY <1>1, <1>2, SumZero
<1>4. SumOf(f, T) \in Int
  BY <1>2, SumType
<1>5. SumOf(f, T \union R) = SumOf(f, T) + SumOf(f, R)
  BY <1>1, <1>2, SumUnion
<1>6. PICK a \in Int : a = SumOf(f, T)
  BY <1>4
<1>7. SumOf(f, T \union R) = a + 0
  BY ONLY <1>3, <1>5, <1>6
<1>8. SumOf(f, T \union R) = SumOf(f, T)
  BY ONLY <1>6, <1>7
<1> QED BY ONLY <1>2, <1>8

LEMMA TotalsAre ==
    ASSUME LossTyped, NEW month \in 0 .. MaxMonth,
           NEW w, w = [shop \in Shops |-> Row(shop, month).waste],
           NEW r, r = [shop \in Shops |-> Row(shop, month).received]
    PROVE  /\ Totals(month).waste = SumOf(w, Shops)
           /\ Totals(month).received = SumOf(r, Shops)
           /\ Totals(month).rate = Rate(SumOf(w, Shops), SumOf(r, Shops))
<1>1. PICK T : T = {shop \in Shops : Row(shop, month).count > 0}
  OBVIOUS
<1>2. IsFiniteSet(Shops) /\ IsFiniteSet(T) /\ T \in SUBSET Shops
  BY <1>1, LossAssumption, FS_Subset
<1>3. PICK tw, tr : /\ tw = [shop \in T |-> Row(shop, month).waste]
                    /\ tr = [shop \in T |-> Row(shop, month).received]
  OBVIOUS
<1>4. \A shop \in Shops : w[shop] \in Int /\ r[shop] \in Int
  <2>1. \A shop \in Shops : Row(shop, month).waste \in Nat /\ Row(shop, month).received \in Nat
    BY StoreLoss
  <2> QED BY <2>1
<1>5. \A shop \in Shops \ T : w[shop] = 0 /\ r[shop] = 0
  <2> SUFFICES ASSUME NEW shop \in Shops \ T PROVE w[shop] = 0 /\ r[shop] = 0
    OBVIOUS
  <2>1. PICK n \in Nat : n = Row(shop, month).count
    BY EmptyRow
  <2>2. n = 0
    BY <1>1, <2>1
  <2>3. Row(shop, month).received = 0 /\ Row(shop, month).waste = 0
    BY <2>1, <2>2, EmptyRow
  <2> QED BY <2>3
<1>6. Sum(tw) = SumOf(tw, T) /\ Sum(tr) = SumOf(tr, T)
  <2>1. tw = [shop \in T |-> tw[shop]] /\ tr = [shop \in T |-> tr[shop]]
    BY <1>3
  <2> QED BY ONLY <1>2, <2>1, LossSum
<1>7. SumOf(tw, T) = SumOf(w, T)
  <2>1. \A shop \in T : tw[shop] \in Int /\ w[shop] = tw[shop]
    BY <1>2, <1>3, <1>4
  <2> QED BY <1>2, <2>1, SumSame
<1>8. SumOf(tr, T) = SumOf(r, T)
  <2>1. \A shop \in T : tr[shop] \in Int /\ r[shop] = tr[shop]
    BY <1>2, <1>3, <1>4
  <2> QED BY <1>2, <2>1, SumSame
<1>9. SumOf(w, T) = SumOf(w, Shops) /\ SumOf(r, T) = SumOf(r, Shops)
  BY <1>2, <1>4, <1>5, RestIsZero
<1>10. /\ Totals(month).waste = Sum(tw) /\ Totals(month).received = Sum(tr)
       /\ Totals(month).rate = Rate(Sum(tw), Sum(tr))
  BY <1>1, <1>3 DEF Totals
<1> QED BY <1>6, <1>7, <1>8, <1>9, <1>10

LEMMA RateBounded ==
    ASSUME NEW w \in Nat, NEW r \in Nat, w <= r
    PROVE  Rate(w, r) <= 1000
<1>1. CASE r = 0
  BY <1>1 DEF Rate
<1>2. CASE r > 0
  <2>1. PICK a \in Nat, d \in Nat \ {0} : a = 2000 * w + r /\ d = 2 * r
    BY <1>2
  <2>2. PICK q \in Nat : q = a \div d /\ d * q <= a
    BY Quotient
  <2>3. ASSUME q >= 1001 PROVE FALSE
    <3>1. d * 1001 <= d * q
      BY <2>3, Multiplied
    <3>2. d * 1001 <= a
      <4>1. PICK m \in Nat : m = d * q
        OBVIOUS
      <4> QED BY <2>2, <3>1, <4>1
    <3> QED BY <1>2, <2>1, <3>2
  <2>4. Rate(w, r) = q
    BY <1>2, <2>1, <2>2 DEF Rate
  <2> QED BY <2>3, <2>4
<1> QED BY <1>1, <1>2

LEMMA LossHolds == LossTyped => LossIsWhatWasLeft
<1> SUFFICES ASSUME LossTyped, NEW month \in 0 .. MaxMonth
             PROVE  LET total == Totals(month)
                        all == UNION {ReceiptsOf(shop, DaysIn(month)) : shop \in Shops}
                    IN /\ \A stores \in SUBSET Shops, products \in SUBSET Goods :
                            total.waste >= Sum([shop \in stores |-> Sum([p \in products |->
                                Received(ReceiptsOf(shop, DaysIn(month)), p) - SoldIn(shop, month, p)])])
                       /\ total.waste <= total.received /\ total.rate <= 1000
                       /\ total.waste <= Unlinked(all) + Sum([shop \in Shops |->
                              Sum([day \in DaysIn(month) |-> buildWasteReport(shop, day).waste])])
  BY DEF LossIsWhatWasLeft
<1>1. PICK D : D = DaysIn(month) /\ IsFiniteSet(D)
  BY DaysFinite
<1>2. PICK all : all = UNION {ReceiptsOf(shop, D) : shop \in Shops}
  OBVIOUS
<1>3. PICK w : w = [shop \in Shops |-> Row(shop, month).waste]
  OBVIOUS
<1>4. PICK r : r = [shop \in Shops |-> Row(shop, month).received]
  OBVIOUS
<1>5. /\ Totals(month).waste = SumOf(w, Shops)
      /\ Totals(month).received = SumOf(r, Shops)
      /\ Totals(month).rate = Rate(SumOf(w, Shops), SumOf(r, Shops))
  BY <1>3, <1>4, TotalsAre
<1>6. IsFiniteSet(Shops) /\ IsFiniteSet(Goods)
  BY LossAssumption
<1>7. \A shop \in Shops : w[shop] \in Nat /\ r[shop] \in Nat /\ w[shop] <= r[shop]
  BY <1>3, <1>4, StoreLoss
<1>8. SumOf(w, Shops) \in Nat /\ SumOf(r, Shops) \in Nat /\ SumOf(w, Shops) <= SumOf(r, Shops)
  <2>1. SumOf(w, Shops) \in Nat /\ SumOf(r, Shops) \in Nat
    BY <1>6, <1>7, SumNat
  <2>2. \A shop \in Shops : w[shop] \in Int /\ r[shop] \in Int /\ w[shop] <= r[shop]
    BY <1>7
  <2>3. SumOf(w, Shops) <= SumOf(r, Shops)
    BY <1>6, <2>2, SumMonotone
  <2> QED BY <2>1, <2>3
<1>9. Totals(month).waste <= Totals(month).received /\ Totals(month).rate <= 1000
  BY <1>5, <1>8, RateBounded
<1>10. ASSUME NEW stores \in SUBSET Shops, NEW products \in SUBSET Goods
       PROVE  Totals(month).waste >= Sum([shop \in stores |-> Sum([p \in products |->
                  Received(ReceiptsOf(shop, D), p) - SoldIn(shop, month, p)])])
  <2>1. PICK c : c = [shop \in stores |-> Sum([p \in products |->
                         Received(ReceiptsOf(shop, D), p) - SoldIn(shop, month, p)])]
    OBVIOUS
  <2>2. IsFiniteSet(stores) /\ IsFiniteSet(products)
    BY <1>6, FS_Subset
  <2>3. ASSUME NEW shop \in stores PROVE c[shop] \in Int /\ c[shop] <= w[shop]
    <3>1. PICK h : h = [p \in products |-> Received(ReceiptsOf(shop, D), p) - SoldIn(shop, month, p)]
      OBVIOUS
    <3>2. h = [p \in products |-> h[p]]
      BY <3>1
    <3>3. Sum(h) = SumOf(h, products)
      BY ONLY <2>2, <3>2, LossSum
    <3>4. c[shop] = Sum(h)
      BY <2>1, <3>1
    <3>5. LeftOf(shop, month, products) = SumOf(h, products)
      BY <1>1, <3>1 DEF LeftOf
    <3>6. LeftOf(shop, month, products) \in Int /\ LeftOf(shop, month, products) <= Row(shop, month).waste
      BY StoreLoss
    <3>7. w[shop] = Row(shop, month).waste
      BY <1>3
    <3> QED BY <3>3, <3>4, <3>5, <3>6, <3>7
  <2>4. Sum(c) = SumOf(c, stores)
    <3>1. c = [shop \in stores |-> c[shop]]
      BY <2>1
    <3> QED BY ONLY <2>2, <3>1, LossSum
  <2>5. SumOf(c, stores) \in Int /\ SumOf(c, stores) <= SumOf(w, stores)
    <3>1. \A shop \in stores : c[shop] \in Int /\ w[shop] \in Int /\ c[shop] <= w[shop]
      BY <1>7, <2>3
    <3> QED BY <2>2, <3>1, SumMonotone, SumType
  <2>6. SumOf(w, stores) \in Nat /\ SumOf(w, stores) <= SumOf(w, Shops)
    BY <1>6, <1>7, SumSubset
  <2>7. SumOf(c, stores) <= SumOf(w, Shops)
    BY <1>8, <2>5, <2>6
  <2> QED BY <1>5, <1>8, <2>1, <2>4, <2>5, <2>7
<1>11. Totals(month).waste <= Unlinked(all) + Sum([shop \in Shops |->
           Sum([day \in D |-> buildWasteReport(shop, day).waste])])
  <2>1. PICK e : e = [shop \in Shops |-> Sum([day \in D |-> buildWasteReport(shop, day).waste])]
    OBVIOUS
  <2>2. PICK v : v = [shop \in Shops |-> Unlinked(ReceiptsOf(shop, D))]
    OBVIOUS
  <2>3. Unlinked(all) = SumOf(v, Shops) /\ v \in [Shops -> Nat]
    <3>1. LossTyped /\ IsFiniteSet(D)
      BY <1>1
    <3> QED BY ONLY <3>1, <1>2, <2>2, UnlinkedOfAll
  <2>4. ASSUME NEW shop \in Shops PROVE e[shop] \in Nat /\ w[shop] <= v[shop] + e[shop]
    <3>1. PICK h : h = [day \in D |-> buildWasteReport(shop, day).waste]
      OBVIOUS
    <3>2. h = [day \in D |-> h[day]]
      BY <3>1
    <3>3. IsFiniteSet(D)
      BY <1>1
    <3>4. Sum(h) = SumOf(h, D)
      BY ONLY <3>2, <3>3, LossSum
    <3>5. e[shop] = Sum(h)
      BY <2>1, <3>1
    <3>6. LostByDays(shop, month) = SumOf(h, D)
      BY <1>1, <3>1 DEF LostByDays
    <3>7. /\ LostByDays(shop, month) \in Nat
          /\ Row(shop, month).waste <= Unlinked(ReceiptsOf(shop, DaysIn(month))) + LostByDays(shop, month)
      BY StoreLoss
    <3>8. w[shop] = Row(shop, month).waste /\ v[shop] = Unlinked(ReceiptsOf(shop, DaysIn(month)))
      BY <1>1, <1>3, <2>2
    <3> QED BY <3>4, <3>5, <3>6, <3>7, <3>8
  <2>5. PICK t : t = [shop \in Shops |-> v[shop] + e[shop]]
    OBVIOUS
  <2>6. \A shop \in Shops : v[shop] \in Int /\ e[shop] \in Int /\ t[shop] = v[shop] + e[shop]
    BY <2>3, <2>4, <2>5
  <2>7. SumOf(t, Shops) = SumOf(v, Shops) + SumOf(e, Shops)
    BY <1>6, <2>6, SumOfSums
  <2>8. SumOf(w, Shops) <= SumOf(t, Shops)
    <3>1. \A shop \in Shops : w[shop] \in Int /\ t[shop] \in Int /\ w[shop] <= t[shop]
      BY <1>7, <2>4, <2>5, <2>6
    <3> QED BY <1>6, <3>1, SumMonotone
  <2>9. Sum(e) = SumOf(e, Shops)
    <3>1. e = [shop \in Shops |-> e[shop]]
      BY <2>1
    <3> QED BY ONLY <1>6, <3>1, LossSum
  <2>10. Totals(month).waste <= Unlinked(all) + Sum(e)
    BY <1>5, <2>3, <2>7, <2>8, <2>9
  <2> QED BY <2>1, <2>10
<1> QED BY <1>1, <1>2, <1>9, <1>10, <1>11

LEMMA LossStep == LossTyped /\ [LossNext]_lossVars => LossTyped'
<1> SUFFICES ASSUME LossTyped, [LossNext]_lossVars PROVE LossTyped'
  OBVIOUS
<1>1. CASE UNCHANGED lossVars
  BY <1>1 DEF lossVars, LossTyped
<1>2. ASSUME NEW shop \in Shops, NEW moment \in Moments, NEW line \in [Goods -> LineQuantities],
             NEW linked \in BOOLEAN, ConfirmReceipt(shop, moment, line, linked)
      PROVE  LossTyped'
  <2>1. PICK row : row = [shop |-> shop, at |-> moment, quantity |-> line, linked |-> linked]
    OBVIOUS
  <2>2. line \in [Goods -> Nat] /\ moment \in Nat
    BY LossAssumption
  <2>3. row \in DeliveryRow
    BY <2>1, <2>2 DEF DeliveryRow
  <2>4. receipts' = Append(receipts, row) /\ saleRows' = saleRows
    BY <1>2, <2>1 DEF ConfirmReceipt
  <2> QED BY <2>3, <2>4 DEF LossTyped
<1>3. ASSUME NEW shop \in Shops, NEW month \in 0 .. MaxMonth, NEW product \in Goods,
             NEW quantity \in LineQuantities, NEW day \in DaysIn(month), SellAt(shop, day, product, quantity)
      PROVE  LossTyped'
  <2>1. PICK row : row = [shop |-> shop, day |-> day, product |-> product, quantity |-> quantity]
    OBVIOUS
  <2>2. quantity \in Nat /\ day \in Nat
    BY LossAssumption, DaysFinite
  <2>3. row \in SaleRow
    BY <2>1, <2>2 DEF SaleRow
  <2>4. saleRows' = Append(saleRows, row) /\ receipts' = receipts
    BY <1>3, <2>1 DEF SellAt
  <2> QED BY <2>3, <2>4 DEF LossTyped
<1> QED BY <1>1, <1>2, <1>3 DEF LossNext

(* What the summary of a month tells lost, over all stores, is at least    *)
(* what is left of any products of any stores, at most what was received,  *)
(* and at most the losses of the month's days and of the lines without an  *)
(* order, whatever was delivered and sold.                                 *)
THEOREM LossesAddUp == LossSpec => []LossIsWhatWasLeft
<1>1. LossInit => LossTyped
  BY DEF LossInit, LossTyped
<1> QED BY <1>1, LossStep, LossHolds, PTL DEF LossSpec

-----------------------------------------------------------------------------
(***************************************************************************)
(* Releases: in order.                                                     *)
(*                                                                         *)
(* What a deploy has run it has run for good, whatever Render does later.  *)
(* A script has its services left in their order; those it has done have   *)
(* run what the manifest aims at, and the manifest tells of no other than  *)
(* these and the one the script waits for.                                 *)
(***************************************************************************)

Rank(k, s) == IF k = "deploy" THEN (IF s = "api" THEN 1 ELSE IF s = "worker" THEN 2 ELSE 3)
                              ELSE (IF s = "web" THEN 1 ELSE IF s = "worker" THEN 2 ELSE 3)
OrderOf(k) == IF k = "deploy" THEN ReleaseOrder ELSE <<"web", "worker", "api">>

DeployStates == {"queued", "live", "deactivated", "build_failed"}
DeployOf(C) == [commit : C, status : DeployStates]
DeployRows(q) == \E C : q \in Seq(DeployOf(C))

ScriptFormed(sc) == sc = [at |-> sc.at, left |-> sc.left, previous |-> sc.previous, deploy |-> sc.deploy]
ManifestFormed(m) ==
    /\ m = [status |-> m.status, aim |-> m.aim, services |-> m.services]
    /\ m.services = [s \in RenderServices |-> m.services[s]]
    /\ DOMAIN m.aim \subseteq RenderServices

StillLeft(sc) == {sc.left[i] : i \in 1 .. Len(sc.left)}
DoneBy(m, sc) == DOMAIN m.aim \ StillLeft(sc)

Sorted(k, left) == \A i, j \in 1 .. Len(left) : i < j => Rank(k, left[i]) < Rank(k, left[j])

(* Of the deploys r at Render: what HasRun and InOrder say of them.         *)
Ran(r, s, d, commit) ==
    /\ d \in DOMAIN r[s] /\ r[s][d].commit = commit
    /\ r[s][d].status \in {"live", "deactivated"}

Orderly(r, m, order) ==
    \A s, t \in DOMAIN m.aim :
      (Precedes(s, t, order) /\ t \in RecordedIn(m)) \/ m.status = "live"
        => Ran(r, s, m.services[s].deploy, m.aim[s])

Runs(r, k, sc, m) ==
    /\ sc.left \in Seq(RenderServices) /\ sc.left # <<>>
    /\ StillLeft(sc) \subseteq DOMAIN m.aim
    /\ Sorted(k, sc.left)
    /\ \A s \in DoneBy(m, sc) : /\ Rank(k, s) < Rank(k, Head(sc.left))
                                /\ Ran(r, s, m.services[s].deploy, m.aim[s])
    /\ \A s \in RecordedIn(m) : s \in DoneBy(m, sc) \/ (sc.at = "wait" /\ s = Head(sc.left))
    /\ sc.at = "wait" => /\ m.services[Head(sc.left)].deploy = sc.deploy
                         /\ sc.deploy \in DOMAIN r[Head(sc.left)]
                         /\ r[Head(sc.left)][sc.deploy].commit = m.aim[Head(sc.left)]
    /\ m.status = "running"

RenderFormed(r) == r = [s \in RenderServices |-> r[s]] /\ \A s \in RenderServices : DeployRows(r[s])

ReleasesInv ==
    /\ RenderFormed(render)
    /\ script = [k \in Scripts |-> script[k]] /\ manifest = [k \in Scripts |-> manifest[k]]
    /\ \A k \in Scripts : /\ ScriptFormed(script[k]) /\ ManifestFormed(manifest[k])
                          /\ script[k] = NoScript \/ Runs(render, k, script[k], manifest[k])
                          /\ Orderly(render, manifest[k], OrderOf(k))
    /\ \A m \in artifacts : ManifestFormed(m) /\ Orderly(render, m, ReleaseOrder)

-----------------------------------------------------------------------------
(* The order of the services.                                              *)

LEMMA PrecedesIs ==
    ASSUME NEW k \in Scripts, NEW s \in RenderServices, NEW t \in RenderServices,
           Precedes(s, t, OrderOf(k))
    PROVE  Rank(k, s) < Rank(k, t)
<1>1. /\ OrderOf(k) \in {<<"api", "worker", "web">>, <<"web", "worker", "api">>}
      /\ k = "deploy" <=> OrderOf(k) = <<"api", "worker", "web">>
  BY DEF OrderOf, ReleaseOrder
<1>2. CASE k = "deploy"
  BY <1>1, <1>2 DEF Precedes, Rank
<1>3. CASE k # "deploy"
  BY <1>1, <1>3 DEF Precedes, Rank
<1>. QED  BY <1>2, <1>3

LEMMA RankIsNat == \A k, s : Rank(k, s) \in Nat
BY DEF Rank

(* What a script has left, has done and waits for.                         *)
LEMMA RunsAre ==
    ASSUME NEW r, NEW k \in Scripts, NEW sc, NEW m, Runs(r, k, sc, m), ManifestFormed(m)
    PROVE  /\ Len(sc.left) \in Nat \ {0} /\ Head(sc.left) = sc.left[1]
           /\ Head(sc.left) \in RenderServices /\ Head(sc.left) \in DOMAIN m.aim
           /\ Head(sc.left) \in StillLeft(sc) /\ DOMAIN m.aim \subseteq RenderServices
           /\ \A s \in StillLeft(sc) : s = Head(sc.left) \/ Rank(k, Head(sc.left)) < Rank(k, s)
<1>1. Len(sc.left) \in Nat \ {0} /\ Head(sc.left) = sc.left[1] /\ sc.left[1] \in RenderServices
  BY DEF Runs
<1>2. \A i \in 1 .. Len(sc.left) : i = 1 \/ 1 < i
  BY <1>1
<1>. QED  BY <1>1, <1>2 DEF Runs, StillLeft, Sorted, ManifestFormed

LEMMA RunsInOrder ==
    ASSUME NEW r, NEW k \in Scripts, NEW sc, NEW m, Runs(r, k, sc, m), ManifestFormed(m)
    PROVE  Orderly(r, m, OrderOf(k))
<1> SUFFICES ASSUME NEW s \in DOMAIN m.aim, NEW t \in DOMAIN m.aim,
                    Precedes(s, t, OrderOf(k)), t \in RecordedIn(m)
             PROVE  s \in DoneBy(m, sc)
  BY DEF Orderly, Runs
<1>1. s \in RenderServices /\ t \in RenderServices
  BY DEF ManifestFormed
<1>2. Rank(k, s) < Rank(k, t)
  BY <1>1, PrecedesIs
<1>3. SUFFICES ASSUME s \in StillLeft(sc) PROVE FALSE
  BY DEF DoneBy
<1>4. s = Head(sc.left) \/ Rank(k, Head(sc.left)) < Rank(k, s)
  BY <1>3, RunsAre
<1>5. t = Head(sc.left) \/ Rank(k, t) < Rank(k, Head(sc.left))
  BY DEF Runs
<1>. QED  BY <1>2, <1>4, <1>5, RankIsNat

-----------------------------------------------------------------------------
(* Nothing that was asked of Render or has run is taken back.               *)
Grows(q, new) ==
    /\ DeployRows(new)
    /\ \A d \in DOMAIN q : /\ d \in DOMAIN new /\ new[d].commit = q[d].commit
                           /\ q[d].status \in {"live", "deactivated"}
                                => new[d].status \in {"live", "deactivated"}

RenderGrows(r, new) ==
    /\ RenderFormed(new)
    /\ \A s \in RenderServices : Grows(r[s], new[s])

LEMMA GrowsByNothing == ASSUME NEW q, DeployRows(q) PROVE Grows(q, q)
BY DEF Grows

LEMMA GrowsByAppend ==
    ASSUME NEW q, DeployRows(q), NEW c, NEW new, new = Append(q, [commit |-> c, status |-> "queued"])
    PROVE  /\ Grows(q, new) /\ Len(q) + 1 \in DOMAIN new
           /\ new[Len(q) + 1].commit = c
<1>1. PICK C : q \in Seq(DeployOf(C))
  BY DEF DeployRows
<1> DEFINE D == DeployOf(C \union {c})
<1>2. q \in Seq(D)
  <2>1. DeployOf(C) \subseteq D
    BY DEF DeployOf
  <2>. QED  BY <1>1, <2>1, SeqMonotonic
<1>3. PICK x \in D : x = [commit |-> c, status |-> "queued"] /\ x.commit = c
  BY DEF DeployOf, DeployStates
<1> HIDE DEF D
<1>4. /\ new \in Seq(D) /\ Len(q) \in Nat
      /\ Len(new) = Len(q) + 1 /\ DOMAIN new = 1 .. Len(q) + 1 /\ DOMAIN q = 1 .. Len(q)
      /\ new[Len(q) + 1] = x /\ \A d \in 1 .. Len(q) : new[d] = q[d]
  BY <1>2, <1>3, AppendProperties
<1>5. DeployRows(new)
  BY <1>4 DEF DeployRows, D
<1>6. Grows(q, new)
  BY <1>4, <1>5 DEF Grows
<1>. QED  BY <1>3, <1>4, <1>6

LEMMA GrowsByStatus ==
    ASSUME NEW q, DeployRows(q), NEW st \in [DOMAIN q -> DeployStates],
           \A d \in DOMAIN q : q[d].status \in {"live", "deactivated"}
                => st[d] \in {"live", "deactivated"},
           NEW new, new = [d \in DOMAIN q |-> WithStatus(q[d], st[d])]
    PROVE  Grows(q, new)
<1>1. PICK C : q \in Seq(DeployOf(C))
  BY DEF DeployRows
<1>2. DOMAIN q = 1 .. Len(q) /\ Len(q) \in Nat /\ \A d \in DOMAIN q : q[d] \in DeployOf(C)
  BY <1>1
<1>3. \A d \in DOMAIN q : /\ new[d] \in DeployOf(C)
                          /\ new[d].commit = q[d].commit /\ new[d].status = st[d]
  <2> SUFFICES ASSUME NEW d \in DOMAIN q
               PROVE  /\ new[d] \in DeployOf(C)
                      /\ new[d].commit = q[d].commit /\ new[d].status = st[d]
    OBVIOUS
  <2>1. PICK row \in DeployOf(C), x \in DeployStates : row = q[d] /\ x = st[d]
    BY <1>2
  <2>2. new[d] = [row EXCEPT !.status = x]
    BY <2>1 DEF WithStatus
  <2>. QED  BY ONLY <2>1, <2>2 DEF DeployOf
<1>4. new \in Seq(DeployOf(C))
  <2>1. new \in [1 .. Len(q) -> DeployOf(C)]
    BY <1>2, <1>3
  <2>. QED  BY <1>2, <2>1
<1>. QED  BY <1>3, <1>4 DEF Grows, DeployRows

(* What has run has run for good.                                          *)
LEMMA RanStays ==
    ASSUME NEW r, NEW new, RenderGrows(r, new), NEW s \in RenderServices, NEW d, NEW c, Ran(r, s, d, c)
    PROVE  Ran(new, s, d, c)
BY DEF RenderGrows, Grows, Ran

LEMMA OrderStays ==
    ASSUME NEW r, NEW new, RenderGrows(r, new), NEW m, ManifestFormed(m), NEW order, Orderly(r, m, order)
    PROVE  Orderly(new, m, order)
BY RanStays DEF Orderly, ManifestFormed

LEMMA RunsGoOn ==
    ASSUME NEW r, NEW new, RenderGrows(r, new), NEW k \in Scripts, NEW sc, NEW m,
           ManifestFormed(m), Runs(r, k, sc, m)
    PROVE  Runs(new, k, sc, m)
<1>1. Head(sc.left) \in RenderServices /\ \A s \in DoneBy(m, sc) : s \in RenderServices
  BY RunsAre DEF DoneBy
<1>2. \A s \in DoneBy(m, sc) : Ran(new, s, m.services[s].deploy, m.aim[s])
  BY <1>1, RanStays DEF Runs
<1>3. sc.at = "wait" => /\ sc.deploy \in DOMAIN new[Head(sc.left)]
                        /\ new[Head(sc.left)][sc.deploy].commit = m.aim[Head(sc.left)]
  BY <1>1 DEF Runs, RenderGrows, Grows
<1>. QED  BY <1>2, <1>3 DEF Runs
-----------------------------------------------------------------------------
(* A step of one script, whatever Render does at the same time.             *)
LEMMA ScriptStep ==
    ASSUME ReleasesInv, NEW k \in Scripts, RenderGrows(render, render'),
           NEW sc, NEW m, ScriptFormed(sc), ManifestFormed(m),
           script' = [script EXCEPT ![k] = sc], manifest' = [manifest EXCEPT ![k] = m],
           sc = NoScript \/ Runs(render', k, sc, m),
           Orderly(render', m, OrderOf(k)),
           artifacts' = artifacts \/ (k = "deploy" /\ artifacts' = artifacts \union {m})
    PROVE  ReleasesInv'
<1>1. script' = [j \in Scripts |-> script'[j]] /\ manifest' = [j \in Scripts |-> manifest'[j]]
  BY DEF ReleasesInv
<1>2. script'[k] = sc /\ manifest'[k] = m
  BY DEF ReleasesInv
<1>3. ASSUME NEW j \in Scripts
      PROVE  /\ ScriptFormed(script'[j]) /\ ManifestFormed(manifest'[j])
             /\ script'[j] = NoScript \/ Runs(render', j, script'[j], manifest'[j])
             /\ Orderly(render', manifest'[j], OrderOf(j))
  <2>1. CASE j = k
    BY <1>2, <2>1
  <2>2. CASE j # k
    <3>1. script'[j] = script[j] /\ manifest'[j] = manifest[j]
      BY <2>2 DEF ReleasesInv
    <3>2. /\ ScriptFormed(script[j]) /\ ManifestFormed(manifest[j])
          /\ script[j] = NoScript \/ Runs(render, j, script[j], manifest[j])
          /\ Orderly(render, manifest[j], OrderOf(j))
      BY DEF ReleasesInv
    <3>3. Orderly(render', manifest[j], OrderOf(j))
      BY <3>2, OrderStays
    <3>4. script[j] = NoScript \/ Runs(render', j, script[j], manifest[j])
      BY <3>2, RunsGoOn
    <3>. QED  BY <3>1, <3>2, <3>3, <3>4
  <2>. QED  BY <2>1, <2>2
<1>4. ASSUME NEW a \in artifacts' PROVE ManifestFormed(a) /\ Orderly(render', a, ReleaseOrder)
  <2>1. CASE a \in artifacts
    <3>1. ManifestFormed(a) /\ Orderly(render, a, ReleaseOrder)
      BY <2>1 DEF ReleasesInv
    <3>. QED  BY <3>1, OrderStays
  <2>2. CASE a = m /\ k = "deploy"
    BY <2>2 DEF OrderOf
  <2>. QED  BY <2>1, <2>2
<1>5. RenderFormed(render')
  BY DEF RenderGrows
<1>. QED  BY <1>1, <1>3, <1>4, <1>5 DEF ReleasesInv

(* A script runs when it is at one of its steps.                           *)
LEMMA ScriptRuns ==
    ASSUME ReleasesInv, NEW k \in Scripts, script[k] # NoScript
    PROVE  /\ Runs(render, k, script[k], manifest[k])
           /\ ScriptFormed(script[k]) /\ ManifestFormed(manifest[k])
           /\ Service(k) \in RenderServices /\ Service(k) = Head(script[k].left)
           /\ RenderFormed(render) /\ DeployRows(render[Service(k)])
<1>1. /\ Runs(render, k, script[k], manifest[k])
      /\ ScriptFormed(script[k]) /\ ManifestFormed(manifest[k]) /\ RenderFormed(render)
  BY DEF ReleasesInv
<1>2. Head(script[k].left) \in RenderServices
  BY <1>1, RunsAre
<1>. QED  BY <1>1, <1>2 DEF Service, RenderFormed

LEMMA AtSomeStep == NoScript.at = "none"
BY DEF NoScript

LEMMA UnchangedGrows == ASSUME ReleasesInv, UNCHANGED render PROVE RenderGrows(render, render')
BY GrowsByNothing DEF ReleasesInv, RenderGrows, RenderFormed

LEMMA QueueGrows ==
    ASSUME ReleasesInv, NEW s \in RenderServices, NEW c, QueueDeploy(s, c)
    PROVE  /\ RenderGrows(render, render')
           /\ Len(render[s]) + 1 \in DOMAIN render'[s] /\ render'[s][Len(render[s]) + 1].commit = c
<1>1. RenderFormed(render)
  BY DEF ReleasesInv
<1>2. /\ render'[s] = Append(render[s], [commit |-> c, status |-> "queued"])
      /\ \A t \in RenderServices : t # s => render'[t] = render[t]
      /\ render' = [t \in RenderServices |-> render'[t]]
  BY <1>1 DEF RenderFormed, QueueDeploy, Queued
<1>3. /\ Grows(render[s], render'[s])
      /\ Len(render[s]) + 1 \in DOMAIN render'[s] /\ render'[s][Len(render[s]) + 1].commit = c
  <2>1. DeployRows(render[s])
    BY <1>1 DEF RenderFormed
  <2>. QED  BY <1>2, <2>1, GrowsByAppend
<1>4. \A t \in RenderServices : Grows(render[t], render'[t])
  BY <1>1, <1>2, <1>3, GrowsByNothing DEF RenderFormed
<1>. QED  BY <1>2, <1>3, <1>4 DEF RenderGrows, RenderFormed, Grows

-----------------------------------------------------------------------------
(* The scripts.                                                            *)

LEMMA WaitIs ==
    ASSUME ReleasesInv, NEW k \in Scripts, NEW x,
           script' = [script EXCEPT ![k].at = "wait", ![k].deploy = x],
           NEW sc, sc = [at |-> "wait", left |-> script[k].left, previous |-> script[k].previous, deploy |-> x]
    PROVE  script' = [script EXCEPT ![k] = sc] /\ ScriptFormed(sc)
<1>1. script = [j \in Scripts |-> script[j]] /\ ScriptFormed(script[k])
  BY DEF ReleasesInv
<1>2. DOMAIN script'[k] = {"at", "left", "previous", "deploy"}
  BY <1>1 DEF ScriptFormed
<1>3. /\ script'[k].at = "wait" /\ script'[k].left = script[k].left
      /\ script'[k].previous = script[k].previous /\ script'[k].deploy = x
  BY <1>1 DEF ScriptFormed
<1>4. script'[k] = [f \in {"at", "left", "previous", "deploy"} |-> script'[k][f]]
  BY <1>1 DEF ScriptFormed
<1>5. script'[k] = sc
  BY ONLY <1>2, <1>3, <1>4, sc = [at |-> "wait", left |-> script[k].left, previous |-> script[k].previous, deploy |-> x]
<1>6. \A j \in Scripts : j # k => script'[j] = script[j]
  BY <1>1
<1>7. script' = [script EXCEPT ![k] = sc]
  BY <1>1, <1>5, <1>6
<1>. QED  BY <1>7 DEF ScriptFormed

LEMMA AtIs ==
    ASSUME ReleasesInv, NEW k \in Scripts, 
           script' = [script EXCEPT ![k].at = "discover"],
           NEW sc, sc = [at |-> "discover", left |-> script[k].left, previous |-> script[k].previous, deploy |-> script[k].deploy]
    PROVE  script' = [script EXCEPT ![k] = sc] /\ ScriptFormed(sc)
<1>1. script = [j \in Scripts |-> script[j]] /\ ScriptFormed(script[k])
  BY DEF ReleasesInv
<1>2. DOMAIN script'[k] = {"at", "left", "previous", "deploy"}
  BY <1>1 DEF ScriptFormed
<1>3. /\ script'[k].at = "discover" /\ script'[k].left = script[k].left
      /\ script'[k].previous = script[k].previous /\ script'[k].deploy = script[k].deploy
  BY <1>1 DEF ScriptFormed
<1>4. script'[k] = [f \in {"at", "left", "previous", "deploy"} |-> script'[k][f]]
  BY <1>1 DEF ScriptFormed
<1>5. script'[k] = sc
  BY ONLY <1>2, <1>3, <1>4, sc = [at |-> "discover", left |-> script[k].left, previous |-> script[k].previous, deploy |-> script[k].deploy]
<1>6. \A j \in Scripts : j # k => script'[j] = script[j]
  BY <1>1
<1>7. script' = [script EXCEPT ![k] = sc]
  BY <1>1, <1>5, <1>6
<1>. QED  BY <1>7 DEF ScriptFormed

LEMMA LeftIs ==
    ASSUME ReleasesInv, NEW k \in Scripts, NEW at,
           script' = [script EXCEPT ![k].left = Tail(@), ![k].at = at],
           NEW sc, sc = [at |-> at, left |-> Tail(script[k].left), previous |-> script[k].previous,
                         deploy |-> script[k].deploy]
    PROVE  script' = [script EXCEPT ![k] = sc] /\ ScriptFormed(sc)
<1>1. script = [j \in Scripts |-> script[j]] /\ ScriptFormed(script[k])
  BY DEF ReleasesInv
<1>2. DOMAIN script'[k] = {"at", "left", "previous", "deploy"}
  BY <1>1 DEF ScriptFormed
<1>3. /\ script'[k].at = at /\ script'[k].left = Tail(script[k].left)
      /\ script'[k].previous = script[k].previous /\ script'[k].deploy = script[k].deploy
  BY <1>1 DEF ScriptFormed
<1>4. script'[k] = [f \in {"at", "left", "previous", "deploy"} |-> script'[k][f]]
  BY <1>1 DEF ScriptFormed
<1>5. script'[k] = sc
  BY ONLY <1>2, <1>3, <1>4, sc = [at |-> at, left |-> Tail(script[k].left), previous |-> script[k].previous,
                                  deploy |-> script[k].deploy]
<1>6. \A j \in Scripts : j # k => script'[j] = script[j]
  BY <1>1
<1>7. script' = [script EXCEPT ![k] = sc]
  BY <1>1, <1>5, <1>6
<1>. QED  BY <1>7 DEF ScriptFormed

LEMMA ManifestIs ==
    ASSUME ReleasesInv, NEW k \in Scripts, NEW services,
           manifest' = [manifest EXCEPT ![k].services = services],
           NEW m, m = [status |-> manifest[k].status, aim |-> manifest[k].aim, services |-> services]
    PROVE  manifest' = [manifest EXCEPT ![k] = m]
<1>1. manifest = [j \in Scripts |-> manifest[j]] /\ ManifestFormed(manifest[k])
  BY DEF ReleasesInv
<1>2. DOMAIN manifest'[k] = {"status", "aim", "services"}
  BY <1>1 DEF ManifestFormed
<1>3. /\ manifest'[k].status = m.status /\ manifest'[k].aim = m.aim
      /\ manifest'[k].services = services
  BY <1>1 DEF ManifestFormed
<1>4. manifest'[k] = [f \in {"status", "aim", "services"} |-> manifest'[k][f]]
  BY <1>1 DEF ManifestFormed
<1>5. manifest'[k] = m
  BY ONLY <1>2, <1>3, <1>4,
          m = [status |-> manifest[k].status, aim |-> manifest[k].aim, services |-> services]
<1>6. \A j \in Scripts : j # k => manifest'[j] = manifest[j]
  BY <1>1
<1>. QED  BY <1>1, <1>5, <1>6

LEMMA Unmoved == ASSUME ReleasesInv, NEW k \in Scripts PROVE manifest = [manifest EXCEPT ![k] = manifest[k]]
BY DEF ReleasesInv

LEMMA TailOf ==
    ASSUME NEW S, NEW q \in Seq(S), Len(q) # 1, q # <<>>
    PROVE  \E n \in Nat, rest \in Seq(S) :
              /\ n = Len(q) /\ n > 1 /\ rest = Tail(q) /\ Len(rest) = n - 1 /\ rest # <<>>
              /\ Head(rest) = q[2] /\ Head(q) = q[1]
              /\ \A i \in 1 .. n - 1 : rest[i] = q[i + 1]
<1>1. Len(q) \in Nat /\ Len(q) > 1
  <2>1. PICK n \in Nat : n = Len(q) /\ n # 0 /\ n # 1
    BY LenProperties, EmptySeq
  <2>2. n > 1
    BY ONLY <2>1
  <2>. QED  BY <2>1, <2>2
<1>2. Tail(q) \in Seq(S) /\ Len(Tail(q)) = Len(q) - 1 /\ \A i \in 1 .. Len(q) - 1 : Tail(q)[i] = q[i + 1]
  BY <1>1
<1>3. Tail(q) # <<>> /\ 1 \in 1 .. Len(q) - 1 /\ Tail(q)[1] = q[2] /\ Head(q) = q[1]
  <2>1. Len(Tail(q)) # 0 /\ 1 \in 1 .. Len(q) - 1
    BY <1>1, <1>2
  <2>2. Tail(q) # <<>>
    BY <2>1, EmptySeq
  <2>. QED  BY <1>1, <1>2, <2>1, <2>2, HeadTailProperties
<1>4. Head(Tail(q)) = q[2]
  BY <1>2, <1>3
<1>. QED  BY <1>1, <1>2, <1>3, <1>4

(* A script goes on without having found a deploy.                         *)
LEMMA GoesOn ==
    ASSUME ReleasesInv, NEW k \in Scripts, RenderGrows(render, render'), script[k] # NoScript,
           script[k].at # "wait", NEW sc, ScriptFormed(sc), sc.at # "wait", sc.left = script[k].left,
           script' = [script EXCEPT ![k] = sc], UNCHANGED <<manifest, artifacts>>
    PROVE  ReleasesInv'
<1> DEFINE m == manifest[k]
<1>1. /\ Runs(render, k, script[k], m) /\ ScriptFormed(script[k]) /\ ManifestFormed(m)
  BY ScriptRuns
<1>2. manifest' = [manifest EXCEPT ![k] = m]
  BY Unmoved
<1>3. Runs(render, k, sc, m)
  BY <1>1 DEF Runs, StillLeft, DoneBy
<1>4. Runs(render', k, sc, m) /\ Orderly(render', m, OrderOf(k))
  BY <1>1, <1>3, RunsGoOn, RunsInOrder
<1> HIDE DEF m
<1>. QED  BY <1>1, <1>2, <1>4, ScriptStep DEF m

(* A script ends without having done everything.                           *)
LEMMA EndsEarly ==
    ASSUME ReleasesInv, NEW k \in Scripts, RenderGrows(render, render'),
           NEW status, status # "live", Ends(k, status)
    PROVE  ReleasesInv'
<1> DEFINE old == manifest[k]
           m == [old EXCEPT !.status = status]
<1>1. ManifestFormed(old) /\ Orderly(render, old, OrderOf(k))
  BY DEF ReleasesInv
<1>2. m = [status |-> status, aim |-> old.aim, services |-> old.services]
  BY <1>1 DEF ManifestFormed
<1>3. ManifestFormed(m) /\ RecordedIn(m) = RecordedIn(old) /\ m.status # "live"
  BY <1>1, <1>2 DEF ManifestFormed, RecordedIn
<1>4. Orderly(render', old, OrderOf(k))
  BY <1>1, OrderStays
<1>5. Orderly(render', m, OrderOf(k))
  BY <1>2, <1>3, <1>4 DEF Orderly
<1>6. ScriptFormed(NoScript)
  BY DEF ScriptFormed, NoScript
<1>7. /\ script' = [script EXCEPT ![k] = NoScript] /\ manifest' = [manifest EXCEPT ![k] = m]
      /\ artifacts' = artifacts \/ (k = "deploy" /\ artifacts' = artifacts \union {m})
  BY DEF Ends
<1> HIDE DEF m
<1>. QED  BY <1>3, <1>5, <1>6, <1>7, ScriptStep

(* The manifest tells of a deploy at the commit the run wants.             *)
LEMMA Finds ==
    ASSUME ReleasesInv, NEW k \in Scripts, RenderGrows(render, render'), script[k] # NoScript,
           script[k].at # "wait", NEW d, d \in DOMAIN render'[Service(k)],
           render'[Service(k)][d].commit = Aim(k), FoundDeploy(k, d)
    PROVE  ReleasesInv'
<1> DEFINE old == manifest[k]
           s == Head(script[k].left)
           sc == [at |-> "wait", left |-> script[k].left, previous |-> script[k].previous, deploy |-> d]
           services == [old.services EXCEPT ![s] = [deploy |-> d, previous |-> script[k].previous]]
           m == [status |-> old.status, aim |-> old.aim, services |-> services]
<1>1. /\ Runs(render, k, script[k], old) /\ ScriptFormed(script[k]) /\ ManifestFormed(old)
      /\ s \in RenderServices /\ Service(k) = s
  BY ScriptRuns
<1>2. /\ script' = [script EXCEPT ![k] = sc]
      /\ manifest' = [manifest EXCEPT ![k] = m] /\ artifacts' = artifacts
  <2>1. script' = [script EXCEPT ![k].at = "wait", ![k].deploy = d] /\ artifacts' = artifacts
    BY DEF FoundDeploy
  <2>2. script' = [script EXCEPT ![k] = sc]
    <3>1. PICK c : c = [at |-> "wait", left |-> script[k].left, previous |-> script[k].previous, deploy |-> d]
      OBVIOUS
    <3>2. script' = [script EXCEPT ![k] = c]
      BY ONLY ReleasesInv, k \in Scripts, <2>1, <3>1, WaitIs
    <3>. QED  BY <3>1, <3>2
  <2>3. manifest' = [manifest EXCEPT ![k].services[s] = [deploy |-> d, previous |-> script[k].previous]]
    BY <1>1 DEF FoundDeploy
  <2>4. PICK new : new = services
    OBVIOUS
  <2>5. PICK om : om = [status |-> manifest[k].status, aim |-> manifest[k].aim, services |-> new]
    OBVIOUS
  <2>6. manifest' = [manifest EXCEPT ![k].services = new]
    BY <1>1, <2>3, <2>4
  <2>7. manifest' = [manifest EXCEPT ![k] = om]
    BY ONLY ReleasesInv, k \in Scripts, <2>5, <2>6, ManifestIs
  <2>8. om = m
    BY <2>4, <2>5
  <2>. QED  BY <2>1, <2>2, <2>7, <2>8
<1>3. /\ \A t \in RenderServices : t # s => m.services[t] = old.services[t]
      /\ m.services[s].deploy = d
      /\ m.services = [t \in RenderServices |-> m.services[t]]
  BY <1>1 DEF ManifestFormed
<1>4. ManifestFormed(m)
  BY <1>1, <1>3 DEF ManifestFormed
<1>5. \A t \in RecordedIn(m) : t \in RecordedIn(old) \/ t = s
  BY <1>3 DEF RecordedIn
<1>6. Runs(render', k, script[k], old)
  BY <1>1, RunsGoOn
<1>7. s \in StillLeft(script[k]) /\ \A t \in DoneBy(old, script[k]) : t \in RenderServices /\ t # s
  BY <1>1, RunsAre DEF DoneBy
<1>8. DoneBy(m, sc) = DoneBy(old, script[k]) /\ StillLeft(sc) = StillLeft(script[k])
  BY DEF DoneBy, StillLeft
<1>9. \A t \in DoneBy(m, sc) : /\ Rank(k, t) < Rank(k, s)
                               /\ Ran(render', t, m.services[t].deploy, m.aim[t])
  BY <1>3, <1>6, <1>7, <1>8 DEF Runs
<1>10. \A t \in RecordedIn(m) : t \in DoneBy(m, sc) \/ t = s
  BY <1>5, <1>6, <1>8 DEF Runs
<1>11. d \in DOMAIN render'[s] /\ render'[s][d].commit = m.aim[s]
  BY <1>1 DEF Aim
<1>12. Runs(render', k, sc, m)
  BY <1>3, <1>6, <1>8, <1>9, <1>10, <1>11 DEF Runs
<1>13. ScriptFormed(sc)
  BY DEF ScriptFormed
<1>14. Orderly(render', m, OrderOf(k))
  BY <1>4, <1>12, RunsInOrder
<1> HIDE DEF sc, m
<1>. QED  BY <1>2, <1>4, <1>12, <1>13, <1>14, ScriptStep

(* The service the script waits for is live: one more is done.             *)
LEMMA OneMore ==
    ASSUME ReleasesInv, NEW k \in Scripts, script[k].at = "wait", SeenLive(k)
    PROVE  /\ Runs(render, k, script[k], manifest[k])
           /\ \A s \in DoneBy(manifest[k], script[k]) \union {Service(k)} :
                Ran(render, s, manifest[k].services[s].deploy, manifest[k].aim[s])
           /\ \A s \in RecordedIn(manifest[k]) : s \in DoneBy(manifest[k], script[k]) \union {Service(k)}
<1>1. script[k] # NoScript
  BY AtSomeStep
<1>2. Runs(render, k, script[k], manifest[k]) /\ Service(k) = Head(script[k].left)
  BY <1>1, ScriptRuns
<1>3. Ran(render, Service(k), manifest[k].services[Service(k)].deploy, manifest[k].aim[Service(k)])
  BY <1>2 DEF Runs, Ran, SeenLive, DeployStatus
<1>. QED  BY <1>2, <1>3 DEF Runs

LEMMA GoesToNext ==
    ASSUME ReleasesInv, NEW k \in Scripts, script[k].at = "wait", SeenLive(k), Len(script[k].left) # 1,
           NEW at, at # "wait",
           script' = [script EXCEPT ![k].left = Tail(@), ![k].at = at],
           UNCHANGED <<render, manifest, artifacts>>
    PROVE  ReleasesInv'
<1> DEFINE old == script[k]
           m == manifest[k]
           sc == [at |-> at, left |-> Tail(old.left), previous |-> old.previous, deploy |-> old.deploy]
<1>1. script[k] # NoScript /\ ScriptFormed(old) /\ ManifestFormed(m)
  BY AtSomeStep DEF ReleasesInv
<1>2. /\ Runs(render, k, old, m)
      /\ \A s \in DoneBy(m, old) \union {Head(old.left)} : Ran(render, s, m.services[s].deploy, m.aim[s])
      /\ \A s \in RecordedIn(m) : s \in DoneBy(m, old) \union {Head(old.left)}
  BY OneMore DEF Service
<1>01. PICK left \in Seq(RenderServices) : left = old.left /\ left # <<>> /\ Len(left) # 1
  BY <1>2 DEF Runs
<1>02. PICK n \in Nat, rest \in Seq(RenderServices) :
              /\ n = Len(left) /\ n > 1 /\ rest = Tail(left) /\ Len(rest) = n - 1 /\ rest # <<>>
              /\ Head(rest) = left[2] /\ Head(left) = left[1]
              /\ \A i \in 1 .. n - 1 : rest[i] = left[i + 1]
  BY ONLY <1>01, TailOf
<1>3. left = old.left /\ n = Len(left) /\ n > 1
  BY <1>01, <1>02
<1>4. /\ rest = Tail(left) /\ Len(rest) = n - 1 /\ rest # <<>> /\ Head(rest) = left[2]
      /\ \A i \in 1 .. n - 1 : rest[i] = left[i + 1]
      /\ Head(left) = left[1]
  BY <1>02
<1>5. /\ script' = [script EXCEPT ![k] = sc] /\ manifest' = [manifest EXCEPT ![k] = m]
      /\ sc.left = rest /\ sc.at = at /\ ScriptFormed(sc)
  <2>1. script' = [script EXCEPT ![k] = sc] /\ ScriptFormed(sc)
    BY LeftIs
  <2>. QED  BY <1>3, <1>4, <2>1, Unmoved
<1>6. Sorted(k, left) /\ StillLeft(old) = {left[i] : i \in 1 .. n} /\ StillLeft(old) \subseteq DOMAIN m.aim
  BY <1>2, <1>3 DEF Runs, StillLeft
<1>7. Sorted(k, rest)
  <2> SUFFICES ASSUME NEW i \in 1 .. n - 1, NEW j \in 1 .. n - 1, i < j
               PROVE  Rank(k, rest[i]) < Rank(k, rest[j])
    BY <1>4 DEF Sorted
  <2>1. i + 1 \in 1 .. n /\ j + 1 \in 1 .. n /\ i + 1 < j + 1
    BY <1>3
  <2>. QED  BY <1>3, <1>4, <1>6, <2>1 DEF Sorted
<1>8. StillLeft(sc) = {rest[i] : i \in 1 .. n - 1}
  BY <1>4, <1>5 DEF StillLeft
<1>9. StillLeft(sc) \subseteq StillLeft(old) /\ \A s \in StillLeft(old) : s = Head(left) \/ s \in StillLeft(sc)
  <2>1. \A i \in 1 .. n - 1 : i + 1 \in 1 .. n
    BY <1>3
  <2>2. \A i \in 1 .. n : i = 1 \/ (i - 1 \in 1 .. n - 1 /\ (i - 1) + 1 = i)
    BY <1>3
  <2>3. ASSUME NEW s \in StillLeft(sc) PROVE s \in StillLeft(old)
    <3>1. PICK i \in 1 .. n - 1 : s = rest[i]
      BY <1>8
    <3>2. s = left[i + 1] /\ i + 1 \in 1 .. n
      BY <1>4, <2>1, <3>1
    <3>. QED  BY <1>6, <3>2
  <2>4. ASSUME NEW s \in StillLeft(old) PROVE s = Head(left) \/ s \in StillLeft(sc)
    <3>1. PICK i \in 1 .. n : s = left[i]
      BY <1>6
    <3>2. CASE i - 1 \in 1 .. n - 1 /\ (i - 1) + 1 = i
      <4>1. rest[i - 1] = left[i]
        BY <1>4, <3>2
      <4>. QED  BY <1>8, <3>1, <3>2, <4>1
    <3>. QED  BY <1>4, <2>2, <3>1, <3>2
  <2>. QED  BY <2>3, <2>4
<1>10. \A s \in DoneBy(m, sc) : s \in DoneBy(m, old) \union {Head(left)}
  BY <1>9 DEF DoneBy
<1>11. Head(left) \notin StillLeft(sc)
  <2>1. \A i \in 1 .. n - 1 : i + 1 \in 1 .. n /\ 1 < i + 1 /\ 1 \in 1 .. n
    BY <1>3
  <2>2. \A i \in 1 .. n - 1 : Rank(k, left[1]) < Rank(k, rest[i])
    BY <1>3, <1>4, <1>6, <2>1 DEF Sorted
  <2>3. ASSUME Head(left) \in StillLeft(sc) PROVE FALSE
    <3>1. PICK i \in 1 .. n - 1 : left[1] = rest[i]
      BY <1>4, <1>8, <2>3
    <3>2. Rank(k, left[1]) < Rank(k, left[1]) /\ Rank(k, left[1]) \in Nat
      BY <2>2, <3>1, RankIsNat
    <3>. QED  BY <3>2
  <2>. QED  BY <2>3
<1>12. \A s \in DoneBy(m, old) \union {Head(left)} : s \in DOMAIN m.aim => s \in DoneBy(m, sc)
  BY <1>9, <1>11 DEF DoneBy
<1>13. Rank(k, Head(left)) < Rank(k, Head(rest))
  <2>1. 1 \in 1 .. n /\ 2 \in 1 .. n /\ 1 < 2
    BY <1>3
  <2>. QED  BY <1>3, <1>4, <1>6, <2>1 DEF Sorted
<1>14. \A s \in DoneBy(m, sc) : /\ Rank(k, s) < Rank(k, Head(rest))
                                /\ Ran(render, s, m.services[s].deploy, m.aim[s])
  <2>1. \A s \in DoneBy(m, old) : Rank(k, s) < Rank(k, Head(left))
    BY <1>2, <1>3 DEF Runs
  <2>2. \A s \in DoneBy(m, old) \union {Head(left)} : Rank(k, s) < Rank(k, Head(rest))
    <3> SUFFICES ASSUME NEW s \in DoneBy(m, old) PROVE Rank(k, s) < Rank(k, Head(rest))
      BY <1>13
    <3>1. Rank(k, s) < Rank(k, Head(left))
      BY <2>1
    <3>2. Rank(k, s) \in Nat /\ Rank(k, Head(left)) \in Nat /\ Rank(k, Head(rest)) \in Nat
      BY RankIsNat
    <3>. QED  BY <1>13, <3>1, <3>2
  <2>. QED  BY <1>2, <1>3, <1>10, <2>2
<1>15. \A s \in RecordedIn(m) : s \in DoneBy(m, sc)
  <2>1. Head(left) \in DOMAIN m.aim /\ DoneBy(m, old) \subseteq DOMAIN m.aim
    BY <1>1, <1>2, <1>3, RunsAre DEF DoneBy
  <2>. QED  BY <1>2, <1>3, <1>12, <2>1
<1>16. m.status = "running"
  BY <1>2 DEF Runs
<1>17. Runs(render, k, sc, m)
  BY <1>4, <1>5, <1>6, <1>7, <1>9, <1>14, <1>15, <1>16 DEF Runs
<1>18. Orderly(render, m, OrderOf(k)) /\ RenderGrows(render, render')
  BY <1>1, <1>17, RunsInOrder, UnchangedGrows
<1> HIDE DEF sc, m
<1>. QED  BY <1>1, <1>5, <1>17, <1>18, ScriptStep

LEMMA EndsWell ==
    ASSUME ReleasesInv, NEW k \in Scripts, script[k].at = "wait", SeenLive(k), Len(script[k].left) = 1,
           Ends(k, "live"), UNCHANGED render
    PROVE  ReleasesInv'
<1> DEFINE old == manifest[k]
           m == [old EXCEPT !.status = "live"]
<1>1. ManifestFormed(old)
  BY DEF ReleasesInv
<1>2. m = [status |-> "live", aim |-> old.aim, services |-> old.services]
  BY <1>1 DEF ManifestFormed
<1>3. /\ Runs(render, k, script[k], old)
      /\ \A s \in DoneBy(old, script[k]) \union {Service(k)} :
           Ran(render, s, old.services[s].deploy, old.aim[s])
  BY OneMore
<1>4. StillLeft(script[k]) = {Service(k)}
  <2>1. Head(script[k].left) = script[k].left[1] /\ 1 .. 1 = {1}
    BY <1>1, <1>3, RunsAre
  <2>. QED  BY <2>1 DEF StillLeft, Service
<1>5. \A s \in DOMAIN old.aim : Ran(render, s, old.services[s].deploy, old.aim[s])
  BY <1>3, <1>4 DEF DoneBy
<1>6. ManifestFormed(m) /\ Orderly(render, m, OrderOf(k))
  BY <1>1, <1>2, <1>5 DEF ManifestFormed, Orderly
<1>7. ScriptFormed(NoScript) /\ RenderGrows(render, render')
  BY UnchangedGrows DEF ScriptFormed, NoScript
<1>8. /\ script' = [script EXCEPT ![k] = NoScript] /\ manifest' = [manifest EXCEPT ![k] = m]
      /\ artifacts' = artifacts \/ (k = "deploy" /\ artifacts' = artifacts \union {m})
  BY DEF Ends
<1> HIDE DEF m
<1>. QED  BY <1>6, <1>7, <1>8, ScriptStep

-----------------------------------------------------------------------------
(* The start of a script.                                                  *)
LEMMA FreshScript ==
    ASSUME NEW at, NEW order, NEW new, new = [NoScript EXCEPT !.left = order, !.at = at]
    PROVE  new = [at |-> at, left |-> order, previous |-> 0, deploy |-> 0]
<1>1. DOMAIN new = {"at", "left", "previous", "deploy"}
  BY DEF NoScript
<1>2. new.at = at /\ new.left = order /\ new.previous = 0 /\ new.deploy = 0
  BY DEF NoScript
<1>3. new = [f \in {"at", "left", "previous", "deploy"} |-> new[f]]
  BY DEF NoScript
<1>. QED  BY ONLY <1>1, <1>2, <1>3

LEMMA StartsWell ==
    ASSUME ReleasesInv, NEW k \in Scripts, NEW order \in Seq(RenderServices), order # <<>>, NEW aim,
           Starts(k, order, aim), DOMAIN aim = {order[i] : i \in 1 .. Len(order)}, Sorted(k, order)
    PROVE  ReleasesInv'
<1> DEFINE at == IF k = "deploy" THEN "previous" ELSE "trigger"
           sc == [at |-> at, left |-> order, previous |-> 0, deploy |-> 0]
           m == NewManifest(aim)
<1>1. script' = [script EXCEPT ![k] = sc] /\ manifest' = [manifest EXCEPT ![k] = m]
  BY FreshScript DEF Starts
<1>2. /\ m = [status |-> "running", aim |-> aim, services |-> [s \in RenderServices |-> NoRecord]]
      /\ DOMAIN aim \subseteq RenderServices /\ RecordedIn(m) = {}
  <2>1. \A i \in 1 .. Len(order) : order[i] \in RenderServices
    OBVIOUS
  <2>. QED  BY <2>1 DEF NewManifest, RecordedIn
<1>3. ScriptFormed(sc) /\ ManifestFormed(m)
  BY <1>2 DEF ScriptFormed, ManifestFormed
<1>4. StillLeft(sc) = DOMAIN m.aim /\ DoneBy(m, sc) = {}
  BY <1>2 DEF StillLeft, DoneBy
<1>5. sc.at # "wait" /\ sc.left = order /\ m.status = "running"
  BY <1>2
<1>6. RenderGrows(render, render') /\ artifacts' = artifacts
  BY UnchangedGrows DEF Starts
<1> HIDE DEF sc, m
<1>7. Runs(render', k, sc, m)
  BY <1>2, <1>4, <1>5 DEF Runs
<1>8. Orderly(render', m, OrderOf(k))
  BY <1>3, <1>7, RunsInOrder
<1>. QED  BY <1>1, <1>3, <1>6, <1>7, <1>8, ScriptStep

LEMMA DeployStarts == ASSUME ReleasesInv, deployRelease PROVE ReleasesInv'
<1>1. PICK commit : Starts("deploy", ReleaseOrder, [s \in RenderServices |-> commit])
  BY DEF deployRelease
<1>2. /\ ReleaseOrder \in Seq(RenderServices) /\ ReleaseOrder # <<>> /\ Len(ReleaseOrder) = 3
      /\ ReleaseOrder[1] = "api" /\ ReleaseOrder[2] = "worker" /\ ReleaseOrder[3] = "web"
  BY DEF ReleaseOrder, RenderServices
<1>3. 1 .. 3 = {1, 2, 3}
  OBVIOUS
<1>4. RenderServices = {ReleaseOrder[i] : i \in 1 .. Len(ReleaseOrder)}
  BY <1>2, <1>3 DEF RenderServices
<1>5. Sorted("deploy", ReleaseOrder)
  BY <1>2, <1>3 DEF Sorted, Rank
<1>6. "deploy" \in Scripts
  BY DEF Scripts
<1>7. DOMAIN [s \in RenderServices |-> commit] = {ReleaseOrder[i] : i \in 1 .. Len(ReleaseOrder)}
  BY <1>4
<1>8. PICK aim : aim = [s \in RenderServices |-> commit]
  OBVIOUS
<1>. QED  BY <1>1, <1>2, <1>5, <1>6, <1>7, <1>8, StartsWell

Els(q) == {q[i] : i \in 1 .. Len(q)}

LEMMA ConcatSorted ==
    ASSUME NEW k \in Scripts, NEW p \in Seq(RenderServices), NEW q \in Seq(RenderServices),
           Sorted(k, p), Sorted(k, q), \A x \in Els(p), y \in Els(q) : Rank(k, x) < Rank(k, y)
    PROVE  /\ p \o q \in Seq(RenderServices) /\ Sorted(k, p \o q)
           /\ Els(p \o q) = Els(p) \union Els(q)
<1>01. PICK pq \in Seq(RenderServices) : pq = p \o q
  BY ConcatProperties
<1>02. PICK n \in Nat, l \in Nat : n = Len(p) /\ l = Len(q)
  BY LenProperties
<1>1. /\ n = Len(p) /\ l = Len(q) /\ pq = p \o q /\ Len(pq) = n + l
      /\ \A i \in 1 .. n + l : pq[i] = IF i <= n THEN p[i] ELSE q[i - n]
  BY <1>01, <1>02, ConcatProperties
<1>2. \A i \in 1 .. n + l : \/ i \in 1 .. n /\ pq[i] = p[i] /\ p[i] \in Els(p)
                            \/ n < i /\ i - n \in 1 .. l /\ pq[i] = q[i - n] /\ q[i - n] \in Els(q)
  <2> SUFFICES ASSUME NEW i \in 1 .. n + l
               PROVE  \/ i \in 1 .. n /\ pq[i] = p[i] /\ p[i] \in Els(p)
                      \/ n < i /\ i - n \in 1 .. l /\ pq[i] = q[i - n] /\ q[i - n] \in Els(q)
    OBVIOUS
  <2>1. CASE i <= n
    <3>1. i \in 1 .. n /\ pq[i] = p[i]
      BY <1>1, <2>1
    <3>. QED  BY <1>1, <3>1 DEF Els
  <2>2. CASE ~(i <= n)
    <3>1. n < i /\ i - n \in 1 .. l /\ pq[i] = q[i - n]
      BY <1>1, <2>2
    <3>. QED  BY <1>1, <3>1 DEF Els
  <2>. QED  BY <2>1, <2>2
<1>3. Els(pq) = Els(p) \union Els(q)
  <2>1. ASSUME NEW x \in Els(pq) PROVE x \in Els(p) \union Els(q)
    BY <1>1, <1>2, <2>1 DEF Els
  <2>2. ASSUME NEW x \in Els(p) PROVE x \in Els(pq)
    <3>1. PICK i \in 1 .. n : x = p[i]
      BY <1>1, <2>2 DEF Els
    <3>2. i \in 1 .. n + l /\ pq[i] = p[i]
      BY <1>1, <3>1
    <3>. QED  BY <1>1, <3>1, <3>2 DEF Els
  <2>3. ASSUME NEW x \in Els(q) PROVE x \in Els(pq)
    <3>1. PICK i \in 1 .. l : x = q[i]
      BY <1>1, <2>3 DEF Els
    <3>2. i + n \in 1 .. n + l /\ ~(i + n <= n) /\ (i + n) - n = i
      BY <1>1, <3>1
    <3>3. pq[i + n] = q[i]
      BY <1>1, <3>2
    <3>. QED  BY <1>1, <3>1, <3>2, <3>3 DEF Els
  <2>. QED  BY <2>1, <2>2, <2>3
<1>4. Sorted(k, pq)
  <2> SUFFICES ASSUME NEW i \in 1 .. n + l, NEW j \in 1 .. n + l, i < j
               PROVE  Rank(k, pq[i]) < Rank(k, pq[j])
    BY <1>1 DEF Sorted
  <2>1. CASE i \in 1 .. n /\ pq[i] = p[i] /\ j \in 1 .. n /\ pq[j] = p[j]
    BY <1>1, <2>1 DEF Sorted
  <2>2. CASE pq[i] \in Els(p) /\ pq[j] \in Els(q)
    BY <2>2
  <2>3. CASE n < i /\ i - n \in 1 .. l /\ pq[i] = q[i - n] /\ j - n \in 1 .. l /\ pq[j] = q[j - n]
    <3>1. i - n < j - n
      BY <1>1
    <3>. QED  BY <1>1, <2>3, <3>1 DEF Sorted
  <2>4. CASE n < i /\ j \in 1 .. n
    BY <1>1, <2>4
  <2>. QED  BY <1>2, <2>1, <2>2, <2>3, <2>4
<1>. QED  BY <1>1, <1>3, <1>4

LEMMA IfRecordedIs ==
    ASSUME NEW m, NEW k \in Scripts, NEW s \in RenderServices
    PROVE  /\ IfRecorded(m, s) \in Seq(RenderServices) /\ Sorted(k, IfRecorded(m, s))
           /\ Els(IfRecorded(m, s)) = RecordedIn(m) \intersect {s}
<1>1. CASE s \in RecordedIn(m)
  <2>1. IfRecorded(m, s) = <<s>> /\ 1 .. 1 = {1}
    BY <1>1 DEF IfRecorded
  <2>. QED  BY <1>1, <2>1 DEF Els, Sorted
<1>2. CASE s \notin RecordedIn(m)
  <2>1. IfRecorded(m, s) = <<>> /\ 1 .. 0 = {}
    BY <1>2 DEF IfRecorded
  <2>. QED  BY <1>2, <2>1 DEF Els, Sorted
<1>. QED  BY <1>1, <1>2

LEMMA RollbackStarts == ASSUME ReleasesInv, rollbackRelease PROVE ReleasesInv'
<1>1. PICK m : /\ RecordedIn(m) # {}
               /\ Starts("rollback", RollbackOrder(m),
                         [s \in RecordedIn(m) |-> render[s][m.services[s].previous].commit])
  BY DEF rollbackRelease
<1> DEFINE w == IfRecorded(m, "web")
           o == IfRecorded(m, "worker")
           a == IfRecorded(m, "api")
<1>2. "rollback" \in Scripts /\ "web" \in RenderServices /\ "worker" \in RenderServices /\ "api" \in RenderServices
  BY DEF Scripts, RenderServices
<1>3. /\ w \in Seq(RenderServices) /\ Sorted("rollback", w) /\ Els(w) = RecordedIn(m) \intersect {"web"}
      /\ o \in Seq(RenderServices) /\ Sorted("rollback", o) /\ Els(o) = RecordedIn(m) \intersect {"worker"}
      /\ a \in Seq(RenderServices) /\ Sorted("rollback", a) /\ Els(a) = RecordedIn(m) \intersect {"api"}
  BY <1>2, IfRecordedIs
<1>4. Rank("rollback", "web") = 1 /\ Rank("rollback", "worker") = 2 /\ Rank("rollback", "api") = 3
  BY DEF Rank
<1> HIDE DEF w, o, a
<1>5. w \o o \in Seq(RenderServices) /\ Sorted("rollback", w \o o) /\ Els(w \o o) = Els(w) \union Els(o)
  <2>1. \A x \in Els(w), y \in Els(o) : Rank("rollback", x) < Rank("rollback", y)
    BY <1>3, <1>4
  <2>. QED  BY <1>2, <1>3, <2>1, ConcatSorted
<1>6. PICK wo \in Seq(RenderServices) : wo = w \o o
  BY <1>5
<1>7. PICK order \in Seq(RenderServices) :
        order = wo \o a /\ Sorted("rollback", order) /\ Els(order) = Els(wo) \union Els(a)
  <2>1. \A x \in Els(wo), y \in Els(a) : Rank("rollback", x) < Rank("rollback", y)
    BY <1>3, <1>4, <1>5, <1>6
  <2>2. Sorted("rollback", wo)
    BY <1>5, <1>6
  <2>3. /\ wo \o a \in Seq(RenderServices) /\ Sorted("rollback", wo \o a)
        /\ Els(wo \o a) = Els(wo) \union Els(a)
    BY <1>2, <1>3, <2>1, <2>2, ConcatSorted
  <2>. QED  BY <2>3
<1>8. order = RollbackOrder(m)
  BY <1>6, <1>7 DEF RollbackOrder, w, o, a
<1>9. Els(order) = RecordedIn(m)
  BY <1>3, <1>5, <1>6, <1>7 DEF RecordedIn, RenderServices
<1>10. order # <<>>
  <2>1. SUFFICES ASSUME order = <<>> PROVE Els(order) = {}
    BY <1>1, <1>9
  <2>2. Len(order) = 0 /\ 1 .. 0 = {}
    BY <2>1
  <2>. QED  BY <2>2 DEF Els
<1>11. PICK aim : aim = [s \in RecordedIn(m) |-> render[s][m.services[s].previous].commit]
  OBVIOUS
<1>12. Starts("rollback", order, aim) /\ DOMAIN aim = {order[i] : i \in 1 .. Len(order)}
  BY <1>1, <1>8, <1>9, <1>11 DEF Els
<1>. QED  BY ONLY ReleasesInv, <1>2, <1>7, <1>10, <1>12, StartsWell

-----------------------------------------------------------------------------
(* The steps of Render.                                                    *)
LEMMA RenderMoves ==
    ASSUME ReleasesInv, RenderGrows(render, render'), UNCHANGED <<script, manifest, artifacts>>
    PROVE  ReleasesInv'
<1>1. RenderFormed(render')
  BY DEF RenderGrows
<1>2. \A k \in Scripts : /\ script[k] = NoScript \/ Runs(render', k, script[k], manifest[k])
                         /\ Orderly(render', manifest[k], OrderOf(k))
  BY RunsGoOn, OrderStays DEF ReleasesInv
<1>3. \A m \in artifacts : Orderly(render', m, ReleaseOrder)
  BY OrderStays DEF ReleasesInv
<1>. QED  BY <1>1, <1>2, <1>3 DEF ReleasesInv

LEMMA Pushed == ASSUME ReleasesInv, PushCommit PROVE ReleasesInv'
<1>1. \A s \in RenderServices : Grows(render[s], Queued(s, head + 1))
  BY GrowsByAppend DEF ReleasesInv, RenderFormed, Queued
<1>2. render' = [s \in RenderServices |-> Queued(s, head + 1)]
  BY DEF PushCommit
<1>3. RenderGrows(render, render')
  BY <1>1, <1>2 DEF RenderGrows, RenderFormed, Grows
<1>. QED  BY <1>3, RenderMoves DEF PushCommit

(* A service whose deploys have their statuses changed.                    *)
LEMMA Restated ==
    ASSUME ReleasesInv, NEW s \in RenderServices, NEW new, Grows(render[s], new),
           render' = [render EXCEPT ![s] = new]
    PROVE  RenderGrows(render, render')
<1>1. RenderFormed(render)
  BY DEF ReleasesInv
<1>2. /\ render'[s] = new /\ render' = [t \in RenderServices |-> render'[t]]
      /\ \A t \in RenderServices : t # s => render'[t] = render[t]
  BY <1>1 DEF RenderFormed
<1>3. \A t \in RenderServices : Grows(render[t], render'[t])
  BY <1>1, <1>2, GrowsByNothing DEF RenderFormed
<1>. QED  BY <1>2, <1>3 DEF RenderGrows, RenderFormed, Grows

LEMMA RowsAre ==
    ASSUME ReleasesInv, NEW s \in RenderServices
    PROVE  DeployRows(render[s]) /\ \A d \in DOMAIN render[s] : render[s][d].status \in DeployStates
<1>1. DeployRows(render[s])
  BY DEF ReleasesInv, RenderFormed
<1>2. PICK C : render[s] \in Seq(DeployOf(C))
  BY <1>1 DEF DeployRows
<1>3. \A d \in DOMAIN render[s] : render[s][d] \in DeployOf(C)
  BY <1>2
<1>. QED  BY <1>1, <1>3 DEF DeployOf

LEMMA SameStatus ==
    ASSUME NEW C, NEW row \in DeployOf(C)
    PROVE  WithStatus(row, row.status) = row
BY DEF WithStatus, DeployOf

LEMMA WentLive == ASSUME ReleasesInv, NEW s \in RenderServices, GoesLive(s) PROVE ReleasesInv'
<1>1. PICK new \in FirstQueued(s) :
         render' = [render EXCEPT ![s] = [d \in DOMAIN render[s] |->
                       IF d = new THEN WithStatus(render[s][d], "live")
                       ELSE IF d = LiveDeploy(s) THEN WithStatus(render[s][d], "deactivated")
                       ELSE render[s][d]]]
  BY DEF GoesLive
<1>2. PICK live, q : live = LiveDeploy(s) /\ q = render[s]
  OBVIOUS
<1>3. DeployRows(q)
  BY <1>2, RowsAre
<1>4. \A d \in DOMAIN q : WithStatus(q[d], q[d].status) = q[d] /\ q[d].status \in DeployStates
  <2>1. PICK C : q \in Seq(DeployOf(C))
    BY <1>3 DEF DeployRows
  <2>2. \A d \in DOMAIN q : q[d] \in DeployOf(C)
    BY <2>1
  <2>. QED  BY <2>2, SameStatus DEF DeployOf
<1>5. PICK st : st = [d \in DOMAIN q |-> IF d = new THEN "live"
                                        ELSE IF d = live THEN "deactivated" ELSE q[d].status]
  OBVIOUS
<1>6. st \in [DOMAIN q -> DeployStates]
  BY <1>4, <1>5 DEF DeployStates
<1>7. \A d \in DOMAIN q : q[d].status \in {"live", "deactivated"} => st[d] \in {"live", "deactivated"}
  BY <1>5
<1>8. PICK now : now = [d \in DOMAIN q |-> WithStatus(q[d], st[d])]
  OBVIOUS
<1>9. Grows(q, now)
  BY ONLY <1>3, <1>6, <1>7, <1>8, GrowsByStatus
<1>10. now = [d \in DOMAIN q |-> IF d = new THEN WithStatus(q[d], "live")
                                 ELSE IF d = live THEN WithStatus(q[d], "deactivated") ELSE q[d]]
  BY ONLY <1>4, <1>5, <1>8
<1>11. render' = [render EXCEPT ![s] = now]
  BY <1>1, <1>2, <1>10
<1>12. RenderGrows(render, render')
  BY <1>2, <1>9, <1>11, Restated
<1>. QED  BY <1>12, RenderMoves DEF GoesLive

LEMMA BuildFailed == ASSUME ReleasesInv, NEW s \in RenderServices, BuildFails(s) PROVE ReleasesInv'
<1>1. PICK new \in FirstQueued(s) :
         render' = [render EXCEPT ![s] = [d \in DOMAIN render[s] |->
                       IF d = new THEN WithStatus(render[s][d], "build_failed") ELSE render[s][d]]]
  BY DEF BuildFails
<1>2. PICK q : q = render[s] /\ q[new].status = "queued"
  BY DEF FirstQueued
<1>3. DeployRows(q)
  BY <1>2, RowsAre
<1>4. \A d \in DOMAIN q : WithStatus(q[d], q[d].status) = q[d] /\ q[d].status \in DeployStates
  <2>1. PICK C : q \in Seq(DeployOf(C))
    BY <1>3 DEF DeployRows
  <2>2. \A d \in DOMAIN q : q[d] \in DeployOf(C)
    BY <2>1
  <2>. QED  BY <2>2, SameStatus DEF DeployOf
<1>5. PICK st : st = [d \in DOMAIN q |-> IF d = new THEN "build_failed" ELSE q[d].status]
  OBVIOUS
<1>6. st \in [DOMAIN q -> DeployStates]
  BY <1>4, <1>5 DEF DeployStates
<1>7. \A d \in DOMAIN q : q[d].status \in {"live", "deactivated"} => st[d] \in {"live", "deactivated"}
  BY <1>2, <1>5
<1>8. PICK now : now = [d \in DOMAIN q |-> WithStatus(q[d], st[d])]
  OBVIOUS
<1>9. Grows(q, now)
  BY ONLY <1>3, <1>6, <1>7, <1>8, GrowsByStatus
<1>10. now = [d \in DOMAIN q |-> IF d = new THEN WithStatus(q[d], "build_failed") ELSE q[d]]
  BY ONLY <1>4, <1>5, <1>8
<1>11. render' = [render EXCEPT ![s] = now]
  BY <1>1, <1>2, <1>10
<1>12. RenderGrows(render, render')
  BY <1>2, <1>9, <1>11, Restated
<1>. QED  BY <1>12, RenderMoves DEF BuildFails

-----------------------------------------------------------------------------
(* The steps of a script.                                                  *)
LEMMA LookedUp == ASSUME ReleasesInv, NEW k \in Scripts, findPreviousLiveDeploy(k) PROVE ReleasesInv'
<1> DEFINE sc == script'[k]
<1>1. PICK d : script' = [script EXCEPT ![k].at = "trigger", ![k].previous = d]
  BY DEF findPreviousLiveDeploy
<1>2. script[k] # NoScript /\ script[k].at # "wait"
  BY AtSomeStep DEF findPreviousLiveDeploy
<1>3. script = [j \in Scripts |-> script[j]] /\ ScriptFormed(script[k])
  BY DEF ReleasesInv
<1>4. DOMAIN sc = {"at", "left", "previous", "deploy"}
  BY <1>1, <1>3 DEF ScriptFormed
<1>5. sc.at = "trigger" /\ sc.left = script[k].left
  BY <1>1, <1>3 DEF ScriptFormed
<1>6. sc = [f \in {"at", "left", "previous", "deploy"} |-> sc[f]]
  BY <1>1, <1>3 DEF ScriptFormed
<1>7. \A j \in Scripts : j # k => script'[j] = script[j]
  BY <1>1, <1>3
<1>8. script' = [j \in Scripts |-> script'[j]]
  BY <1>1, <1>3
<1> HIDE DEF sc
<1>9. ScriptFormed(sc)
  BY ONLY <1>4, <1>6 DEF ScriptFormed
<1>10. PICK new : new = sc
  OBVIOUS
<1>11. script' = [script EXCEPT ![k] = new]
  BY <1>3, <1>7, <1>8, <1>10 DEF sc
<1>12. RenderGrows(render, render') /\ UNCHANGED <<manifest, artifacts>>
  BY UnchangedGrows DEF findPreviousLiveDeploy
<1>. QED  BY <1>2, <1>5, <1>9, <1>10, <1>11, <1>12, GoesOn

LEMMA Triggered == ASSUME ReleasesInv, NEW k \in Scripts, TriggerDeploy(k) PROVE ReleasesInv'
<1>1. script[k] # NoScript /\ script[k].at # "wait"
  BY AtSomeStep DEF TriggerDeploy
<1>2. Service(k) \in RenderServices
  BY <1>1, ScriptRuns
<1>3. CASE QueueDeploy(Service(k), Aim(k)) /\ FoundDeploy(k, Len(render[Service(k)]) + 1)
  <2>1. PICK s, c, d : s = Service(k) /\ c = Aim(k) /\ d = Len(render[s]) + 1
    OBVIOUS
  <2>2. RenderGrows(render, render') /\ d \in DOMAIN render'[s] /\ render'[s][d].commit = c
    BY <1>2, <1>3, <2>1, QueueGrows
  <2>. QED  BY <1>1, <1>3, <2>1, <2>2, Finds
<1>4. CASE /\ QueueDeploy(Service(k), Aim(k)) /\ script' = [script EXCEPT ![k].at = "discover"]
           /\ UNCHANGED <<manifest, artifacts>>
  <2>1. PICK sc : sc = [at |-> "discover", left |-> script[k].left, previous |-> script[k].previous,
                        deploy |-> script[k].deploy]
    OBVIOUS
  <2>2. script' = [script EXCEPT ![k] = sc] /\ ScriptFormed(sc)
    BY ONLY ReleasesInv, k \in Scripts, <1>4, <2>1, AtIs
  <2>3. RenderGrows(render, render')
    BY <1>2, <1>4, QueueGrows
  <2>4. sc.at # "wait" /\ sc.left = script[k].left
    BY <2>1
  <2>. QED  BY <1>1, <1>4, <2>2, <2>3, <2>4, GoesOn
<1>5. CASE QueueDeploy(Service(k), Aim(k)) /\ Ends(k, "failed")
  <2>1. RenderGrows(render, render')
    BY <1>2, <1>5, QueueGrows
  <2>. QED  BY <1>5, <2>1, EndsEarly
<1>6. CASE UNCHANGED render /\ Ends(k, "failed")
  BY <1>6, UnchangedGrows, EndsEarly
<1>. QED  BY <1>3, <1>4, <1>5, <1>6 DEF TriggerDeploy

LEMMA Discovered == ASSUME ReleasesInv, NEW k \in Scripts, discoverQueuedDeploy(k) PROVE ReleasesInv'
<1>1. script[k] # NoScript /\ script[k].at # "wait"
  BY AtSomeStep DEF discoverQueuedDeploy
<1>2. RenderGrows(render, render') /\ render' = render
  BY UnchangedGrows DEF discoverQueuedDeploy
<1>3. CASE Ends(k, "failed")
  BY <1>2, <1>3, EndsEarly
<1>4. ASSUME NEW d \in DOMAIN render[Service(k)], render[Service(k)][d].commit = Aim(k), FoundDeploy(k, d)
      PROVE  ReleasesInv'
  BY <1>1, <1>2, <1>4, Finds
<1>. QED  BY <1>3, <1>4 DEF discoverQueuedDeploy

LEMMA Waited == ASSUME ReleasesInv, NEW k \in Scripts, waitForLiveDeploy(k) PROVE ReleasesInv'
<1>1. script[k].at = "wait" /\ RenderGrows(render, render') /\ render' = render
  BY UnchangedGrows DEF waitForLiveDeploy
<1>2. CASE Ends(k, "failed")
  BY <1>1, <1>2, EndsEarly
<1>3. CASE SeenLive(k) /\ Len(script[k].left) = 1 /\ Ends(k, "live")
  BY <1>1, <1>3, EndsWell
<1>4. ASSUME SeenLive(k), Len(script[k].left) # 1,
             script' = [script EXCEPT ![k].left = Tail(@),
                                      ![k].at = IF k = "deploy" THEN "previous" ELSE "trigger"],
             UNCHANGED <<manifest, artifacts>>
      PROVE  ReleasesInv'
  <2>1. PICK at : at = (IF k = "deploy" THEN "previous" ELSE "trigger") /\ at # "wait"
    OBVIOUS
  <2>. QED  BY <1>1, <1>4, <2>1, GoesToNext
<1>. QED  BY <1>2, <1>3, <1>4 DEF waitForLiveDeploy

LEMMA ScriptKilled == ASSUME ReleasesInv, NEW k \in Scripts, JobKilled(k) PROVE ReleasesInv'
<1>1. script[k] # NoScript /\ Ends(k, manifest[k].status) /\ UNCHANGED render
  BY DEF JobKilled
<1>2. manifest[k].status # "live"
  BY <1>1, ScriptRuns DEF Runs
<1>. QED  BY <1>1, <1>2, UnchangedGrows, EndsEarly

-----------------------------------------------------------------------------
LEMMA ReleasesStart == ReleasesInit => ReleasesInv
<1> SUFFICES ASSUME ReleasesInit PROVE ReleasesInv
  OBVIOUS
<1> DEFINE row == [commit |-> 0, status |-> "live"]
           none == NewManifest([s \in {} |-> 0])
           m == [none EXCEPT !.status = "none"]
<1>1. RenderFormed(render)
  <2>1. <<row>> \in Seq(DeployOf({0}))
    BY DEF DeployOf, DeployStates
  <2>2. DeployRows(<<row>>)
    BY <2>1 DEF DeployRows
  <2>. QED  BY <2>2 DEF ReleasesInit, RenderFormed
<1>2. /\ m = [status |-> "none", aim |-> [s \in {} |-> 0], services |-> [s \in RenderServices |-> NoRecord]]
      /\ DOMAIN m.aim = {} /\ m.status = "none"
  BY DEF NewManifest
<1>3. ManifestFormed(m) /\ \A order : Orderly(render, m, order)
  BY <1>2 DEF ManifestFormed, Orderly
<1>4. ScriptFormed(NoScript)
  BY DEF ScriptFormed, NoScript
<1>5. script = [k \in Scripts |-> NoScript] /\ manifest = [k \in Scripts |-> m] /\ artifacts = {}
  BY DEF ReleasesInit
<1> HIDE DEF m
<1>. QED  BY <1>1, <1>3, <1>4, <1>5 DEF ReleasesInv

LEMMA ReleasesGoOn == ReleasesInv /\ [ReleasesNext]_releasesVars => ReleasesInv'
<1> SUFFICES ASSUME ReleasesInv, [ReleasesNext]_releasesVars PROVE ReleasesInv'
  OBVIOUS
<1>1. CASE PushCommit \/ deployRelease \/ rollbackRelease
  BY <1>1, Pushed, DeployStarts, RollbackStarts
<1>2. ASSUME NEW k \in Scripts,
             \/ findPreviousLiveDeploy(k) \/ TriggerDeploy(k) \/ discoverQueuedDeploy(k)
             \/ waitForLiveDeploy(k) \/ JobKilled(k)
      PROVE  ReleasesInv'
  BY <1>2, LookedUp, Triggered, Discovered, Waited, ScriptKilled
<1>3. ASSUME NEW s \in RenderServices, GoesLive(s) \/ BuildFails(s) PROVE ReleasesInv'
  BY <1>3, WentLive, BuildFailed
<1>4. CASE UNCHANGED releasesVars
  BY <1>4, UnchangedGrows, RenderMoves DEF releasesVars
<1>. QED  BY <1>1, <1>2, <1>3, <1>4 DEF ReleasesNext

LEMMA ReleasesInvOrders == ReleasesInv => ReleasedInOrder
<1> SUFFICES ASSUME ReleasesInv PROVE ReleasedInOrder
  OBVIOUS
<1>1. "deploy" \in Scripts /\ "rollback" \in Scripts
  BY DEF Scripts
<1>2. \A m, order : Orderly(render, m, order) => InOrder(m, order)
  BY DEF Orderly, InOrder, Ran, HasRun
<1>3. /\ \A m \in artifacts \union {manifest["deploy"]} : Orderly(render, m, ReleaseOrder)
      /\ Orderly(render, manifest["rollback"], <<"web", "worker", "api">>)
  BY <1>1 DEF ReleasesInv, OrderOf
<1>. QED  BY <1>2, <1>3 DEF ReleasedInOrder

(* However Render, the pushes, the deploy jobs and the rollbacks interleave, *)
(* and whichever of them fail: a release and a rollback start a service     *)
(* only when those before it have run what it is about (render-release.mjs). *)
THEOREM ReleasesGoInOrder == ReleasesSpec => []ReleasedInOrder
<1>1. ReleasesInit => ReleasesInv
  BY ReleasesStart
<1>2. ReleasesInv /\ [ReleasesNext]_releasesVars => ReleasesInv'
  BY ReleasesGoOn
<1>3. ReleasesInv => ReleasedInOrder
  BY ReleasesInvOrders
<1>. QED  BY <1>1, <1>2, <1>3, PTL DEF ReleasesSpec
=============================================================================
