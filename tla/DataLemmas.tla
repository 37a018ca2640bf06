----------------------------- MODULE DataLemmas -----------------------------
(***************************************************************************)
(* Lemmas about the data the models are built from, for the proofs about   *)
(* them: least and greatest naturals, sequences that grow, and sums over   *)
(* finite sets.                                                            *)
(*                                                                         *)
(* What is true of every natural, or of every finite set, is proved from   *)
(* the least counterexample: a set of naturals that is not empty has a     *)
(* least element, and the smaller ones are no counterexamples.             *)
(***************************************************************************)
EXTENDS Integers, Sequences, Functions, FiniteSets, FiniteSetsExt,
        TLAPS, FiniteSetTheorems, WellFoundedInduction

-----------------------------------------------------------------------------
(* Numbers                                                                 *)
-----------------------------------------------------------------------------

(* "<" on the naturals, as a relation.                                     *)
Below == { pair \in Nat \X Nat : pair[1] < pair[2] }

(* Every set of naturals but the empty one has a least element.            *)
LEMMA LeastOfNaturals ==
  ASSUME NEW S \in SUBSET Nat, S # {}
  PROVE  \E m \in S : \A s \in S : m <= s
<1>1. IsWellFoundedOn(Below, Nat)
  BY NatLessThanWellFounded DEF OpToRel, Below
<1>2. PICK m \in S : \A s \in S : ~ (<< s, m >> \in Below)
  BY <1>1, WFMin, Zenon
<1>3. \A s \in S : ~ (s < m)
  BY <1>2 DEF Below
<1> QED
  BY <1>3

LEMMA MinOfNaturals ==
  ASSUME NEW S \in SUBSET Nat, S # {}
  PROVE  Min(S) \in S /\ \A s \in S : Min(S) <= s
BY LeastOfNaturals DEF Min

(* A set of naturals with a bound has a greatest element: it is the one    *)
(* whose distance to the bound is least.                                   *)
LEMMA GreatestExists ==
  ASSUME NEW S \in SUBSET Nat, S # {}, NEW b \in Nat, \A s \in S : s <= b
  PROVE  \E m \in S : \A s \in S : s <= m
<1> DEFINE T == { b - s : s \in S }
<1>1. T \in SUBSET Nat /\ T # {}
  <2>1. \A s \in S : b - s \in Nat
    OBVIOUS
  <2> QED
    BY <2>1
<1>2. PICK d \in T : \A e \in T : d <= e
  BY <1>1, LeastOfNaturals
<1>3. PICK m \in S : d = b - m
  OBVIOUS
<1>4. \A s \in S : b - m <= b - s
  BY <1>2, <1>3
<1>5. \A s \in S : s <= m
  <2> HIDE DEF T
  <2> QED BY <1>4
<1> QED
  BY <1>5

LEMMA MaxOfNaturals ==
  ASSUME NEW S \in SUBSET Nat, S # {}, NEW b \in Nat, \A s \in S : s <= b
  PROVE  Max(S) \in S /\ \A s \in S : s <= Max(S)
<1>1. \E m \in S : \A s \in S : m >= s
  BY GreatestExists
<1>2. Max(S) \in S /\ \A s \in S : Max(S) >= s
  BY <1>1 DEF Max
<1> QED
  BY <1>2

(* An element less: the size goes down by one.                             *)
LEMMA OneLess ==
  ASSUME NEW t, IsFiniteSet(t), NEW x \in t
  PROVE  /\ IsFiniteSet(t \ {x}) /\ Cardinality(t) \in Nat /\ Cardinality(t \ {x}) \in Nat
         /\ Cardinality(t \ {x}) = Cardinality(t) - 1
BY FS_RemoveElement, FS_CardinalityType

(* A finite set of integers has a minimum.                                 *)
LEMMA MinOfIntegers ==
  ASSUME NEW S \in SUBSET Int, S # {}, IsFiniteSet(S)
  PROVE  Min(S) \in S /\ \A s \in S : Min(S) <= s
<1> DEFINE Good(T) == T # {} => \E m \in T : \A s \in T : m <= s
           Bad == { Cardinality(T) : T \in { U \in SUBSET S : ~ Good(U) } }
<1>1. \A T \in SUBSET S : IsFiniteSet(T) /\ Cardinality(T) \in Nat
  BY FS_Subset, FS_CardinalityType
<1>2. Bad \in SUBSET Nat
  BY <1>1
<1>3. Bad = {}
  <2>1. SUFFICES ASSUME NEW n \in Bad, \A k \in Bad : n <= k
                 PROVE  FALSE
    BY <1>2, LeastOfNaturals
  <2>2. PICK T \in SUBSET S : ~ Good(T) /\ Cardinality(T) = n
    OBVIOUS
  <2>3. PICK x \in T : x \in Int
    BY <2>2
  <2> DEFINE U == T \ {x}
  <2>4. U \in SUBSET S /\ Cardinality(U) \in Nat /\ Cardinality(U) < n /\ n \in Nat
    BY <1>1, <2>2, <2>3, OneLess
  <2>5. Good(U)
    <3> HIDE DEF Good, U
    <3>1. Cardinality(U) \notin Bad
      <4> HIDE DEF Bad
      <4> QED
        BY <2>1, <2>4
    <3> QED
      BY <2>4, <3>1
  <2>6. Good(T)
    <3>1. CASE U = {}
      BY <2>3, <3>1
    <3>2. CASE U # {}
      <4>1. PICK m \in U : \A s \in U : m <= s
        BY <2>5, <3>2
      <4>2. CASE x <= m
        <5>1. \A s \in T : x <= s
          BY <2>3, <2>4, <4>1, <4>2
        <5> QED
          BY <2>3, <5>1
      <4>3. CASE ~ (x <= m)
        <5>1. \A s \in T : m <= s
          BY <2>3, <2>4, <4>1, <4>3
        <5> QED
          BY <4>1, <5>1
      <4> QED
        BY <4>2, <4>3
    <3> QED
      BY <3>1, <3>2
  <2> QED
    BY <2>2, <2>6
<1>4. Good(S)
  <2> HIDE DEF Good
  <2> QED
    BY <1>3
<1>5. \E m \in S : \A s \in S : m <= s
  BY <1>4
<1> QED
  BY <1>5 DEF Min

(* The quotient and the residue of a division are the only ones.           *)
LEMMA ResidueOf ==
  ASSUME NEW n \in Nat \ {0}, NEW a \in Int, NEW q \in Int, NEW r \in 0 .. n - 1,
         a = n * q + r
  PROVE  a % n = r
OBVIOUS

LEMMA Division ==
  ASSUME NEW n \in Nat \ {0}, NEW a \in Int
  PROVE  a % n \in 0 .. n - 1 /\ \E q \in Int : a = n * q + (a % n)
<1>1. a = n * (a \div n) + (a % n) /\ a \div n \in Int /\ a % n \in 0 .. n-1
  OBVIOUS
<1> QED
  BY <1>1

(* Counting round n positions.                                             *)
LEMMA NextModulo ==
  ASSUME NEW i \in Nat, NEW n \in Nat \ {0}
  PROVE  /\ i % n \in 0 .. n - 1
         /\ (i % n) % n = i % n
         /\ (i + 1) % n = IF (i % n) + 1 = n THEN 0 ELSE (i % n) + 1
<1> DEFINE r == i % n
<1>1. r \in 0 .. n - 1
  BY Division
<1>2. PICK q \in Int : i = n * q + (i % n)
  <2>1. i \in Int
    OBVIOUS
  <2> QED
    BY <2>1, Division, Zenon
<1> SUFFICES /\ r \in 0 .. n - 1 /\ r % n = r
             /\ (i + 1) % n = IF r + 1 = n THEN 0 ELSE r + 1
  OBVIOUS
<1>3. i = n * q + r
  BY <1>2
<1> HIDE DEF r
<1>4. r % n = r
  <2>1. r = n * 0 + r /\ r \in Int
    BY <1>1
  <2> QED
    BY <1>1, <2>1, ResidueOf
<1>5. CASE r + 1 = n
  <2>1. /\ i + 1 = n * (q + 1) + 0 /\ 0 \in 0 .. n - 1
        /\ q + 1 \in Int /\ i + 1 \in Int
    BY <1>1, <1>3, <1>5
  <2>2. (i + 1) % n = 0
    BY <2>1, ResidueOf
  <2> QED
    BY <1>1, <1>4, <1>5, <2>2
<1>6. CASE r + 1 # n
  <2>1. i + 1 = n * q + (r + 1) /\ r + 1 \in 0 .. n - 1 /\ i + 1 \in Int
    BY <1>1, <1>3, <1>6
  <2>2. (i + 1) % n = r + 1
    BY <2>1, ResidueOf
  <2> QED
    BY <1>1, <1>4, <1>6, <2>2
<1> QED
  BY <1>5, <1>6

-----------------------------------------------------------------------------
(* Sequences                                                               *)
-----------------------------------------------------------------------------

(* A sequence of anything: nothing is said of its elements.                *)
IsSequence(s) == \E S : s \in Seq(S)

LEMMA AppendFacts ==
  ASSUME NEW s, IsSequence(s), NEW e
  PROVE  /\ IsSequence(Append(s, e)) /\ Append(s, e) # << >>
         /\ Len(s) \in Nat /\ DOMAIN s = 1 .. Len(s)
         /\ DOMAIN Append(s, e) = 1 .. Len(s) + 1
         /\ Append(s, e)[Len(s) + 1] = e
         /\ \A i \in 1 .. Len(s) : Append(s, e)[i] = s[i]
         /\ s = << >> <=> Len(s) = 0
<1>1. PICK S : s \in Seq(S)
  BY DEF IsSequence
<1> DEFINE T == S \cup {e}
<1>2. s \in Seq(T) /\ e \in T
  BY <1>1
<1>3. Append(s, e) \in Seq(T)
  BY <1>2
<1>4. IsSequence(Append(s, e))
  BY <1>3 DEF IsSequence
<1> QED
  BY <1>2, <1>3, <1>4

(* And a sequence over a known set.                                        *)
LEMMA AppendTyped ==
  ASSUME NEW S, NEW s \in Seq(S), NEW e \in S
  PROVE  /\ Append(s, e) \in Seq(S) /\ Len(Append(s, e)) = Len(s) + 1
         /\ \A i \in 1 .. Len(s) : Append(s, e)[i] = s[i]
         /\ Append(s, e)[Len(s) + 1] = e
OBVIOUS

-----------------------------------------------------------------------------
(* Sums                                                                    *)
-----------------------------------------------------------------------------

(* A sum is taken apart by picking an element, as the folds do: PartSum    *)
(* gives the sum of f over every subset of D.                              *)
Picked(t) == CHOOSE x \in t : TRUE
SumStep(f, it, t) == IF t = {} THEN 0 ELSE f[Picked(t)] + it[t \ {Picked(t)}]
IsSumOf(f, D, it) == it = [t \in SUBSET D |-> SumStep(f, it, t)]
PartSum(f, D) == CHOOSE it : IsSumOf(f, D, it)

LEMMA SumIsPart == ASSUME NEW f, NEW D PROVE SumFunctionOnSet(f, D) = PartSum(f, D)[D]
BY Zenon DEF SumFunctionOnSet, FoldFunctionOnSet, MapThenFoldSet, PartSum, IsSumOf, SumStep, Picked

LEMMA PickedIn == ASSUME NEW t, t # {} PROVE Picked(t) \in t
BY DEF Picked

LEMMA SumExists ==
  ASSUME NEW f, NEW D, IsFiniteSet(D)
  PROVE  IsSumOf(f, D, PartSum(f, D))
<1> DEFINE Small(n) == { t \in SUBSET D : Cardinality(t) <= n }
           Partial(n, g) == g = [t \in Small(n) |-> SumStep(f, g, t)]
           Bad == { n \in Nat : ~ \E g : Partial(n, g) }
<1>1. \A t \in SUBSET D : IsFiniteSet(t) /\ Cardinality(t) \in Nat /\ Cardinality(t) <= Cardinality(D)
  BY FS_Subset, FS_CardinalityType
<1>2. Bad = {}
  <2>1. SUFFICES ASSUME NEW n \in Bad, \A k \in Bad : n <= k
                 PROVE  FALSE
    BY LeastOfNaturals
  <2>2. CASE n = 0
    <3> DEFINE g == [t \in Small(0) |-> 0]
    <3>1. \A t \in Small(0) : t = {}
      BY <1>1, FS_EmptySet
    <3>2. \A t \in Small(0) : SumStep(f, g, t) = 0
      BY <3>1 DEF SumStep
    <3>3. Partial(0, g)
      BY <3>2
    <3> QED
      BY <2>2, <3>3
  <2>3. CASE n # 0
    <3>1. n \in Nat /\ ~ (n <= n - 1)
      OBVIOUS
    <3>9. n - 1 \in Nat /\ n - 1 \notin Bad
      <4> HIDE DEF Bad
      <4> QED
        BY <2>1, <2>3, <3>1
    <3>2. PICK g : Partial(n - 1, g)
      BY <3>9
    <3> DEFINE h == [t \in Small(n) |-> SumStep(f, g, t)]
    <3>3. ASSUME NEW t \in Small(n)
          PROVE  SumStep(f, h, t) = SumStep(f, g, t)
      <4>1. CASE t = {}
        BY <4>1 DEF SumStep
      <4>2. CASE t # {}
        <5> DEFINE u == t \ {Picked(t)}
        <5>1. u \in Small(n - 1) /\ u \in Small(n)
          BY <1>1, <4>2, PickedIn, OneLess
        <5>2. g[u] = SumStep(f, g, u) /\ h[u] = SumStep(f, g, u)
          BY <3>2, <5>1
        <5> QED
          BY <5>2 DEF SumStep
      <4> QED
        BY <4>1, <4>2
    <3>4. Partial(n, h)
      BY <3>3
    <3> QED
      BY <3>4
  <2> QED
    BY <2>2, <2>3
<1>3. Cardinality(D) \in Nat /\ Cardinality(D) \notin Bad
  BY <1>2, FS_CardinalityType
<1>4. PICK g : Partial(Cardinality(D), g)
  BY <1>3
<1>5. Small(Cardinality(D)) = SUBSET D
  BY <1>1
<1>6. IsSumOf(f, D, g)
  BY <1>4, <1>5 DEF IsSumOf
<1> QED
  BY <1>6 DEF PartSum

LEMMA SumUnfold ==
  ASSUME NEW f, NEW D, IsFiniteSet(D), NEW t \in SUBSET D
  PROVE  PartSum(f, D)[t] = SumStep(f, PartSum(f, D), t)
<1> DEFINE Sum == PartSum(f, D)
<1>1. IsSumOf(f, D, Sum)
  BY SumExists
<1> HIDE DEF Sum
<1>2. Sum[t] = SumStep(f, Sum, t)
  BY <1>1 DEF IsSumOf
<1> QED
  BY <1>2 DEF Sum

(* Sums over a part of a set do not depend on the whole.                   *)
LEMMA PartAgree ==
  ASSUME NEW f, NEW g, NEW D, NEW E, IsFiniteSet(D), E \subseteq D,
         \A x \in E : f[x] = g[x]
  PROVE  \A t \in SUBSET E : PartSum(f, D)[t] = PartSum(g, E)[t]
<1> DEFINE Differ(t) == PartSum(f, D)[t] # PartSum(g, E)[t]
           Bad == { Cardinality(t) : t \in { u \in SUBSET E : Differ(u) } }
<1>1. IsFiniteSet(E) /\ \A t \in SUBSET E : IsFiniteSet(t) /\ Cardinality(t) \in Nat
  BY FS_Subset, FS_CardinalityType
<1>2. SUFFICES ASSUME Bad # {}
               PROVE  FALSE
  OBVIOUS
<1>3. Bad \in SUBSET Nat
  BY <1>1
<1>4. PICK n \in Bad : \A k \in Bad : n <= k
  BY <1>2, <1>3, LeastOfNaturals
<1>5. PICK t \in SUBSET E : Differ(t) /\ Cardinality(t) = n
  BY <1>4
<1> DEFINE u == t \ {Picked(t)}
<1>6. PartSum(f, D)[t] = SumStep(f, PartSum(f, D), t) /\ PartSum(g, E)[t] = SumStep(g, PartSum(g, E), t)
  BY <1>1, SumUnfold
<1>7. t # {}
  BY <1>5, <1>6 DEF SumStep
<1>8. Picked(t) \in t /\ Picked(t) \in E /\ u \in SUBSET E /\ Cardinality(u) < n
  BY <1>1, <1>5, <1>7, PickedIn, OneLess
<1>9. ~ Differ(u)
  <2>1. Cardinality(u) \in Nat /\ n \in Nat
    BY <1>1, <1>3, <1>8
  <2>2. Cardinality(u) \notin Bad
    BY <1>4, <1>8, <2>1
  <2> QED
    BY <1>8, <2>2
<1>10. SumStep(f, PartSum(f, D), t) = SumStep(g, PartSum(g, E), t)
  BY <1>7, <1>8, <1>9 DEF SumStep
<1> QED
  BY <1>5, <1>6, <1>10

(* Any element can be taken first.                                         *)
LEMMA PartRemove ==
  ASSUME NEW f, NEW D, IsFiniteSet(D), \A x \in D : f[x] \in Int
  PROVE  \A t \in SUBSET D :
           /\ PartSum(f, D)[t] \in Int
           /\ \A x \in t : PartSum(f, D)[t] = f[x] + PartSum(f, D)[t \ {x}]
<1> DEFINE Sum == PartSum(f, D)
           Good(t) == Sum[t] \in Int /\ \A x \in t : Sum[t] = f[x] + Sum[t \ {x}]
           Bad == { Cardinality(t) : t \in { u \in SUBSET D : ~ Good(u) } }
<1>1. \A t \in SUBSET D : IsFiniteSet(t) /\ Cardinality(t) \in Nat
  BY FS_Subset, FS_CardinalityType
<1>2. SUFFICES ASSUME Bad # {}
               PROVE  FALSE
  OBVIOUS
<1>3. Bad \in SUBSET Nat
  BY <1>1
<1>4. PICK n \in Bad : \A k \in Bad : n <= k
  BY <1>2, <1>3, LeastOfNaturals
<1>5. PICK t \in SUBSET D : ~ Good(t) /\ Cardinality(t) = n
  BY <1>4
<1>6. \A u \in SUBSET D : Sum[u] = SumStep(f, Sum, u)
  BY SumUnfold
<1>7. \A u \in SUBSET D : Cardinality(u) < n => Good(u)
  <2>1. SUFFICES ASSUME NEW u \in SUBSET D, Cardinality(u) < n, ~ Good(u)
                 PROVE  FALSE
    OBVIOUS
  <2>2. Cardinality(u) \in Bad
    BY <2>1
  <2>3. n \in Nat /\ Cardinality(u) \in Nat /\ n <= Cardinality(u)
    BY <1>1, <1>3, <1>4, <2>2
  <2> QED
    BY <2>1, <2>3
<1>8. Sum[{}] = 0
  BY <1>6 DEF SumStep
<1>9. t # {}
  <2>1. Good({})
    BY <1>8
  <2> HIDE DEF Good
  <2> QED
    BY <1>5, <2>1
<1> DEFINE y == Picked(t)
<1>10. y \in t /\ Sum[t] = f[y] + Sum[t \ {y}]
  BY <1>6, <1>9, PickedIn DEF SumStep
<1>11. \A x \in t : t \ {x} \in SUBSET D /\ Cardinality(t \ {x}) < n
  BY <1>1, <1>5, OneLess
<1> HIDE DEF Sum, y
<1>12. Sum[t] \in Int
  BY <1>7, <1>10, <1>11
<1>13. ASSUME NEW x \in t, x # y
       PROVE  Sum[t] = f[x] + Sum[t \ {x}]
  <2>1. Sum[t \ {y}] = f[x] + Sum[(t \ {y}) \ {x}]
    BY <1>7, <1>10, <1>11, <1>13
  <2>2. Sum[t \ {x}] = f[y] + Sum[(t \ {x}) \ {y}]
    BY <1>7, <1>10, <1>11, <1>13
  <2>3. (t \ {x}) \ {y} = (t \ {y}) \ {x}
    OBVIOUS
  <2>4. Sum[(t \ {x}) \ {y}] \in Int
    <3>1. (t \ {x}) \ {y} \in SUBSET D /\ y \in t \ {x}
      BY <1>10, <1>13
    <3>2. Cardinality((t \ {x}) \ {y}) < n
      <4>1. Cardinality((t \ {x}) \ {y}) = Cardinality(t \ {x}) - 1
        BY <1>1, <1>11, <3>1, OneLess
      <4>2. Cardinality(t \ {x}) \in Nat /\ n \in Nat
        BY <1>1, <1>3, <1>11
      <4> QED
        BY <1>11, <4>1, <4>2
    <3> QED
      BY <1>7, <3>1, <3>2
  <2> QED
    <3>1. y \in D /\ x \in D
      BY <1>10
    <3>2. f[y] \in Int /\ f[x] \in Int
      BY <3>1
    <3> DEFINE z == Sum[(t \ {x}) \ {y}]
    <3>3. Sum[t \ {y}] = f[x] + z /\ Sum[t \ {x}] = f[y] + z /\ z \in Int
      BY <2>1, <2>2, <2>3, <2>4
    <3> HIDE DEF Good, Bad, z
    <3>4. Sum[t] = f[y] + (f[x] + z)
      BY <1>10, <3>3
    <3> QED
      BY <3>2, <3>3, <3>4
<1>14. Good(t)
  BY <1>10, <1>12, <1>13
<1> QED
  BY <1>5, <1>14

(* The sum over a finite set, and what adding or changing one term does.   *)
LEMMA SumEmpty == ASSUME NEW f PROVE SumFunctionOnSet(f, {}) = 0
<1>1. IsFiniteSet({})
  BY FS_EmptySet
<1> QED
  BY <1>1, SumIsPart, SumUnfold DEF SumStep

LEMMA SumInt ==
  ASSUME NEW f, NEW D, IsFiniteSet(D), \A x \in D : f[x] \in Int
  PROVE  SumFunctionOnSet(f, D) \in Int
BY SumIsPart, PartRemove

LEMMA SumRemove ==
  ASSUME NEW f, NEW D, IsFiniteSet(D), \A x \in D : f[x] \in Int, NEW x \in D
  PROVE  SumFunctionOnSet(f, D) = f[x] + SumFunctionOnSet(f, D \ {x})
<1>1. PartSum(f, D)[D \ {x}] = PartSum(f, D \ {x})[D \ {x}]
  BY PartAgree
<1>2. PartSum(f, D)[D] = f[x] + PartSum(f, D)[D \ {x}]
  BY PartRemove
<1> QED
  BY <1>1, <1>2, SumIsPart

LEMMA SumNat ==
  ASSUME NEW f, NEW D, IsFiniteSet(D), \A x \in D : f[x] \in Nat
  PROVE  SumFunctionOnSet(f, D) \in Nat
<1> DEFINE Good(t) == SumFunctionOnSet(f, t) \in Nat
           Bad == { Cardinality(t) : t \in { u \in SUBSET D : ~ Good(u) } }
<1>1. \A t \in SUBSET D : IsFiniteSet(t) /\ Cardinality(t) \in Nat
  BY FS_Subset, FS_CardinalityType
<1>2. Bad \in SUBSET Nat
  BY <1>1
<1>3. Bad = {}
  <2>1. SUFFICES ASSUME NEW n \in Bad, \A k \in Bad : n <= k
                 PROVE  FALSE
    BY <1>2, LeastOfNaturals
  <2>2. PICK t \in SUBSET D : ~ Good(t) /\ Cardinality(t) = n
    OBVIOUS
  <2>3. PICK x \in t : TRUE
    BY <2>2, SumEmpty
  <2>4. /\ t \ {x} \in SUBSET D /\ Cardinality(t \ {x}) \in Nat
        /\ Cardinality(t \ {x}) < n /\ n \in Nat
    BY <1>1, <2>2, OneLess
  <2>5. Cardinality(t \ {x}) \notin Bad
    <3> HIDE DEF Bad
    <3> QED
      BY <2>1, <2>4
  <2>6. Good(t \ {x})
    <3> HIDE DEF Good
    <3> QED
      BY <2>4, <2>5
  <2>7. SumFunctionOnSet(f, t) = f[x] + SumFunctionOnSet(f, t \ {x})
    BY <1>1, SumRemove
  <2>8. f[x] \in Nat
    OBVIOUS
  <2> QED
    BY <2>2, <2>6, <2>7, <2>8
<1>4. Good(D)
  <2> HIDE DEF Good
  <2> QED
    BY <1>3
<1> QED
  BY <1>4

LEMMA SumAgree ==
  ASSUME NEW f, NEW g, NEW D, IsFiniteSet(D), \A x \in D : f[x] = g[x]
  PROVE  SumFunctionOnSet(f, D) = SumFunctionOnSet(g, D)
BY PartAgree, SumIsPart

LEMMA SumChangeOne ==
  ASSUME NEW f, NEW g, NEW D, IsFiniteSet(D), \A x \in D : f[x] \in Int /\ g[x] \in Int,
         NEW p \in D, \A x \in D \ {p} : g[x] = f[x]
  PROVE  SumFunctionOnSet(g, D) = SumFunctionOnSet(f, D) + (g[p] - f[p])
<1>1. IsFiniteSet(D \ {p})
  BY OneLess
<1>2. SumFunctionOnSet(f, D \ {p}) = SumFunctionOnSet(g, D \ {p})
  BY <1>1, SumAgree
<1>3. SumFunctionOnSet(f, D \ {p}) \in Int
  BY <1>1, SumInt
<1>4. /\ SumFunctionOnSet(f, D) = f[p] + SumFunctionOnSet(f, D \ {p})
      /\ SumFunctionOnSet(g, D) = g[p] + SumFunctionOnSet(g, D \ {p})
  BY SumRemove
<1> QED
  BY <1>2, <1>3, <1>4

LEMMA SumMonotone ==
  ASSUME NEW f, NEW g, NEW D, IsFiniteSet(D), \A x \in D : f[x] \in Int /\ g[x] \in Int /\ f[x] <= g[x]
  PROVE  SumFunctionOnSet(f, D) <= SumFunctionOnSet(g, D)
<1> DEFINE Good(t) == PartSum(f, D)[t] <= PartSum(g, D)[t]
           Bad == { Cardinality(t) : t \in { u \in SUBSET D : ~ Good(u) } }
<1>1. \A t \in SUBSET D : IsFiniteSet(t) /\ Cardinality(t) \in Nat
  BY FS_Subset, FS_CardinalityType
<1>2. Bad \in SUBSET Nat
  BY <1>1
<1>3. Bad = {}
  <2>1. SUFFICES ASSUME NEW n \in Bad, \A k \in Bad : n <= k
                 PROVE  FALSE
    BY <1>2, LeastOfNaturals
  <2>2. PICK t \in SUBSET D : ~ Good(t) /\ Cardinality(t) = n
    OBVIOUS
  <2>3. PartSum(f, D)[t] = SumStep(f, PartSum(f, D), t) /\ PartSum(g, D)[t] = SumStep(g, PartSum(g, D), t)
    BY SumUnfold
  <2>4. t # {}
    BY <2>2, <2>3 DEF SumStep
  <2> DEFINE u == t \ {Picked(t)}
  <2>5. Picked(t) \in t /\ u \in SUBSET D /\ Cardinality(u) < Cardinality(t) /\ Cardinality(u) \in Nat
    BY <1>1, <2>4, PickedIn, OneLess
  <2>6. Good(u)
    BY <1>2, <2>1, <2>2, <2>5
  <2>7. PartSum(f, D)[u] \in Int /\ PartSum(g, D)[u] \in Int
    BY <2>5, PartRemove
  <2>8. PartSum(f, D)[t] = f[Picked(t)] + PartSum(f, D)[u] /\ PartSum(g, D)[t] = g[Picked(t)] + PartSum(g, D)[u]
    BY <2>3, <2>4 DEF SumStep
  <2> HIDE DEF u
  <2> QED
    BY <2>2, <2>5, <2>6, <2>7, <2>8
<1>4. Good(D)
  BY <1>3
<1> QED
  BY <1>4, SumIsPart

(* Another index adds its term.                                            *)
LEMMA SumAdd ==
  ASSUME NEW f, NEW g, NEW D, IsFiniteSet(D), \A x \in D : f[x] \in Int /\ g[x] = f[x],
         NEW p, p \notin D, g[p] \in Int
  PROVE  SumFunctionOnSet(g, D \cup {p}) = SumFunctionOnSet(f, D) + g[p]
<1>1. IsFiniteSet(D \cup {p})
  BY FS_AddElement
<1>2. SumFunctionOnSet(g, D \cup {p}) = g[p] + SumFunctionOnSet(g, (D \cup {p}) \ {p})
  BY <1>1, SumRemove
<1>3. (D \cup {p}) \ {p} = D
  OBVIOUS
<1>4. SumFunctionOnSet(g, D) = SumFunctionOnSet(f, D) /\ SumFunctionOnSet(f, D) \in Int
  BY SumAgree, SumInt
<1>5. SumFunctionOnSet(g, D \cup {p}) = g[p] + SumFunctionOnSet(g, D)
  BY <1>2, <1>3
<1> QED
  BY <1>4, <1>5

LEMMA SumZero ==
  ASSUME NEW f, NEW D, IsFiniteSet(D), \A x \in D : f[x] = 0
  PROVE  SumFunctionOnSet(f, D) = 0
<1> DEFINE Bad == { Cardinality(t) : t \in { u \in SUBSET D : SumFunctionOnSet(f, u) # 0 } }
<1> SUFFICES ASSUME Bad # {} PROVE FALSE
  OBVIOUS
<1>1. \A u \in SUBSET D : IsFiniteSet(u) /\ Cardinality(u) \in Nat
  BY FS_Subset, FS_CardinalityType
<1>2. PICK n \in Bad : \A k \in Bad : n <= k
  BY <1>1, LeastOfNaturals
<1>3. PICK t \in SUBSET D : SumFunctionOnSet(f, t) # 0 /\ n = Cardinality(t)
  OBVIOUS
<1>4. PICK x : x \in t
  BY <1>3, SumEmpty
<1>5. SumFunctionOnSet(f, t \ {x}) = 0
  <2>1. Cardinality(t \ {x}) = n - 1 /\ n \in Nat
    BY <1>1, <1>3, <1>4, OneLess
  <2>2. ~ (n <= n - 1)
    BY <2>1
  <2>3. t \ {x} \in SUBSET D
    OBVIOUS
  <2> QED
    BY <1>2, <2>1, <2>2, <2>3
<1>6. f[x] = 0 /\ \A y \in t : f[y] \in Int
  BY <1>4
<1>7. SumFunctionOnSet(f, t) = f[x] + SumFunctionOnSet(f, t \ {x})
  BY <1>1, <1>4, <1>6, SumRemove
<1> QED
  BY <1>3, <1>5, <1>6, <1>7
=============================================================================
