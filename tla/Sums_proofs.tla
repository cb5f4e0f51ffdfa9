------------------------------ MODULE Sums_proofs ------------------------------
(***************************************************************************)
(* Sums over finite sets, as MapThenSumSet of the community modules adds:  *)
(* one chosen element after another.  The sum exists, is a natural number, *)
(* and does not depend on the order.  Each proof looks at a smallest set   *)
(* for which the claim fails: strict inclusion is well-founded on the      *)
(* subsets of a finite set.                                                *)
(***************************************************************************)
EXTENDS FiniteSetsExt, Integers, TLAPS, FiniteSetTheorems, WellFoundedInduction

Sum(f, S) == MapThenSumSet(LAMBDA x : f[x], S)

IsSum(g, f, S) ==
  g = [s \in SUBSET S |-> IF s = {} THEN 0
                          ELSE LET x == CHOOSE x \in s : TRUE IN f[x] + g[s \ {x}]]

LEMMA SumIs ==
  ASSUME NEW f, NEW S
  PROVE  Sum(f, S) = (CHOOSE g : IsSum(g, f, S))[S]
BY DEF Sum, MapThenSumSet, MapThenFoldSet, IsSum

(* A family of subsets of a finite set has a member of which no other is a *)
(* strict subset.                                                          *)
LEMMA SmallestSubset ==
  ASSUME NEW S, IsFiniteSet(S), NEW Family, Family \subseteq SUBSET S, Family # {}
  PROVE  \E s \in Family : IsFiniteSet(s) /\ \A t \in SUBSET s : t # s => t \notin Family
<1>1. Family \subseteq FiniteSubsetsOf(S)
  BY FS_Subset DEF FiniteSubsetsOf
<1>2. PICK s \in Family : \A t \in Family : <<t, s>> \notin StrictSubsetOrdering(S)
  BY <1>1, FS_StrictSubsetOrderingWellFounded, WFMin
<1>3. \A t \in SUBSET s : t # s /\ t \in Family => <<t, s>> \in StrictSubsetOrdering(S)
  BY DEF StrictSubsetOrdering
<1>4. IsFiniteSet(s)
  BY FS_Subset
<1>5. \A t \in SUBSET s : t # s => t \notin Family
  BY <1>2, <1>3, Zenon
<1> QED
  BY <1>4, <1>5, Zenon

LEMMA SumsAgree ==
  ASSUME NEW f, NEW A, NEW B, NEW g, NEW h, IsSum(g, f, A), IsSum(h, f, B),
         NEW S, IsFiniteSet(S), S \subseteq A, S \subseteq B
  PROVE  g[S] = h[S]
<1> DEFINE Family == {s \in SUBSET S : g[s] # h[s]}
<1> SUFFICES ASSUME Family # {} PROVE FALSE
  OBVIOUS
<1>1. PICK s \in Family : \A t \in SUBSET s : t # s => t \notin Family
  <2>1. Family \subseteq SUBSET S
    OBVIOUS
  <2> HIDE DEF Family
  <2> QED
    BY <2>1, SmallestSubset
<1> DEFINE x == CHOOSE x \in s : TRUE
<1>2. s # {}
  BY DEF IsSum
<1>3. x \in s /\ s \ {x} # s /\ s \ {x} \in SUBSET s
  BY <1>2
<1>4. g[s \ {x}] = h[s \ {x}]
  BY <1>1, <1>3
<1>5. g[s] = f[x] + g[s \ {x}] /\ h[s] = f[x] + h[s \ {x}]
  BY <1>2 DEF IsSum
<1> QED
  BY <1>4, <1>5

LEMMA SumsExist ==
  ASSUME NEW f, NEW S, IsFiniteSet(S)
  PROVE  \E g : IsSum(g, f, S)
<1> DEFINE Family == {s \in SUBSET S : ~ \E g : IsSum(g, f, s)}
<1> SUFFICES ASSUME Family # {} PROVE FALSE
  OBVIOUS
<1>1. PICK s \in Family : IsFiniteSet(s) /\ \A t \in SUBSET s : t # s => t \notin Family
  <2>1. Family \subseteq SUBSET S
    OBVIOUS
  <2> HIDE DEF Family
  <2> QED
    BY <2>1, SmallestSubset
<1> DEFINE Of(t) == CHOOSE g : IsSum(g, f, t)
<1>2. \A t \in SUBSET s : t # s => IsSum(Of(t), f, t)
  BY <1>1
<1> DEFINE First(t) == CHOOSE x \in t : TRUE
           Less(t) == t \ {First(t)}
           g == [t \in SUBSET s |->
                   IF t = {} THEN 0 ELSE f[First(t)] + Of(Less(t))[Less(t)]]
<1>3. \A t \in SUBSET s : t # {} => First(t) \in t /\ Less(t) \in SUBSET t /\ Less(t) # t
  OBVIOUS
<1>4. ASSUME NEW t \in SUBSET s, t # {}
      PROVE  g[Less(t)] = Of(Less(t))[Less(t)]
  <2> DEFINE u == Less(t)
  <2>1. u \in SUBSET s /\ u # s /\ IsSum(Of(u), f, u)
    <3>1. u \in SUBSET t /\ u # t
      BY <1>3, <1>4
    <3>2. u \in SUBSET s /\ u # s
      BY <3>1, <1>4
    <3> QED BY <3>2, <1>2
  <2>2. CASE u = {}
    BY <2>1, <2>2 DEF IsSum
  <2>3. CASE u # {}
    <3>1. Of(u)[u] = f[First(u)] + Of(u)[Less(u)]
      BY <2>1, <2>3 DEF IsSum
    <3>2. Less(u) \in SUBSET u /\ Less(u) # s /\ IsSum(Of(Less(u)), f, Less(u))
          /\ IsFiniteSet(Less(u))
      <4>1. Less(u) \in SUBSET u /\ First(u) \in u /\ First(u) \notin Less(u)
        BY <1>3, <2>1, <2>3
      <4>2. Less(u) \in SUBSET s /\ Less(u) # s
        BY <2>1, <4>1
      <4>3. IsFiniteSet(Less(u))
        BY <1>1, <4>2, FS_Subset
      <4> QED
        BY <1>2, <4>1, <4>2, <4>3
    <3>3. Of(u)[Less(u)] = Of(Less(u))[Less(u)]
      <4> HIDE DEF Of, Less, u
      <4> QED
        BY <2>1, <3>2, SumsAgree
    <3>4. g[u] = f[First(u)] + Of(Less(u))[Less(u)]
      BY <2>1, <2>3
    <3> QED
      BY <3>1, <3>3, <3>4
  <2> QED
    BY <2>2, <2>3
<1>5. IsSum(g, f, s)
  <2>1. g = [t \in SUBSET s |->
               IF t = {} THEN 0 ELSE f[First(t)] + Of(Less(t))[Less(t)]]
    OBVIOUS
  <2> HIDE DEF g
  <2>2. g = [t \in SUBSET s |-> IF t = {} THEN 0 ELSE f[First(t)] + g[Less(t)]]
    <3> HIDE DEF Of, Less, First
    <3> QED
      BY <1>4, <2>1
  <2> QED
    BY <2>2 DEF IsSum
<1> QED
  BY <1>5

(* The sum of nothing is 0; otherwise it is the sum of the chosen element  *)
(* and of the others.                                                      *)
LEMMA SumUnfolds ==
  ASSUME NEW f, NEW S, IsFiniteSet(S)
  PROVE  /\ S = {} => Sum(f, S) = 0
         /\ S # {} => LET x == CHOOSE x \in S : TRUE IN Sum(f, S) = f[x] + Sum(f, S \ {x})
<1> DEFINE g == CHOOSE g : IsSum(g, f, S)
           x == CHOOSE x \in S : TRUE
           h == CHOOSE h : IsSum(h, f, S \ {x})
<1>1. IsSum(g, f, S)
  BY SumsExist
<1>2. IsFiniteSet(S \ {x}) /\ IsSum(h, f, S \ {x})
  BY SumsExist, FS_Subset
<1>3. Sum(f, S) = g[S] /\ Sum(f, S \ {x}) = h[S \ {x}]
  BY SumIs
<1> HIDE DEF g, h
<1>4. g[S \ {x}] = h[S \ {x}]
  BY <1>1, <1>2, SumsAgree
<1>5. g[S] = IF S = {} THEN 0 ELSE f[x] + g[S \ {x}]
  BY <1>1 DEF IsSum
<1> QED
  BY <1>3, <1>4, <1>5

LEMMA SumOfNothing == \A f : Sum(f, {}) = 0
BY SumUnfolds, FS_EmptySet

LEMMA SumType ==
  ASSUME NEW f, NEW S, IsFiniteSet(S), \A x \in S : f[x] \in Int
  PROVE  Sum(f, S) \in Int
<1> DEFINE Family == {s \in SUBSET S : Sum(f, s) \notin Int}
<1> SUFFICES ASSUME Family # {} PROVE FALSE
  <2>1. Family = {} => Sum(f, S) \in Int
    OBVIOUS
  <2> QED
    BY <2>1
<1>1. PICK s \in Family : IsFiniteSet(s) /\ \A t \in SUBSET s : t # s => t \notin Family
  <2>1. Family \subseteq SUBSET S
    OBVIOUS
  <2> HIDE DEF Family
  <2> QED
    BY <2>1, SmallestSubset
<1> DEFINE x == CHOOSE x \in s : TRUE
<1>2. s # {}
  BY SumOfNothing
<1>3. Sum(f, s) = f[x] + Sum(f, s \ {x})
  BY <1>1, <1>2, SumUnfolds
<1>4. x \in s /\ s \ {x} # s /\ s \ {x} \in SUBSET s
  BY <1>2
<1>5. Sum(f, s \ {x}) \in Int
  BY <1>1, <1>4
<1> QED
  BY <1>3, <1>4, <1>5

(* Any element may be taken out first.                                     *)
LEMMA SumWithout ==
  ASSUME NEW f, NEW S, IsFiniteSet(S), \A x \in S : f[x] \in Int, NEW y \in S
  PROVE  Sum(f, S) = f[y] + Sum(f, S \ {y})
<1> DEFINE Good(s) == \A z \in s : Sum(f, s) = f[z] + Sum(f, s \ {z})
           Family == {s \in SUBSET S : ~Good(s)}
<1> SUFFICES ASSUME Family # {} PROVE FALSE
  <2>1. Family = {} => Good(S)
    OBVIOUS
  <2> QED
    BY <2>1
<1>1. PICK s \in Family : IsFiniteSet(s) /\ \A t \in SUBSET s : t # s => t \notin Family
  <2>1. Family \subseteq SUBSET S
    OBVIOUS
  <2> HIDE DEF Family
  <2> QED
    BY <2>1, SmallestSubset
<1>2. PICK z \in s : Sum(f, s) # f[z] + Sum(f, s \ {z})
  OBVIOUS
<1> DEFINE x == CHOOSE x \in s : TRUE
           both == (s \ {x}) \ {z}
<1>3. Sum(f, s) = f[x] + Sum(f, s \ {x})
  BY <1>1, <1>2, SumUnfolds
<1>4. x \in s /\ x # z
  BY <1>2, <1>3
<1>5. \A t \in SUBSET s : t # s => Good(t)
  BY <1>1
<1> HIDE DEF x, Family
<1>6. both = (s \ {z}) \ {x}
  OBVIOUS
<1>7. Sum(f, s \ {x}) = f[z] + Sum(f, both)
  <2>1. s \ {x} \in SUBSET s /\ s \ {x} # s /\ z \in s \ {x}
    BY <1>4
  <2> QED
    BY <1>5, <2>1
<1>8. Sum(f, s \ {z}) = f[x] + Sum(f, both)
  <2>1. s \ {z} \in SUBSET s /\ s \ {z} # s /\ x \in s \ {z}
    BY <1>4
  <2> QED
    BY <1>5, <1>6, <2>1
<1>9. f[x] \in Int /\ f[z] \in Int /\ Sum(f, both) \in Int
  <2>1. IsFiniteSet(both) /\ \A u \in both : f[u] \in Int
    BY <1>1, FS_Subset DEF Family
  <2> QED
    BY <1>4, <2>1, SumType DEF Family
<1> QED
  BY <1>2, <1>3, <1>7, <1>8, <1>9

(* What the elements do not count does not matter.                         *)
LEMMA SumSame ==
  ASSUME NEW f, NEW g, NEW S, IsFiniteSet(S), \A x \in S : f[x] = g[x]
  PROVE  Sum(f, S) = Sum(g, S)
<1> DEFINE Family == {s \in SUBSET S : Sum(f, s) # Sum(g, s)}
<1> SUFFICES ASSUME Family # {} PROVE FALSE
  <2>1. Family = {} => Sum(f, S) = Sum(g, S)
    OBVIOUS
  <2> QED
    BY <2>1
<1>1. PICK s \in Family : IsFiniteSet(s) /\ \A t \in SUBSET s : t # s => t \notin Family
  <2>1. Family \subseteq SUBSET S
    OBVIOUS
  <2> HIDE DEF Family
  <2> QED
    BY <2>1, SmallestSubset
<1> DEFINE x == CHOOSE x \in s : TRUE
<1>2. s # {}
  BY SumOfNothing
<1>3. Sum(f, s) = f[x] + Sum(f, s \ {x}) /\ Sum(g, s) = g[x] + Sum(g, s \ {x})
  BY <1>1, <1>2, SumUnfolds
<1>4. x \in s /\ s \ {x} # s /\ s \ {x} \in SUBSET s
  BY <1>2
<1>5. Sum(f, s \ {x}) = Sum(g, s \ {x})
  BY <1>1, <1>4
<1> QED
  BY <1>3, <1>4, <1>5

LEMMA SumOfZeros ==
  ASSUME NEW f, NEW S, IsFiniteSet(S), \A x \in S : f[x] = 0
  PROVE  Sum(f, S) = 0
<1> DEFINE Family == {s \in SUBSET S : Sum(f, s) # 0}
<1> SUFFICES ASSUME Family # {} PROVE FALSE
  <2>1. Family = {} => Sum(f, S) = 0
    OBVIOUS
  <2> QED
    BY <2>1
<1>1. PICK s \in Family : IsFiniteSet(s) /\ \A t \in SUBSET s : t # s => t \notin Family
  <2>1. Family \subseteq SUBSET S
    OBVIOUS
  <2> HIDE DEF Family
  <2> QED
    BY <2>1, SmallestSubset
<1> DEFINE x == CHOOSE x \in s : TRUE
<1>2. s # {}
  BY SumOfNothing
<1>3. Sum(f, s) = f[x] + Sum(f, s \ {x})
  BY <1>1, <1>2, SumUnfolds
<1>4. x \in s /\ s \ {x} # s /\ s \ {x} \in SUBSET s
  BY <1>2
<1>5. Sum(f, s \ {x}) = 0
  BY <1>1, <1>4
<1> QED
  BY <1>3, <1>4, <1>5

(* One element more.                                                       *)
LEMMA SumWith ==
  ASSUME NEW f, NEW S, IsFiniteSet(S), NEW y, y \notin S,
         \A x \in S \cup {y} : f[x] \in Int
  PROVE  Sum(f, S \cup {y}) = Sum(f, S) + f[y]
<1>1. IsFiniteSet(S \cup {y}) /\ (S \cup {y}) \ {y} = S
  BY FS_AddElement
<1>2. Sum(f, S \cup {y}) = f[y] + Sum(f, S)
  BY <1>1, SumWithout
<1>3. Sum(f, S) \in Int /\ f[y] \in Int
  BY SumType
<1> QED
  BY <1>2, <1>3

(* One element counts differently.                                         *)
LEMMA SumChanges ==
  ASSUME NEW f, NEW g, NEW S, IsFiniteSet(S), NEW y \in S,
         \A x \in S : f[x] \in Int /\ g[x] \in Int,
         \A x \in S \ {y} : f[x] = g[x]
  PROVE  Sum(g, S) = Sum(f, S) - f[y] + g[y]
<1>1. IsFiniteSet(S \ {y})
  BY FS_Subset
<1>2. Sum(f, S \ {y}) = Sum(g, S \ {y}) /\ Sum(f, S \ {y}) \in Int
  BY <1>1, SumSame, SumType
<1>3. Sum(f, S) = f[y] + Sum(f, S \ {y}) /\ Sum(g, S) = g[y] + Sum(g, S \ {y})
  BY SumWithout
<1>4. f[y] \in Int /\ g[y] \in Int
  OBVIOUS
<1> QED
  BY <1>2, <1>3, <1>4

(* What counts for nothing or more adds up to each of its parts or more.   *)
LEMMA SumCovers ==
  ASSUME NEW f, NEW S, IsFiniteSet(S), \A x \in S : f[x] \in Nat
  PROVE  Sum(f, S) \in Nat /\ \A x \in S : f[x] <= Sum(f, S)
<1> DEFINE Family == {s \in SUBSET S : Sum(f, s) \notin Nat}
<1>1. Family = {}
  <2> SUFFICES ASSUME Family # {} PROVE FALSE
    OBVIOUS
  <2>1. PICK s \in Family : IsFiniteSet(s) /\ \A t \in SUBSET s : t # s => t \notin Family
    <3>1. Family \subseteq SUBSET S
      OBVIOUS
    <3> HIDE DEF Family
    <3> QED
      BY <3>1, SmallestSubset
  <2> DEFINE x == CHOOSE x \in s : TRUE
  <2>2. s # {}
    BY SumOfNothing
  <2>3. Sum(f, s) = f[x] + Sum(f, s \ {x})
    BY <2>1, <2>2, SumUnfolds
  <2>4. x \in s /\ s \ {x} # s /\ s \ {x} \in SUBSET s
    BY <2>2
  <2>5. Sum(f, s \ {x}) \in Nat
    BY <2>1, <2>4
  <2> QED
    BY <2>3, <2>4, <2>5
<1>2. \A s \in SUBSET S : Sum(f, s) \in Nat
  BY <1>1
<1> HIDE DEF Family
<1>3. ASSUME NEW x \in S PROVE f[x] <= Sum(f, S)
  <2>1. Sum(f, S) = f[x] + Sum(f, S \ {x})
    BY SumWithout
  <2>2. S \ {x} \in SUBSET S
    OBVIOUS
  <2>3. Sum(f, S \ {x}) \in Nat /\ f[x] \in Nat
    BY <1>2, <2>2
  <2> QED
    BY <2>1, <2>3
<1> QED
  BY <1>2, <1>3
=============================================================================
