------------------------ MODULE PaperAccount_proofs ------------------------
(***************************************************************************)
(* Proofs about PaperAccount for every number of requests, every price and *)
(* quantity: the types, what a balance can be, what may be sold, and that  *)
(* the balance and the shares are what the orders have come to.            *)
(***************************************************************************)
EXTENDS PaperAccount, FiniteSetTheorems, NaturalsInduction, WellFoundedInduction, TLAPS

-----------------------------------------------------------------------------
(* Sums                                                                    *)

Some(s) == CHOOSE x \in s : TRUE

\* How a sum over part of a set comes from a sum over less.
SumStep(f, g, s) == IF s = {} THEN 0 ELSE f[Some(s)] + g[s \ {Some(s)}]

Sums(f, S, g) == g = [s \in SUBSET S |-> SumStep(f, g, s)]

PartialSums(f, S) == CHOOSE g : Sums(f, S, g)

LEMMA SumUnfolds ==
    ASSUME NEW f, NEW S
    PROVE  SumFunctionOnSet(f, S) = PartialSums(f, S)[S]
  BY DEF SumFunctionOnSet, FoldFunctionOnSet, MapThenFoldSet, PartialSums, Sums, SumStep, Some

\* A sum over a finite set is defined: the sums over sets of at most n elements
\* give those over sets of n + 1.
LEMMA SumsExist ==
    ASSUME NEW S, IsFiniteSet(S), NEW f, \A x \in S : f[x] \in Int
    PROVE  \E g : Sums(f, S, g)
<1> DEFINE Up(n) == {s \in SUBSET S : Cardinality(s) <= n}
           Partly(n, g) == /\ g \in [Up(n) -> Int]
                         /\ \A s \in Up(n) : g[s] = SumStep(f, g, s)
           Missing == {n \in Nat : ~\E g : Partly(n, g)}
           R == OpToRel(<, Nat)
<1>1. ASSUME NEW s \in SUBSET S
      PROVE  /\ IsFiniteSet(s) /\ Cardinality(s) \in Nat
             /\ s # {} => /\ Some(s) \in s /\ f[Some(s)] \in Int
                          /\ s \ {Some(s)} \in SUBSET S
                          /\ Cardinality(s \ {Some(s)}) = Cardinality(s) - 1
                          /\ Cardinality(s) # 0
             /\ Cardinality(s) = 0 => s = {}
  <2>1. IsFiniteSet(s) /\ Cardinality(s) \in Nat BY FS_Subset, FS_CardinalityType
  <2>2. s # {} => Some(s) \in s BY DEF Some
  <2>3. Cardinality(s) = 0 <=> s = {} BY <2>1, FS_EmptySet
  <2>4. s # {} => Cardinality(s \ {Some(s)}) = Cardinality(s) - 1
    BY <2>1, <2>2, FS_RemoveElement
  <2>5. QED BY <2>1, <2>2, <2>3, <2>4
<1>2. ASSUME Missing # {} PROVE FALSE
  <2>1. PICK n \in Missing : \A k \in Missing : ~(<<k, n>> \in R)
    <3>1. IsWellFoundedOn(R, Nat) BY NatLessThanWellFounded DEF R
    <3>2. Missing \subseteq Nat OBVIOUS
    <3> HIDE DEF Missing, R
    <3>3. QED BY <1>2, <3>1, <3>2, WFMin
  <2>2. CASE n = 0
    <3> DEFINE g == [s \in Up(0) |-> 0]
    <3>1. ASSUME NEW s \in Up(0) PROVE s = {}
      <4>1. s \in SUBSET S /\ Cardinality(s) <= 0 OBVIOUS
      <4>2. Cardinality(s) \in Nat BY <1>1, <4>1
      <4>3. Cardinality(s) = 0 BY <4>1, <4>2
      <4>4. QED BY <1>1, <4>1, <4>3
    <3>2. g \in [Up(0) -> Int] OBVIOUS
    <3>3. \A s \in Up(0) : g[s] = SumStep(f, g, s) BY <3>1 DEF SumStep
    <3> HIDE DEF g
    <3>4. Partly(0, g) BY <3>2, <3>3
    <3>5. QED BY <2>2, <3>4
  <2>3. CASE n # 0
    <3>1. n - 1 \in Nat /\ n \in Nat BY <2>3
    <3>2. <<n - 1, n>> \in R BY <3>1 DEF OpToRel
    <3>3. n - 1 \notin Missing BY <2>1, <3>2
    <3>4. PICK h : Partly(n - 1, h) BY <3>1, <3>3
    <3> DEFINE g == [s \in Up(n) |-> IF s \in Up(n - 1) THEN h[s] ELSE f[Some(s)] + h[s \ {Some(s)}]]
    <3>5. ASSUME NEW s \in Up(n) PROVE g[s] \in Int /\ g[s] = SumStep(f, g, s)
      <4>1. CASE s = {}
        <5>1. s \in Up(n - 1)
          <6>1. Cardinality({}) = 0 BY FS_EmptySet
          <6>2. QED BY <3>1, <4>1, <6>1
        <5>2. h[s] = 0 BY <3>4, <4>1, <5>1 DEF SumStep
        <5>3. QED BY <4>1, <5>1, <5>2 DEF SumStep
      <4>2. CASE s # {}
        <5>1. s \ {Some(s)} \in Up(n - 1) /\ s \ {Some(s)} \in Up(n) /\ f[Some(s)] \in Int
          BY <1>1, <3>1, <4>2
        <5>2. g[s \ {Some(s)}] = h[s \ {Some(s)}] /\ h[s \ {Some(s)}] \in Int
          BY <3>4, <5>1
        <5>3. SumStep(f, g, s) = f[Some(s)] + h[s \ {Some(s)}] BY <4>2, <5>2 DEF SumStep
        <5>4. s \in Up(n - 1) => h[s] = f[Some(s)] + h[s \ {Some(s)}]
          BY <3>4, <4>2 DEF SumStep
        <5>5. g[s] = f[Some(s)] + h[s \ {Some(s)}] BY <5>4
        <5>6. QED BY <5>1, <5>2, <5>3, <5>5
      <4>3. QED BY <4>1, <4>2
    <3>6. Partly(n, g) BY <3>5
    <3>7. QED BY <3>6
  <2>4. QED BY <2>2, <2>3
<1>3. Cardinality(S) \in Nat BY FS_CardinalityType
<1>4. PICK g : Partly(Cardinality(S), g) BY <1>2, <1>3
<1>5. Up(Cardinality(S)) = SUBSET S BY FS_Subset
<1>6. g \in [SUBSET S -> Int] /\ \A s \in SUBSET S : g[s] = SumStep(f, g, s)
  BY <1>4, <1>5
<1>7. Sums(f, S, g) BY <1>6 DEF Sums
<1>8. QED BY <1>7

\* The cardinality of a smaller sum.
LEMMA SomeRemoved ==
    ASSUME NEW S, IsFiniteSet(S), NEW s \in SUBSET S, s # {}
    PROVE  /\ Some(s) \in s /\ s \ {Some(s)} \in SUBSET S
           /\ Cardinality(s) \in Nat /\ Cardinality(s \ {Some(s)}) \in Nat
           /\ Cardinality(s \ {Some(s)}) < Cardinality(s)
<1>1. IsFiniteSet(s) /\ Cardinality(s) \in Nat BY FS_Subset, FS_CardinalityType
<1>2. Some(s) \in s BY DEF Some
<1>3. IsFiniteSet(s \ {Some(s)}) /\ Cardinality(s \ {Some(s)}) = Cardinality(s) - 1
  BY <1>1, <1>2, FS_RemoveElement
<1>4. Cardinality(s \ {Some(s)}) \in Nat BY <1>3, FS_CardinalityType
<1>5. QED BY <1>1, <1>2, <1>3, <1>4

\* The sum over part of S is an integer, none over nothing, and otherwise made of
\* some element and of the sum over the rest.
LEMMA PartialSumFacts ==
    ASSUME NEW S, IsFiniteSet(S), NEW f, \A x \in S : f[x] \in Int
    PROVE  \A s \in SUBSET S : /\ PartialSums(f, S)[s] \in Int
                               /\ PartialSums(f, S)[s] = SumStep(f, PartialSums(f, S), s)
<1> DEFINE R == OpToRel(<, Nat)
<1>1. Sums(f, S, PartialSums(f, S)) BY SumsExist DEF PartialSums
<1>2. SUFFICES ASSUME NEW g, Sums(f, S, g)
               PROVE  \A s \in SUBSET S : g[s] \in Int /\ g[s] = SumStep(f, g, s)
  BY <1>1
<1>4. \A s \in SUBSET S : g[s] = SumStep(f, g, s) BY <1>2 DEF Sums
<1> DEFINE Odd == {s \in SUBSET S : g[s] \notin Int}
           Sizes == {Cardinality(s) : s \in Odd}
<1>5. ASSUME Odd # {} PROVE FALSE
  <2>1. PICK n \in Sizes : \A k \in Sizes : ~(<<k, n>> \in R)
    <3>1. IsWellFoundedOn(R, Nat) BY NatLessThanWellFounded DEF R
    <3>2. Sizes \subseteq Nat BY FS_Subset, FS_CardinalityType
    <3>3. Sizes # {} BY <1>5
    <3> HIDE DEF Sizes, R
    <3>4. QED BY <3>1, <3>2, <3>3, WFMin
  <2>2. PICK s \in Odd : Cardinality(s) = n OBVIOUS
  <2>3. CASE s = {}
    <3>1. s \in SUBSET S /\ g[s] \notin Int OBVIOUS
    <3>2. g[s] = SumStep(f, g, s) BY <1>4, <3>1
    <3>3. SumStep(f, g, s) = 0 BY <2>3 DEF SumStep
    <3>4. QED BY <3>1, <3>2, <3>3
  <2>4. CASE s # {}
    <3>1. /\ Some(s) \in s /\ s \ {Some(s)} \in SUBSET S
          /\ Cardinality(s) \in Nat /\ Cardinality(s \ {Some(s)}) \in Nat
          /\ Cardinality(s \ {Some(s)}) < Cardinality(s)
      BY <2>4, SomeRemoved
    <3>2. <<Cardinality(s \ {Some(s)}), n>> \in R BY <2>2, <3>1 DEF OpToRel
    <3>3. s \ {Some(s)} \notin Odd BY <2>1, <3>2
    <3>4. g[s \ {Some(s)}] \in Int /\ f[Some(s)] \in Int BY <3>1, <3>3
    <3>5. g[s] = f[Some(s)] + g[s \ {Some(s)}] BY <1>4, <2>4 DEF SumStep
    <3>6. QED BY <3>4, <3>5
  <2>5. QED BY <2>3, <2>4
<1>6. QED BY <1>4, <1>5

\* A sum of finitely many integers is one.
LEMMA SumTypes ==
    ASSUME NEW S, IsFiniteSet(S), NEW f, \A x \in S : f[x] \in Int
    PROVE  SumFunctionOnSet(f, S) \in Int
  BY SumUnfolds, PartialSumFacts

\* A sum over nothing and over one element.
LEMMA SumOfNone == ASSUME NEW f PROVE SumFunctionOnSet(f, {}) = 0
<1>1. IsFiniteSet({}) BY FS_EmptySet
<1>2. PartialSums(f, {})[{}] = SumStep(f, PartialSums(f, {}), {}) BY <1>1, PartialSumFacts
<1>3. QED BY <1>2, SumUnfolds DEF SumStep

LEMMA SumOfOne ==
    ASSUME NEW f, NEW x, f[x] \in Int
    PROVE  SumFunctionOnSet(f, {x}) = f[x]
<1> DEFINE g == PartialSums(f, {x})
<1>1. IsFiniteSet({x}) BY FS_Singleton
<1>2. \A s \in SUBSET {x} : g[s] \in Int /\ g[s] = SumStep(f, g, s)
  BY <1>1, PartialSumFacts
<1>3. Some({x}) = x /\ {x} \ {Some({x})} = {} BY DEF Some
<1> HIDE DEF g
<1>4. g[{}] = 0 BY <1>2 DEF SumStep
<1>5. g[{x}] = f[x] + g[{}] BY <1>2, <1>3 DEF SumStep
<1>6. QED BY <1>4, <1>5, SumUnfolds DEF g

\* Among sets of finitely many elements there is one that holds no other.
LEMMA SmallestSet ==
    ASSUME NEW S, IsFiniteSet(S), NEW Odd \in SUBSET (SUBSET S), Odd # {}
    PROVE  \E s \in Odd : \A t \in SUBSET s : t # s => t \notin Odd
<1> DEFINE R == OpToRel(<, Nat)
           Sizes == {Cardinality(s) : s \in Odd}
<1>1. PICK n \in Sizes : \A k \in Sizes : ~(<<k, n>> \in R)
  <2>1. IsWellFoundedOn(R, Nat) BY NatLessThanWellFounded DEF R
  <2>2. Sizes \subseteq Nat BY FS_Subset, FS_CardinalityType
  <2>3. Sizes # {} OBVIOUS
  <2> HIDE DEF Sizes, R
  <2>4. QED BY <2>1, <2>2, <2>3, WFMin
<1>2. PICK s \in Odd : Cardinality(s) = n OBVIOUS
<1>3. ASSUME NEW t \in SUBSET s, t # s, t \in Odd PROVE FALSE
  <2>1. IsFiniteSet(s) /\ Cardinality(s) \in Nat BY FS_Subset, FS_CardinalityType
  <2>2. IsFiniteSet(t) /\ Cardinality(t) \in Nat /\ Cardinality(t) < Cardinality(s)
    BY <1>3, <2>1, FS_Subset, FS_CardinalityType
  <2>3. <<Cardinality(t), n>> \in R BY <1>2, <2>1, <2>2 DEF OpToRel
  <2>4. Cardinality(t) \in Sizes BY <1>3
  <2>5. QED BY <1>1, <2>3, <2>4
<1>4. QED BY <1>2, <1>3

LEMMA SomeOf == ASSUME NEW s, s # {} PROVE Some(s) \in s
BY DEF Some

\* A partial sum does not depend on the set it is part of.
LEMMA PartialSumIsSum ==
    ASSUME NEW S, IsFiniteSet(S), NEW f, \A x \in S : f[x] \in Int, NEW s \in SUBSET S
    PROVE  PartialSums(f, S)[s] = SumFunctionOnSet(f, s)
<1> DEFINE Odd == {t \in SUBSET s : PartialSums(f, S)[t] # PartialSums(f, s)[t]}
<1>1. IsFiniteSet(s) /\ \A x \in s : f[x] \in Int BY FS_Subset
<1>2. ASSUME Odd # {} PROVE FALSE
  <2>1. Odd \in SUBSET (SUBSET s) OBVIOUS
  <2>2. PICK t \in Odd : \A u \in SUBSET t : u # t => u \notin Odd
    <3> HIDE DEF Odd
    <3>1. QED BY <1>1, <1>2, <2>1, SmallestSet
  <2>3. t \in SUBSET s /\ t \in SUBSET S OBVIOUS
  <2>4. /\ PartialSums(f, S)[t] = SumStep(f, PartialSums(f, S), t)
        /\ PartialSums(f, s)[t] = SumStep(f, PartialSums(f, s), t)
    BY <1>1, <2>3, PartialSumFacts
  <2>5. t # {} BY <2>4 DEF SumStep
  <2>6. Some(t) \in t BY <2>5, SomeOf
  <2> DEFINE u == t \ {Some(t)}
  <2>7. u \in SUBSET t /\ u # t /\ u \in SUBSET s BY <2>3, <2>6
  <2>8. PartialSums(f, S)[u] = PartialSums(f, s)[u] BY <2>2, <2>7
  <2>9. SumStep(f, PartialSums(f, S), t) = SumStep(f, PartialSums(f, s), t)
    BY <2>5, <2>8 DEF SumStep
  <2>10. QED BY <2>4, <2>9
<1>3. s \notin Odd BY <1>2
<1>4. QED BY <1>3, SumUnfolds

\* A sum is that of some element and the rest.
LEMMA SumUnfold ==
    ASSUME NEW S, IsFiniteSet(S), NEW f, \A x \in S : f[x] \in Int, S # {}
    PROVE  /\ Some(S) \in S
           /\ SumFunctionOnSet(f, S) = f[Some(S)] + SumFunctionOnSet(f, S \ {Some(S)})
<1>1. Some(S) \in S BY SomeOf
<1>2. S \in SUBSET S /\ S \ {Some(S)} \in SUBSET S OBVIOUS
<1>3. PartialSums(f, S)[S] = SumStep(f, PartialSums(f, S), S) BY <1>2, PartialSumFacts
<1>4. PartialSums(f, S)[S] = f[Some(S)] + PartialSums(f, S)[S \ {Some(S)}]
  BY <1>3 DEF SumStep
<1>5. /\ PartialSums(f, S)[S] = SumFunctionOnSet(f, S)
      /\ PartialSums(f, S)[S \ {Some(S)}] = SumFunctionOnSet(f, S \ {Some(S)})
  BY <1>2, PartialSumIsSum
<1>6. QED BY <1>1, <1>4, <1>5

\* ... and of any element and the rest: the order does not matter.
LEMMA SumSplits ==
    ASSUME NEW S, IsFiniteSet(S), NEW f, \A x \in S : f[x] \in Int, NEW x \in S
    PROVE  SumFunctionOnSet(f, S) = f[x] + SumFunctionOnSet(f, S \ {x})
<1> DEFINE Sum(s) == SumFunctionOnSet(f, s)
           Odd == {s \in SUBSET S : \E z \in s : Sum(s) # f[z] + Sum(s \ {z})}
<1>1. ASSUME NEW s \in SUBSET S
      PROVE  /\ Sum(s) \in Int
             /\ s # {} => Some(s) \in s /\ Sum(s) = f[Some(s)] + Sum(s \ {Some(s)})
  <2>1. IsFiniteSet(s) /\ \A y \in s : f[y] \in Int BY FS_Subset
  <2>2. QED BY <2>1, SumTypes, SumUnfold
<1>2. ASSUME Odd # {} PROVE FALSE
  <2>1. Odd \in SUBSET (SUBSET S) OBVIOUS
  <2>2. PICK s \in Odd : \A t \in SUBSET s : t # s => t \notin Odd
    <3> HIDE DEF Odd
    <3>1. QED BY <1>2, <2>1, SmallestSet
  <2>3. PICK z \in s : Sum(s) # f[z] + Sum(s \ {z}) OBVIOUS
  <2>4. PICK y \in s : y = Some(s) /\ Sum(s) = f[y] + Sum(s \ {y}) BY <1>1, <2>3
  <2>5. y # z BY <2>3, <2>4
  <2> DEFINE both == s \ {y, z}
  <2>6. /\ s \ {y} \in SUBSET s /\ s \ {y} # s /\ z \in s \ {y}
        /\ s \ {z} \in SUBSET s /\ s \ {z} # s /\ y \in s \ {z}
        /\ (s \ {y}) \ {z} = both /\ (s \ {z}) \ {y} = both /\ both \in SUBSET S
    BY <2>3, <2>5
  <2>7. \A t \in SUBSET s : t # s => \A q \in t : Sum(t) = f[q] + Sum(t \ {q})
    <3>1. ASSUME NEW t \in SUBSET s, t # s, NEW q \in t PROVE Sum(t) = f[q] + Sum(t \ {q})
      <4>1. t \notin Odd /\ t \in SUBSET S BY <2>2, <3>1
      <4>2. QED BY <3>1, <4>1
    <3>2. QED BY <3>1
  <2>8. f[y] \in Int /\ f[z] \in Int /\ Sum(both) \in Int BY <1>1, <2>3, <2>6
  <2> HIDE DEF Sum, both, Odd
  <2>9. Sum(s \ {y}) = f[z] + Sum(both) /\ Sum(s \ {z}) = f[y] + Sum(both)
    BY <2>6, <2>7
  <2>10. QED BY <2>3, <2>4, <2>8, <2>9
<1>3. S \notin Odd BY <1>2
<1>4. QED BY <1>3

\* A sum only depends on the terms it adds.
LEMMA SumOfSame ==
    ASSUME NEW S, IsFiniteSet(S), NEW f, NEW g, \A x \in S : f[x] \in Int /\ g[x] = f[x]
    PROVE  SumFunctionOnSet(f, S) = SumFunctionOnSet(g, S)
<1> DEFINE Odd == {s \in SUBSET S : SumFunctionOnSet(f, s) # SumFunctionOnSet(g, s)}
<1>1. ASSUME Odd # {} PROVE FALSE
  <2>1. Odd \in SUBSET (SUBSET S) OBVIOUS
  <2>2. PICK s \in Odd : \A t \in SUBSET s : t # s => t \notin Odd
    <3> HIDE DEF Odd
    <3>1. QED BY <1>1, <2>1, SmallestSet
  <2>3. /\ IsFiniteSet(s) /\ \A x \in s : f[x] \in Int /\ g[x] \in Int /\ g[x] = f[x]
    BY FS_Subset
  <2>4. s # {} BY SumOfNone
  <2> DEFINE t == s \ {Some(s)}
  <2>5. /\ Some(s) \in s
        /\ SumFunctionOnSet(f, s) = f[Some(s)] + SumFunctionOnSet(f, t)
        /\ SumFunctionOnSet(g, s) = g[Some(s)] + SumFunctionOnSet(g, t)
    BY <2>3, <2>4, SumUnfold
  <2>6. t \in SUBSET s /\ t # s /\ t \in SUBSET S BY <2>5
  <2>7. SumFunctionOnSet(f, t) = SumFunctionOnSet(g, t) BY <2>2, <2>6
  <2>8. QED BY <2>3, <2>5, <2>7
<1>2. S \notin Odd BY <1>1
<1>3. QED BY <1>2

\* One more term.
LEMMA SumOfMore ==
    ASSUME NEW S, IsFiniteSet(S), NEW x, x \notin S,
           NEW f, \A y \in S \cup {x} : f[y] \in Int
    PROVE  SumFunctionOnSet(f, S \cup {x}) = f[x] + SumFunctionOnSet(f, S)
<1>1. IsFiniteSet(S \cup {x}) /\ x \in S \cup {x} /\ (S \cup {x}) \ {x} = S
  BY FS_AddElement
<1>2. QED BY <1>1, SumSplits

\* Terms that are zero add nothing.
LEMMA SumOfZeros ==
    ASSUME NEW T, IsFiniteSet(T), NEW f, \A x \in T : f[x] \in Int,
           NEW S \in SUBSET T, \A x \in T \ S : f[x] = 0
    PROVE  SumFunctionOnSet(f, T) = SumFunctionOnSet(f, S)
<1> DEFINE Odd == {s \in SUBSET T : SumFunctionOnSet(f, s) # SumFunctionOnSet(f, s \cap S)}
<1>1. ASSUME Odd # {} PROVE FALSE
  <2>1. Odd \in SUBSET (SUBSET T) OBVIOUS
  <2>2. PICK s \in Odd : \A t \in SUBSET s : t # s => t \notin Odd
    <3> HIDE DEF Odd
    <3>1. QED BY <1>1, <2>1, SmallestSet
  <2>3. s \in SUBSET T /\ SumFunctionOnSet(f, s) # SumFunctionOnSet(f, s \cap S) OBVIOUS
  <2>4. PICK x \in s : x \notin S
    <3>1. s \subseteq S => s \cap S = s OBVIOUS
    <3>2. QED BY <2>3, <3>1
  <2> DEFINE t == s \ {x}
  <2>5. t \in SUBSET s /\ t # s /\ t \in SUBSET T /\ t \cap S = s \cap S BY <2>3, <2>4
  <2>6. SumFunctionOnSet(f, t) = SumFunctionOnSet(f, s \cap S) BY <2>2, <2>5
  <2>7. IsFiniteSet(s) /\ IsFiniteSet(t) /\ \A y \in s : f[y] \in Int
    BY <2>3, <2>5, FS_Subset
  <2>8. SumFunctionOnSet(f, s) = f[x] + SumFunctionOnSet(f, t) BY <2>7, SumSplits
  <2>9. f[x] = 0 BY <2>3, <2>4
  <2>10. SumFunctionOnSet(f, t) \in Int
    <3>1. \A y \in t : f[y] \in Int BY <2>7
    <3> HIDE DEF t
    <3>2. QED BY <2>7, <3>1, SumTypes
  <2>11. QED BY <2>3, <2>6, <2>8, <2>9, <2>10
<1>2. T \notin Odd /\ T \cap S = S BY <1>1
<1>3. QED BY <1>2

\* The same terms under other names.
Renames(h, S, T) ==
    /\ \A x \in S : h[x] \in T
    /\ \A y \in T : \E x \in S : y = h[x]
    /\ \A x, y \in S : h[x] = h[y] => x = y

LEMMA SumOfImage ==
    ASSUME NEW S, IsFiniteSet(S), NEW T, IsFiniteSet(T), NEW h, Renames(h, S, T),
           NEW f, NEW g, \A x \in S : f[x] \in Int /\ g[h[x]] = f[x]
    PROVE  SumFunctionOnSet(f, S) = SumFunctionOnSet(g, T)
<1>0. T = {h[x] : x \in S} /\ \A x, y \in S : h[x] = h[y] => x = y BY DEF Renames
<1> DEFINE image(s) == {h[x] : x \in s}
           Odd == {s \in SUBSET S : SumFunctionOnSet(f, s) # SumFunctionOnSet(g, image(s))}
<1>1. ASSUME Odd # {} PROVE FALSE
  <2>1. Odd \in SUBSET (SUBSET S) OBVIOUS
  <2>2. PICK s \in Odd : \A t \in SUBSET s : t # s => t \notin Odd
    <3> HIDE DEF Odd
    <3>1. QED BY <1>1, <2>1, SmallestSet
  <2>3. s \in SUBSET S /\ SumFunctionOnSet(f, s) # SumFunctionOnSet(g, image(s)) OBVIOUS
  <2>4. /\ IsFiniteSet(s) /\ \A x \in s : f[x] \in Int
        /\ IsFiniteSet(image(s)) /\ \A y \in image(s) : g[y] \in Int
    <3>1. image(s) \in SUBSET T BY <1>0, <2>3
    <3>2. IsFiniteSet(image(s))
      <4> HIDE DEF image
      <4>1. QED BY <3>1, FS_Subset
    <3>3. \A y \in image(s) : g[y] \in Int BY <2>3
    <3> HIDE DEF image
    <3>4. QED BY <2>3, <3>2, <3>3, FS_Subset
  <2>5. PICK x \in s : TRUE
    <3>1. s = {} => image(s) = {} OBVIOUS
    <3>2. QED BY <2>3, <3>1, SumOfNone
  <2> DEFINE t == s \ {x}
  <2>6. SumFunctionOnSet(f, s) = f[x] + SumFunctionOnSet(f, t) BY <2>4, SumSplits
  <2>7. image(s) \ {h[x]} = image(t) BY <1>0, <2>3
  <2>8. SumFunctionOnSet(g, image(s)) = g[h[x]] + SumFunctionOnSet(g, image(t))
    <3>1. h[x] \in image(s) OBVIOUS
    <3> HIDE DEF image
    <3>2. QED BY <2>4, <2>7, <3>1, SumSplits
  <2>9. SumFunctionOnSet(f, t) = SumFunctionOnSet(g, image(t)) BY <2>2, <2>3
  <2>10. QED BY <2>3, <2>6, <2>8, <2>9
<1>2. S \notin Odd BY <1>1
<1>3. QED BY <1>0, <1>2

-----------------------------------------------------------------------------
(* Types and the balance                                                   *)

PositionRecords == [id: Nat, qty: Int]

OrderRecords == [n: Nat, pc: Places, side: {"buy", "sell"}, qty: Nat, price: Nat,
                 cash: Int, id: Nat, held: Int, avail: Int,
                 old: BOOLEAN, disturbed: BOOLEAN]

\* Some sale earns less than its fees.
Cheap == \E p \in Prices, q \in Quantities : p * q < Fee

\* What an order carries: a buy that is about to pay has read enough cash.
Sound(o) ==
    /\ o \in OrderRecords
    /\ o.pc # "idle" => o.qty \in Quantities
    /\ o.pc \in {"held", "trades", "payIn"} => o.price \in Prices
    /\ o.pc = "pay" => o.cash >= Cost(o)

CashInv ==
    /\ account \in [exists: BOOLEAN, cash: Int]
    /\ positions \in Seq(PositionRecords)
    /\ req \in [Requests -> OrderRecords] /\ \A r \in Requests : Sound(req[r])
    /\ Cheap \/ account.cash >= 0

LEMMA NoOrderSound == Sound(NoOrder)
BY DEF Sound, NoOrder, OrderRecords, Places

LEMMA AccountFacts ==
    ASSUME CashInv
    PROVE  account.exists \in BOOLEAN /\ account.cash \in Int /\ (Cheap \/ account.cash >= 0)
BY DEF CashInv

\* An account that is set to a balance, or opened.
LEMMA BalanceKept ==
    ASSUME CashInv, NEW cash \in Int, Cheap \/ cash >= 0,
           account' = IF account.exists THEN [account EXCEPT !.cash = cash] ELSE account
    PROVE  account' \in [exists: BOOLEAN, cash: Int] /\ (Cheap \/ account'.cash >= 0)
BY DEF CashInv

LEMMA CreateKept ==
    ASSUME CashInv, CreateAccount
    PROVE  account' \in [exists: BOOLEAN, cash: Int] /\ (Cheap \/ account'.cash >= 0)
BY PaperConstants DEF CashInv, CreateAccount

LEMMA FirstPositionTypes ==
    ASSUME CashInv
    PROVE  FirstPosition.id \in Nat /\ FirstPosition.qty \in Int
<1>1. CASE positions = <<>> BY <1>1 DEF FirstPosition
<1>2. CASE positions # <<>>
  <2>1. positions[1] \in PositionRecords BY <1>2 DEF CashInv
  <2>2. QED BY <1>2, <2>1 DEF FirstPosition, PositionRecords
<1>3. QED BY <1>1, <1>2

\* The ways the orders change: one of them goes on, or all keep what matters.
LEMMA OneOrder ==
    ASSUME CashInv, NEW r \in Requests, NEW o, Sound(o), req' = [req EXCEPT ![r] = o]
    PROVE  req' \in [Requests -> OrderRecords] /\ \A x \in Requests : Sound(req'[x])
<1>1. o \in OrderRecords BY DEF Sound
<1>2. req' \in [Requests -> OrderRecords] BY <1>1 DEF CashInv
<1>3. \A x \in Requests : req'[x] = o \/ req'[x] = req[x] BY DEF CashInv
<1>4. QED BY <1>2, <1>3 DEF CashInv

LEMMA LeaveKept ==
    ASSUME CashInv, NEW r \in Requests, Leave(r)
    PROVE  req' \in [Requests -> OrderRecords] /\ \A x \in Requests : Sound(req'[x])
BY NoOrderSound, OneOrder DEF Leave

LEMMA GotoKept ==
    ASSUME CashInv, NEW r \in Requests, NEW pc \in Places \ {"pay"}, Goto(r, pc),
           req[r].pc # "idle",
           pc = "payIn" => req[r].pc \in {"held", "trades"}, pc \notin {"held", "trades"}
    PROVE  req' \in [Requests -> OrderRecords] /\ \A x \in Requests : Sound(req'[x])
<1> DEFINE o == [req[r] EXCEPT !.pc = pc]
<1>1. Sound(req[r]) /\ req[r] \in OrderRecords BY DEF CashInv, Sound
<1>2. o \in OrderRecords BY <1>1 DEF OrderRecords
<1>3. o.pc = pc /\ o.qty = req[r].qty /\ o.price = req[r].price BY <1>1 DEF OrderRecords
<1>4. req' = [req EXCEPT ![r] = o] BY DEF Goto
<1> HIDE DEF o
<1>5. Sound(o) BY <1>1, <1>2, <1>3 DEF Sound
<1>6. QED BY <1>4, <1>5, OneOrder

\* The positions keep their types, whatever is set, inserted or deleted.
LEMMA SetTypes ==
    ASSUME CashInv, NEW id, NEW qty \in Int
    PROVE  SetQuantity(id, qty) \in Seq(PositionRecords)
<1> DEFINE set(i) == IF positions[i].id = id THEN [positions[i] EXCEPT !.qty = qty]
                     ELSE positions[i]
<1>1. positions \in Seq(PositionRecords) BY DEF CashInv
<1>2. ASSUME NEW i \in 1 .. Len(positions) PROVE set(i) \in PositionRecords
  <2>1. positions[i] \in PositionRecords BY <1>1
  <2>2. QED BY <2>1 DEF PositionRecords
<1>3. SetQuantity(id, qty) = [i \in 1 .. Len(positions) |-> set(i)]
  BY <1>1 DEF SetQuantity
<1> HIDE DEF set
<1>4. QED BY <1>1, <1>2, <1>3

LEMMA DeleteTypes ==
    ASSUME CashInv, NEW id PROVE DeletePosition(id) \in Seq(PositionRecords)
<1> DEFINE found == {i \in DOMAIN positions : positions[i].id = id}
           i == CHOOSE j \in found : TRUE
<1>1. positions \in Seq(PositionRecords) BY DEF CashInv
<1>2. CASE found = {} BY <1>1, <1>2 DEF DeletePosition
<1>3. CASE found # {}
  <2>1. i \in found BY <1>3
  <2>2. i \in 1 .. Len(positions) BY <1>1, <2>1
  <2> HIDE DEF i
  <2>3. SubSeq(positions, 1, i - 1) \in Seq(PositionRecords)
        /\ SubSeq(positions, i + 1, Len(positions)) \in Seq(PositionRecords)
    BY <1>1, <2>2
  <2>4. DeletePosition(id) = SubSeq(positions, 1, i - 1)
                               \o SubSeq(positions, i + 1, Len(positions))
    BY <1>3 DEF DeletePosition, i
  <2>5. QED BY <2>3, <2>4
<1>4. QED BY <1>2, <1>3

LEMMA PlaceKept ==
    ASSUME CashInv, NEW r \in Requests, NEW side \in {"buy", "sell"}, NEW qty \in Quantities,
           PlaceOrder(r, side, qty), paperUsed' \in [{"orders", "mishaps"} -> Nat]
    PROVE  req' \in [Requests -> OrderRecords] /\ \A x \in Requests : Sound(req'[x])
<1> DEFINE n == paperUsed'["orders"]
           disturbed == ~AtRest
           o == [NoOrder EXCEPT !.n = n, !.pc = "account",
                                !.side = side, !.qty = qty, !.disturbed = disturbed]
           other(x) == [req[x] EXCEPT !.disturbed = Busy(x)]
<1>1. AtRest \in BOOLEAN /\ \A x \in Requests : Busy(x) \in BOOLEAN BY DEF AtRest, Busy
<1>2. qty \in Nat /\ paperUsed'["orders"] \in Nat BY PaperConstants
<1>3. o \in OrderRecords /\ o.pc = "account" /\ o.qty = qty
  <2>1. NoOrder \in OrderRecords BY NoOrderSound DEF Sound
  <2>2. "account" \in Places BY DEF Places
  <2>3. n \in Nat /\ qty \in Nat /\ disturbed \in BOOLEAN BY <1>1, <1>2
  <2> HIDE DEF n, disturbed
  <2>4. o \in OrderRecords BY <2>1, <2>2, <2>3 DEF OrderRecords
  <2>5. o.pc = "account" /\ o.qty = qty BY <2>1 DEF OrderRecords
  <2>6. QED BY <2>4, <2>5
<1>4. ASSUME NEW x \in Requests PROVE Sound(other(x))
  <2>1. Sound(req[x]) /\ req[x] \in OrderRecords BY DEF CashInv, Sound
  <2>2. /\ other(x) \in OrderRecords /\ other(x).pc = req[x].pc /\ other(x).qty = req[x].qty
        /\ other(x).price = req[x].price /\ other(x).cash = req[x].cash
    BY <1>1, <2>1 DEF OrderRecords
  <2> HIDE DEF other
  <2>3. QED BY <2>1, <2>2 DEF Sound, Cost
<1>5. req' = [x \in Requests |-> IF x = r THEN o ELSE other(x)] BY DEF PlaceOrder
<1> HIDE DEF o, other
<1>6. Sound(o) BY <1>3 DEF Sound
<1>7. \A x \in Requests : Sound(req'[x]) BY <1>4, <1>5, <1>6
<1>8. req' \in [Requests -> OrderRecords] BY <1>5, <1>7 DEF Sound
<1>9. QED BY <1>7, <1>8

LEMMA ReadAccountKept ==
    ASSUME CashInv, NEW r \in Requests, ReadAccount(r)
    PROVE  req' \in [Requests -> OrderRecords] /\ \A x \in Requests : Sound(req'[x])
<1> DEFINE cash == IF account.exists THEN account.cash ELSE InitialCash
           pc == IF account.exists THEN "position" ELSE "create"
           o == [req[r] EXCEPT !.cash = cash, !.pc = pc]
<1>1. Sound(req[r]) /\ req[r] \in OrderRecords /\ req[r].pc = "account"
  BY DEF CashInv, Sound, ReadAccount
<1>2. cash \in Int /\ pc \in Places /\ pc \in {"position", "create"}
  BY PaperConstants, AccountFacts DEF Places
<1>3. req' = [req EXCEPT ![r] = o] BY <1>1 DEF ReadAccount, CashInv, OrderRecords
<1> HIDE DEF cash, pc
<1>4. o \in OrderRecords /\ o.pc = pc /\ o.qty = req[r].qty BY <1>1, <1>2 DEF OrderRecords
<1> HIDE DEF o
<1>5. Sound(o) BY <1>1, <1>2, <1>4 DEF Sound
<1>6. QED BY <1>3, <1>5, OneOrder

LEMMA ReadPositionKept ==
    ASSUME CashInv, NEW r \in Requests, NEW price \in Prices, ReadPosition(r, price)
    PROVE  req' \in [Requests -> OrderRecords] /\ \A x \in Requests : Sound(req'[x])
<1> DEFINE o == [req[r] EXCEPT !.price = price, !.id = FirstPosition.id,
                               !.held = FirstPosition.qty]
           held == [o EXCEPT !.pc = "held"]
           pay == [o EXCEPT !.pc = "pay"]
<1>1. Sound(req[r]) /\ req[r] \in OrderRecords /\ req[r].pc = "position"
  BY DEF CashInv, Sound, ReadPosition
<1>2. price \in Nat BY PaperConstants
<1>3. /\ o \in OrderRecords /\ o.price = price /\ o.qty = req[r].qty /\ o.cash = req[r].cash
      /\ o.side \in {"buy", "sell"}
  BY <1>1, <1>2, FirstPositionTypes DEF OrderRecords
<1>4. req[r].qty \in Quantities BY <1>1 DEF Sound
<1>5. (CASE o.side = "sell" -> req' = [req EXCEPT ![r] = held]
         [] o.side = "buy" /\ o.cash >= Cost(o) -> req' = [req EXCEPT ![r] = pay]
         [] OTHER -> Leave(r))
  BY DEF ReadPosition
<1> HIDE DEF o
<1>6. /\ held \in OrderRecords /\ held.pc = "held" /\ held.price = price /\ held.qty = o.qty
      /\ pay \in OrderRecords /\ pay.pc = "pay" /\ pay.price = price /\ pay.qty = o.qty
      /\ pay.cash = o.cash
  BY <1>3 DEF OrderRecords, Places
<1> HIDE DEF held, pay
<1>7. Sound(held) BY <1>3, <1>4, <1>6 DEF Sound
<1>8. o.cash >= Cost(o) => Sound(pay) BY <1>3, <1>4, <1>6 DEF Sound, Cost
<1>9. CASE o.side = "sell"
  <2>1. req' = [req EXCEPT ![r] = held] BY <1>5, <1>9
  <2>2. QED BY <1>7, <2>1, OneOrder
<1>10. CASE o.side = "buy" /\ o.cash >= Cost(o)
  <2>1. req' = [req EXCEPT ![r] = pay] BY <1>5, <1>10
  <2>2. QED BY <1>8, <1>10, <2>1, OneOrder
<1>11. CASE o.side = "buy" /\ ~(o.cash >= Cost(o))
  <2>1. Leave(r) BY <1>5, <1>11
  <2>2. QED BY <2>1, LeaveKept
<1>12. QED BY <1>3, <1>9, <1>10, <1>11

LEMMA SellableKept ==
    ASSUME CashInv, NEW r \in Requests, NEW available, Sellable(r, available),
           req[r].pc \in {"held", "trades"}
    PROVE  req' \in [Requests -> OrderRecords] /\ \A x \in Requests : Sound(req'[x])
<1>1. Leave(r) \/ Goto(r, "payIn") BY DEF Sellable
<1>2. "payIn" \in Places \ {"pay"} BY DEF Places
<1>3. CASE Leave(r) BY <1>3, LeaveKept
<1>4. CASE Goto(r, "payIn") BY <1>2, <1>4, GotoKept
<1>5. QED BY <1>1, <1>3, <1>4

LEMMA ReadHeldKept ==
    ASSUME CashInv, NEW r \in Requests, ReadHeld(r)
    PROVE  req' \in [Requests -> OrderRecords] /\ \A x \in Requests : Sound(req'[x])
<1> DEFINE o == [req[r] EXCEPT !.avail = FirstPosition.qty, !.pc = "trades"]
<1>1. Sound(req[r]) /\ req[r] \in OrderRecords /\ req[r].pc = "held"
  BY DEF CashInv, Sound, ReadHeld
<1>2. req' = [req EXCEPT ![r] = o] \/ Sellable(r, FirstPosition.qty)
  BY <1>1 DEF ReadHeld, CashInv, OrderRecords
<1>3. /\ o \in OrderRecords /\ o.pc = "trades" /\ o.qty = req[r].qty
      /\ o.price = req[r].price
  BY <1>1, FirstPositionTypes DEF OrderRecords, Places
<1> HIDE DEF o
<1>4. Sound(o) BY <1>1, <1>3 DEF Sound
<1>5. QED BY <1>1, <1>2, <1>4, OneOrder, SellableKept

LEMMA DisturbKept ==
    ASSUME CashInv, req' = [x \in Requests |-> [req[x] EXCEPT !.disturbed = Busy(x)]]
    PROVE  req' \in [Requests -> OrderRecords] /\ \A x \in Requests : Sound(req'[x])
<1>1. ASSUME NEW x \in Requests PROVE Sound(req'[x])
  <2>1. Sound(req[x]) /\ req[x] \in OrderRecords /\ Busy(x) \in BOOLEAN
    BY DEF CashInv, Sound, Busy
  <2>2. req'[x] = [req[x] EXCEPT !.disturbed = Busy(x)] OBVIOUS
  <2>3. /\ req'[x] \in OrderRecords /\ req'[x].pc = req[x].pc /\ req'[x].qty = req[x].qty
        /\ req'[x].price = req[x].price /\ req'[x].cash = req[x].cash
    BY <2>1, <2>2 DEF OrderRecords
  <2>4. QED BY <2>1, <2>3 DEF Sound, Cost
<1>2. QED BY <1>1 DEF Sound

LEMMA AgeKept ==
    ASSUME CashInv, req' = [x \in Requests |-> [req[x] EXCEPT !.old = Busy(x)]]
    PROVE  req' \in [Requests -> OrderRecords] /\ \A x \in Requests : Sound(req'[x])
<1>1. ASSUME NEW x \in Requests PROVE Sound(req'[x])
  <2>1. Sound(req[x]) /\ req[x] \in OrderRecords /\ Busy(x) \in BOOLEAN
    BY DEF CashInv, Sound, Busy
  <2>2. req'[x] = [req[x] EXCEPT !.old = Busy(x)] OBVIOUS
  <2>3. /\ req'[x] \in OrderRecords /\ req'[x].pc = req[x].pc /\ req'[x].qty = req[x].qty
        /\ req'[x].price = req[x].price /\ req'[x].cash = req[x].cash
    BY <2>1, <2>2 DEF OrderRecords
  <2>4. QED BY <2>1, <2>3 DEF Sound, Cost
<1>2. QED BY <1>1 DEF Sound

LEMMA PayKept ==
    ASSUME CashInv, NEW r \in Requests, Pay(r)
    PROVE  account' \in [exists: BOOLEAN, cash: Int] /\ (Cheap \/ account'.cash >= 0)
<1>1. Sound(req[r]) /\ req[r].pc = "pay" BY DEF CashInv, Pay
<1>2. /\ req[r].cash \in Int /\ req[r].price \in Int /\ req[r].qty \in Int /\ Fee \in Int
      /\ req[r].cash >= Cost(req[r])
  BY <1>1, PaperConstants DEF Sound, OrderRecords
<1>3. Cost(req[r]) \in Int
  <2>1. req[r].price * req[r].qty \in Int BY <1>2
  <2>2. QED BY <1>2, <2>1 DEF Cost
<1> DEFINE cash == req[r].cash - Cost(req[r])
<1>4. cash \in Int /\ cash >= 0 BY <1>2, <1>3
<1>5. account' = IF account.exists THEN [account EXCEPT !.cash = cash] ELSE account
  BY DEF Pay
<1> HIDE DEF cash
<1>6. QED BY <1>4, <1>5, BalanceKept

LEMMA PayInKept ==
    ASSUME CashInv, NEW r \in Requests, PayIn(r)
    PROVE  account' \in [exists: BOOLEAN, cash: Int] /\ (Cheap \/ account'.cash >= 0)
<1>1. Sound(req[r]) /\ req[r].pc = "payIn" BY DEF CashInv, PayIn
<1>2. /\ req[r].price \in Prices /\ req[r].qty \in Quantities
      /\ req[r].price \in Int /\ req[r].qty \in Int /\ Fee \in Int
  BY <1>1, PaperConstants DEF Sound, OrderRecords
<1> DEFINE value == req[r].price * req[r].qty
           cash == account.cash + Proceeds(req[r])
<1>3. value \in Int BY <1>2
<1>4. Cheap \/ value >= Fee
  <2>1. ~Cheap => ~(value < Fee) BY <1>2 DEF Cheap
  <2> HIDE DEF value
  <2>2. QED BY <1>2, <1>3, <2>1
<1>5. Proceeds(req[r]) = value - Fee BY DEF Proceeds
<1> HIDE DEF value
<1>6. cash \in Int /\ (Cheap \/ cash >= 0) BY <1>2, <1>3, <1>4, <1>5, AccountFacts
<1>7. account' = IF account.exists THEN [account EXCEPT !.cash = cash] ELSE account
  BY AccountFacts DEF PayIn, CashInv
<1> HIDE DEF cash
<1>8. QED BY <1>6, <1>7, BalanceKept

LEMMA SharesKept ==
    ASSUME CashInv, NEW r \in Requests, WriteShares(r)
    PROVE  positions' \in Seq(PositionRecords)
<1> DEFINE o == req[r]
           new == o.held + ShareChange(o)
           e == [id |-> o.n, qty |-> o.qty]
<1>1. /\ o \in OrderRecords /\ positions \in Seq(PositionRecords)
      /\ o.n \in Nat /\ o.qty \in Nat /\ o.held \in Int
  BY DEF CashInv, OrderRecords
<1>2. new \in Int BY <1>1 DEF ShareChange
<1>3. e \in PositionRecords BY <1>1 DEF PositionRecords
<1>4. positions' = IF o.id = 0 THEN Append(positions, e)
                   ELSE IF new = 0 THEN DeletePosition(o.id) ELSE SetQuantity(o.id, new)
  BY DEF WriteShares
<1> HIDE DEF o, new, e
<1>5. \/ positions' = Append(positions, e)
      \/ positions' = DeletePosition(o.id)
      \/ positions' = SetQuantity(o.id, new)
  BY <1>4
<1>6. Append(positions, e) \in Seq(PositionRecords) BY <1>1, <1>3
<1>7. DeletePosition(o.id) \in Seq(PositionRecords) BY DeleteTypes
<1>8. SetQuantity(o.id, new) \in Seq(PositionRecords) BY <1>2, SetTypes
<1>9. QED BY <1>5, <1>6, <1>7, <1>8

LEMMA CashStep ==
    ASSUME CashInv, [PaperNext]_paperVars,
           paperUsed' \in [{"orders", "mishaps"} -> Nat]
    PROVE  CashInv'
\* The parts, for the next state.
<1>a. /\ UNCHANGED account => account' \in [exists: BOOLEAN, cash: Int]
                             /\ (Cheap \/ account'.cash >= 0)
      /\ UNCHANGED positions => positions' \in Seq(PositionRecords)
      /\ UNCHANGED req => /\ req' \in [Requests -> OrderRecords]
                          /\ \A x \in Requests : Sound(req'[x])
  BY DEF CashInv
<1>b. ASSUME account' \in [exists: BOOLEAN, cash: Int], Cheap \/ account'.cash >= 0,
             positions' \in Seq(PositionRecords), req' \in [Requests -> OrderRecords],
             \A x \in Requests : Sound(req'[x])
      PROVE  CashInv'
  BY <1>b DEF CashInv, Sound, Cost
<1>c. "position" \in Places \ {"pay"} /\ "shares" \in Places \ {"pay"}
      /\ "trade" \in Places \ {"pay"}
  BY DEF Places
<1>1. ASSUME NEW r \in Requests, NEW side \in {"buy", "sell"}, NEW qty \in Quantities,
             PlaceOrder(r, side, qty)
      PROVE  CashInv'
  BY <1>1, <1>a, <1>b, PlaceKept DEF PlaceOrder
<1>2. ASSUME NEW r \in Requests, ReadAccount(r) PROVE CashInv'
  BY <1>2, <1>a, <1>b, ReadAccountKept DEF ReadAccount
<1>3. ASSUME NEW r \in Requests, OpenAccount(r) PROVE CashInv'
  <2>1. req[r].pc = "create" /\ CreateAccount /\ Goto(r, "position") /\ UNCHANGED positions
    BY <1>3 DEF OpenAccount
  <2>2. req' \in [Requests -> OrderRecords] /\ \A x \in Requests : Sound(req'[x])
    BY <1>c, <2>1, GotoKept
  <2>3. QED BY <1>a, <1>b, <2>1, <2>2, CreateKept
<1>4. ASSUME NEW r \in Requests, NoPrice(r) PROVE CashInv'
  BY <1>4, <1>a, <1>b, LeaveKept DEF NoPrice
<1>5. ASSUME NEW r \in Requests, NEW price \in Prices, ReadPosition(r, price) PROVE CashInv'
  <2>1. UNCHANGED <<account, positions>> BY <1>5 DEF ReadPosition
  <2>2. QED BY <1>5, <1>a, <1>b, <2>1, ReadPositionKept
<1>6. ASSUME NEW r \in Requests, Pay(r) PROVE CashInv'
  <2>1. req[r].pc = "pay" /\ Goto(r, "shares") /\ UNCHANGED positions BY <1>6 DEF Pay
  <2>2. req' \in [Requests -> OrderRecords] /\ \A x \in Requests : Sound(req'[x])
    BY <1>c, <2>1, GotoKept
  <2>3. QED BY <1>6, <1>a, <1>b, <2>1, <2>2, PayKept
<1>7. ASSUME NEW r \in Requests, ReadHeld(r) PROVE CashInv'
  BY <1>7, <1>a, <1>b, ReadHeldKept DEF ReadHeld
<1>8. ASSUME NEW r \in Requests, ReadTrades(r) PROVE CashInv'
  BY <1>8, <1>a, <1>b, SellableKept DEF ReadTrades
<1>9. ASSUME NEW r \in Requests, PayIn(r) PROVE CashInv'
  <2>1. req[r].pc = "payIn" /\ Goto(r, "shares") /\ UNCHANGED positions BY <1>9 DEF PayIn
  <2>2. req' \in [Requests -> OrderRecords] /\ \A x \in Requests : Sound(req'[x])
    BY <1>c, <2>1, GotoKept
  <2>3. QED BY <1>9, <1>a, <1>b, <2>1, <2>2, PayInKept
<1>10. ASSUME NEW r \in Requests, WriteShares(r) PROVE CashInv'
  <2>1. req[r].pc = "shares" /\ Goto(r, "trade") /\ UNCHANGED account
    BY <1>10 DEF WriteShares
  <2>2. req' \in [Requests -> OrderRecords] /\ \A x \in Requests : Sound(req'[x])
    BY <1>c, <2>1, GotoKept
  <2>3. QED BY <1>10, <1>a, <1>b, <2>1, <2>2, SharesKept
<1>11. ASSUME NEW r \in Requests, RecordTrade(r) PROVE CashInv'
  <2>1. Leave(r) /\ UNCHANGED <<account, positions>> BY <1>11 DEF RecordTrade
  <2>2. QED BY <1>a, <1>b, <2>1, LeaveKept
<1>12. ASSUME NEW r \in Requests, OrderFails(r) PROVE CashInv'
  <2>1. Leave(r) /\ UNCHANGED <<account, positions>> BY <1>12 DEF OrderFails
  <2>2. QED BY <1>a, <1>b, <2>1, LeaveKept
<1>13. CASE ViewAccount
  BY <1>13, <1>a, <1>b, CreateKept DEF ViewAccount
<1>14. CASE StartReset
  <2>1. account' = [exists |-> FALSE, cash |-> 0] /\ UNCHANGED positions
        /\ req' = [x \in Requests |-> [req[x] EXCEPT !.disturbed = Busy(x)]]
    BY <1>14 DEF StartReset
  <2>2. account' \in [exists: BOOLEAN, cash: Int] /\ account'.cash >= 0 BY <2>1
  <2>3. QED BY <1>a, <1>b, <2>1, <2>2, DisturbKept
<1>15. CASE ResetPositions
  <2>1. positions' = <<>> /\ UNCHANGED <<account, req>> BY <1>15 DEF ResetPositions
  <2>2. QED BY <1>a, <1>b, <2>1
<1>16. CASE ResetTrades BY <1>16, <1>a, <1>b DEF ResetTrades
<1>17. CASE ResetAccount BY <1>17, <1>a, <1>b, CreateKept DEF ResetAccount
<1>18. CASE NextDay
  <2>1. UNCHANGED <<account, positions>>
        /\ req' = [x \in Requests |-> [req[x] EXCEPT !.old = Busy(x)]]
    BY <1>18 DEF NextDay
  <2>2. QED BY <1>a, <1>b, <2>1, AgeKept
<1>19. CASE UNCHANGED paperVars BY <1>19, <1>a, <1>b DEF paperVars
<1>20. CASE ResetFails BY <1>20, <1>a, <1>b DEF ResetFails
<1>21. QED
  BY <1>1, <1>2, <1>3, <1>4, <1>5, <1>6, <1>7, <1>8, <1>9, <1>10, <1>11, <1>12, <1>13,
     <1>14, <1>15, <1>16, <1>17, <1>18, <1>19, <1>20 DEF PaperNext

\* Orders, resets and failures are counted.
LEMMA UsedStep ==
    ASSUME paperUsed \in [{"orders", "mishaps"} -> Nat], [PaperNext]_paperVars
    PROVE  paperUsed' \in [{"orders", "mishaps"} -> Nat]
<1>1. ASSUME NEW what \in {"orders", "mishaps"}, NEW limit, Spend(what, limit)
      PROVE  paperUsed' \in [{"orders", "mishaps"} -> Nat]
  BY <1>1 DEF Spend
<1>2. CASE UNCHANGED paperUsed BY <1>2
<1>3. UNCHANGED paperUsed \/ \E what \in {"orders", "mishaps"} : \E limit : Spend(what, limit)
  BY DEF PaperNext, paperVars, PlaceOrder, ReadAccount, OpenAccount, NoPrice, ReadPosition, Pay,
         ReadHeld, ReadTrades, PayIn, WriteShares, RecordTrade, OrderFails, ViewAccount,
         StartReset, ResetPositions, ResetTrades, ResetAccount, ResetFails, NextDay
<1>4. QED BY <1>1, <1>2, <1>3

LogRecords == [cash: Int, shares: Int, disturbed: BOOLEAN]

PaperRest ==
    /\ tPlus \in BOOLEAN
    /\ bought \in Nat
    /\ reset \in {"idle", "positions", "trades", "create"}
    /\ log \in Seq(LogRecords)
    /\ today \in [start: Int, sold: Nat, clean: BOOLEAN]

LEMMA SharesType == positions \in Seq(PositionRecords) => Shares \in Int
<1> SUFFICES ASSUME positions \in Seq(PositionRecords) PROVE Shares \in Int OBVIOUS
<1> DEFINE S == DOMAIN positions
           f == [i \in S |-> positions[i].qty]
<1>1. S = 1 .. Len(positions) /\ Len(positions) \in Nat OBVIOUS
<1>2. IsFiniteSet(S) BY <1>1, FS_Interval
<1>3. ASSUME NEW x \in S PROVE f[x] \in Int
  <2>1. positions[x] \in PositionRecords BY <1>1
  <2>2. positions[x].qty \in Int BY <2>1 DEF PositionRecords
  <2>3. QED BY <2>2
<1>4. DOMAIN f = S OBVIOUS
<1>5. Shares = SumFunctionOnSet(f, DOMAIN f) BY DEF Shares, SumFunction
<1> HIDE DEF f, S
<1>6. QED BY <1>2, <1>3, <1>4, <1>5, SumTypes

\* What an ended order has done.
LEMMA EntryType ==
    ASSUME NEW o \in OrderRecords
    PROVE  /\ Entry(o) \in LogRecords
           /\ CashChange(o) \in Int /\ ShareChange(o) \in Int
<1>1. o.price \in Int /\ o.qty \in Int /\ Fee \in Int BY PaperConstants DEF OrderRecords
<1>2. o.price * o.qty \in Int BY <1>1
<1>3. CashChange(o) \in Int BY <1>1, <1>2 DEF CashChange, Cost, Proceeds
<1>4. ShareChange(o) \in Int BY <1>1 DEF ShareChange
<1>5. o.disturbed \in BOOLEAN BY DEF OrderRecords
<1>6. QED BY <1>3, <1>4, <1>5 DEF Entry, LogRecords

\* A log with other entries in their places.
LEMMA LogTyped ==
    ASSUME log \in Seq(LogRecords), NEW l, DOMAIN l = DOMAIN log,
           l = [i \in DOMAIN log |-> l[i]], \A i \in DOMAIN log : l[i] \in LogRecords
    PROVE  l \in Seq(LogRecords)
<1>1. DOMAIN log = 1 .. Len(log) /\ Len(log) \in Nat OBVIOUS
<1>2. QED BY <1>1

\* What a reset makes of an entry: it starts at rest, or disturbs; it deletes the
\* shares.
Reopened(e) == [e EXCEPT !.cash = 0]
Disturbed(e) == [e EXCEPT !.disturbed = TRUE]
Emptied(e) == [e EXCEPT !.shares = 0, !.disturbed = @ /\ e.cash # 0]

LEMMA ResetEntries ==
    ASSUME NEW e \in LogRecords
    PROVE  /\ Reopened(e) \in LogRecords /\ Disturbed(e) \in LogRecords
           /\ Emptied(e) \in LogRecords
           /\ Reopened(e).cash = 0 /\ Reopened(e).shares = e.shares
           /\ Reopened(e).disturbed = e.disturbed
           /\ Disturbed(e).cash = e.cash /\ Disturbed(e).shares = e.shares
           /\ Disturbed(e).disturbed = TRUE
           /\ Emptied(e).cash = e.cash /\ Emptied(e).shares = 0
           /\ Emptied(e).disturbed = (e.disturbed /\ e.cash # 0)
<1>1. /\ Reopened(e) \in LogRecords /\ Reopened(e).cash = 0
      /\ Reopened(e).shares = e.shares /\ Reopened(e).disturbed = e.disturbed
  BY DEF Reopened, LogRecords
<1>2. /\ Disturbed(e) \in LogRecords /\ Disturbed(e).cash = e.cash
      /\ Disturbed(e).shares = e.shares /\ Disturbed(e).disturbed = TRUE
  BY DEF Disturbed, LogRecords
<1>3. /\ Emptied(e) \in LogRecords /\ Emptied(e).cash = e.cash /\ Emptied(e).shares = 0
      /\ Emptied(e).disturbed = (e.disturbed /\ e.cash # 0)
  <2> DEFINE f == [e EXCEPT !.shares = 0]
             d == e.disturbed /\ e.cash # 0
  <2>1. f \in LogRecords /\ f.cash = e.cash /\ f.shares = 0 /\ f.disturbed = e.disturbed
    BY DEF LogRecords
  <2>2. Emptied(e) = [f EXCEPT !.disturbed = d] BY <2>1 DEF Emptied
  <2>3. d \in BOOLEAN OBVIOUS
  <2> HIDE DEF f, d
  <2>4. QED BY <2>1, <2>2, <2>3 DEF LogRecords, d
<1>4. QED BY <1>1, <1>2, <1>3

\* The log after the two steps that change more than its end.
LEMMA StartedLog ==
    ASSUME log \in Seq(LogRecords), StartReset
    PROVE  /\ DOMAIN log' = DOMAIN log /\ log' \in Seq(LogRecords)
           /\ \A i \in DOMAIN log :
                log'[i] = IF AtRest THEN Reopened(log[i]) ELSE Disturbed(log[i])
<1>1. log' = [i \in DOMAIN log |-> IF AtRest THEN Reopened(log[i]) ELSE Disturbed(log[i])]
  BY DEF StartReset, Reopened, Disturbed
<1>2. \A i \in DOMAIN log : log[i] \in LogRecords OBVIOUS
<1>3. DOMAIN log' = DOMAIN log /\ \A i \in DOMAIN log :
        log'[i] = IF AtRest THEN Reopened(log[i]) ELSE Disturbed(log[i])
  BY <1>1
<1>4. ASSUME NEW i \in DOMAIN log PROVE log'[i] \in LogRecords
  <2>1. PICK e \in LogRecords : e = log[i] BY <1>2
  <2>2. Reopened(e) \in LogRecords /\ Disturbed(e) \in LogRecords BY ResetEntries
  <2>3. CASE AtRest BY <1>3, <2>1, <2>2, <2>3
  <2>4. CASE ~AtRest BY <1>3, <2>1, <2>2, <2>4
  <2>5. QED BY <2>3, <2>4
<1>5. log' = [i \in DOMAIN log |-> log'[i]] BY <1>1
<1>6. QED BY <1>3, <1>4, <1>5, LogTyped

LEMMA EmptiedLog ==
    ASSUME log \in Seq(LogRecords), ResetPositions
    PROVE  /\ DOMAIN log' = DOMAIN log /\ log' \in Seq(LogRecords)
           /\ \A i \in DOMAIN log : log'[i] = Emptied(log[i])
<1>1. log' = [i \in DOMAIN log |-> Emptied(log[i])]
  BY DEF ResetPositions, Emptied
<1>2. \A i \in DOMAIN log : log[i] \in LogRecords OBVIOUS
<1>3. DOMAIN log' = DOMAIN log /\ \A i \in DOMAIN log : log'[i] = Emptied(log[i])
  BY <1>1
<1>4. ASSUME NEW i \in DOMAIN log PROVE log'[i] \in LogRecords
  <2>1. PICK e \in LogRecords : e = log[i] BY <1>2
  <2>2. Emptied(e) \in LogRecords BY ResetEntries
  <2>3. QED BY <1>3, <2>1, <2>2
<1>5. log' = [i \in DOMAIN log |-> log'[i]] BY <1>1
<1>6. QED BY <1>3, <1>4, <1>5, LogTyped

LEMMA RestStep ==
    ASSUME CashInv, PaperRest, [PaperNext]_paperVars PROVE PaperRest'
<1>a. /\ tPlus \in BOOLEAN /\ bought \in Nat /\ log \in Seq(LogRecords)
      /\ reset \in {"idle", "positions", "trades", "create"}
      /\ today \in [start: Int, sold: Nat, clean: BOOLEAN] /\ AtRest \in BOOLEAN
  BY DEF PaperRest, AtRest, Busy
<1>b. ASSUME NEW r \in Requests
      PROVE  /\ req[r] \in OrderRecords /\ req[r].qty \in Nat
             /\ Append(log, Entry(req[r])) \in Seq(LogRecords)
  <2>1. req[r] \in OrderRecords BY DEF CashInv
  <2>2. Entry(req[r]) \in LogRecords BY <2>1, EntryType
  <2>3. QED BY <1>a, <2>1, <2>2 DEF OrderRecords
<1>1. ASSUME NEW r \in Requests, NEW side, NEW qty, PlaceOrder(r, side, qty)
      PROVE PaperRest'
  <2>1. today' = [today EXCEPT !.clean = @ /\ AtRest] /\ UNCHANGED <<tPlus, bought, reset, log>>
    BY <1>1 DEF PlaceOrder
  <2>2. QED BY <1>a, <2>1 DEF PaperRest
<1>2. ASSUME NEW r \in Requests, RecordTrade(r) PROVE PaperRest'
  <2>1. /\ UNCHANGED <<tPlus, reset>> /\ bought' \in {bought + req[r].qty, bought}
        /\ log' = Append(log, Entry(req[r]))
        /\ today' \in {[today EXCEPT !.sold = @ + req[r].qty], [today EXCEPT !.sold = @]}
    BY <1>2 DEF RecordTrade
  <2>2. log' \in Seq(LogRecords) BY <1>b, <2>1 DEF OrderRecords
  <2>3. bought' \in Nat /\ today' \in [start: Int, sold: Nat, clean: BOOLEAN]
    <3>1. req[r].qty \in Nat BY <1>b
    <3>2. bought' \in Nat BY <1>a, <2>1, <3>1
    <3>3. PICK n \in Nat : today' = [today EXCEPT !.sold = n]
      <4>1. today.sold \in Nat BY <1>a
      <4>2. today.sold + req[r].qty \in Nat BY <3>1, <4>1
      <4>3. QED BY <2>1, <4>1, <4>2
    <3>4. QED BY <1>a, <3>2, <3>3
  <2>4. QED BY <1>a, <2>1, <2>2, <2>3 DEF PaperRest
<1>3. ASSUME NEW r \in Requests, OrderFails(r) PROVE PaperRest'
  <2>1. /\ log' \in {Append(log, Entry(req[r])), log}
        /\ today' = [today EXCEPT !.clean = FALSE] /\ UNCHANGED <<tPlus, bought, reset>>
    BY <1>3 DEF OrderFails
  <2>2. log' \in Seq(LogRecords) BY <1>a, <1>b, <2>1
  <2>3. QED BY <1>a, <2>1, <2>2 DEF PaperRest
<1>4. CASE StartReset
  <2>5. /\ reset' = "positions" /\ UNCHANGED <<tPlus, bought>>
        /\ today' = [today EXCEPT !.clean = @ /\ AtRest]
    BY <1>4 DEF StartReset
  <2>6. reset' \in {"idle", "positions", "trades", "create"} BY <2>5
  <2>3. log' \in Seq(LogRecords) BY <1>a, <1>4, StartedLog
  <2>4. QED BY <1>a, <2>3, <2>5, <2>6 DEF PaperRest
<1>5. CASE ResetTrades
  <2>1. /\ reset' = "create" /\ bought' = 0 /\ UNCHANGED <<tPlus, log>>
        /\ today' = [today EXCEPT !.start = 0, !.sold = 0]
    BY <1>5 DEF ResetTrades
  <2>2. today' \in [start: Int, sold: Nat, clean: BOOLEAN]
    <3>1. today \in [start: Int, sold: Nat, clean: BOOLEAN] BY <1>a
    <3>2. today' = [today EXCEPT !.start = 0, !.sold = 0] BY <2>1
    <3>3. [today EXCEPT !.start = 0] \in [start: Int, sold: Nat, clean: BOOLEAN] BY <3>1
    <3>4. today' = [[today EXCEPT !.start = 0] EXCEPT !.sold = 0] BY <3>2
    <3> HIDE <3>2
    <3>5. QED BY <3>3, <3>4
  <2>3. QED BY <1>a, <2>1, <2>2 DEF PaperRest
<1>6. CASE ResetPositions
  <2>1. reset' = "trades" /\ UNCHANGED <<tPlus, bought, today>> BY <1>6 DEF ResetPositions
  <2>2. log' \in Seq(LogRecords) BY <1>a, <1>6, EmptiedLog
  <2>3. QED BY <1>a, <2>1, <2>2 DEF PaperRest
<1>7. CASE ResetAccount BY <1>a, <1>7 DEF ResetAccount, PaperRest
<1>f. CASE ResetFails
  <2>1. /\ reset' = "idle" /\ UNCHANGED <<tPlus, bought, log>>
        /\ today' = [today EXCEPT !.clean = FALSE]
    BY <1>f DEF ResetFails
  <2>2. QED BY <1>a, <2>1 DEF PaperRest
<1>8. CASE NextDay
  <2>1. Shares \in Int
    <3>1. positions \in Seq(PositionRecords) BY DEF CashInv
    <3>2. QED BY <3>1, SharesType
  <2>2. (\A i \in DOMAIN log : ~log[i].disturbed) \in BOOLEAN OBVIOUS
  <2>3. /\ bought' = 0 /\ today'.start = Shares /\ UNCHANGED <<tPlus, reset, log>>
        /\ today' = [start |-> Shares, sold |-> 0,
                     clean |-> AtRest /\ \A i \in DOMAIN log : ~log[i].disturbed]
    BY <1>8 DEF NextDay
  <2>4. QED BY <1>a, <2>1, <2>2, <2>3 DEF PaperRest
<1>9. CASE UNCHANGED <<tPlus, bought, reset, log, today>> BY <1>9 DEF PaperRest
<1>10. QED
  BY <1>1, <1>2, <1>3, <1>4, <1>5, <1>6, <1>7, <1>f, <1>8, <1>9
     DEF PaperNext, paperVars, ReadAccount, OpenAccount, NoPrice, ReadPosition, Pay, ReadHeld,
         ReadTrades, PayIn, WriteShares, ViewAccount

\* The types, with what an order carries.
PaperTyped == CashInv /\ PaperRest /\ paperUsed \in [{"orders", "mishaps"} -> Nat]

LEMMA PaperTypes == PaperSpec => []PaperTyped
<1>1. PaperInit => PaperTyped
  <2> SUFFICES ASSUME PaperInit PROVE PaperTyped OBVIOUS
  <2>1. /\ account = [exists |-> FALSE, cash |-> 0] /\ positions = <<>>
        /\ req = [r \in Requests |-> NoOrder]
        /\ paperUsed = [w \in {"orders", "mishaps"} |-> 0]
        /\ tPlus \in BOOLEAN /\ bought = 0 /\ reset = "idle" /\ log = <<>>
        /\ today = [start |-> 0, sold |-> 0, clean |-> TRUE]
    BY DEF PaperInit
  <2>2. NoOrder \in OrderRecords BY NoOrderSound DEF Sound
  <2>3. \A r \in Requests : Sound(req[r]) BY <2>1, NoOrderSound
  <2>4. req \in [Requests -> OrderRecords] BY <2>1, <2>2
  <2>5. positions \in Seq(PositionRecords) /\ log \in Seq(LogRecords) BY <2>1
  <2>6. account \in [exists: BOOLEAN, cash: Int] /\ account.cash >= 0 BY <2>1
  <2>7. CashInv BY <2>3, <2>4, <2>5, <2>6 DEF CashInv
  <2>8. PaperRest BY <2>1, <2>5 DEF PaperRest
  <2>9. paperUsed \in [{"orders", "mishaps"} -> Nat] BY <2>1
  <2>10. QED BY <2>7, <2>8, <2>9 DEF PaperTyped
<1>2. PaperTyped /\ [PaperNext]_paperVars => PaperTyped'
  BY CashStep, RestStep, UsedStep DEF PaperTyped
<1>3. QED BY <1>1, <1>2, PTL DEF PaperSpec

\* Every variable keeps its type; the balance of a day is a sum over documents.
THEOREM PaperTypesKept == PaperSpec => []PaperTypeOK
<1>1. PaperTyped => PaperTypeOK
  BY DEF PaperTyped, CashInv, PaperRest, PaperTypeOK, PositionRecords, OrderRecords, LogRecords
<1>2. QED BY <1>1, PaperTypes, PTL

\* However orders, resets and failures interleave, buying never makes the balance
\* negative; only a sale that earns less than its fees does (place_order).
THEOREM CashStaysPositive == PaperSpec => []CashNeverNegative
<1>1. PaperTyped => CashNeverNegative BY DEF PaperTyped, CashInv, CashNeverNegative, Cheap
<1>2. QED BY <1>1, PaperTypes, PTL

-----------------------------------------------------------------------------
(* OnlySettledSharesSold                                                   *)

\* A request that nothing has overlapped so far.
Clear(r) == Busy(r) /\ ~req[r].disturbed

\* It is alone, and no reset is in progress.
AloneInv ==
    /\ \A r \in Requests : Busy(r) => req[r].n # 0
    /\ \A r \in Requests : Clear(r) =>
         reset = "idle" /\ \A x \in Requests : Busy(x) => x = r

\* What the orders of the account have left is not damaged by an overlap.
Undamaged ==
    /\ \A i \in DOMAIN log : ~log[i].disturbed
    /\ \A r \in Requests : req[r].pc = "trade" => ~req[r].disturbed

\* Then there is at most one document, and it holds shares.
OneInv ==
    Undamaged => \/ positions = <<>>
                 \/ \E id, qty \in Nat \ {0} : positions = <<[id |-> id, qty |-> qty]>>

\* What a request alone has read is still so, and a sale is covered by it.
CoveredBy(o, held) ==
    /\ o.id # 0 /\ o.qty <= held
    /\ tPlus => o.qty + bought <= held

ReadInv ==
    \A r \in Requests : Clear(r) =>
      /\ req[r].pc \in {"pay", "held", "trades", "payIn", "shares"} =>
           req[r].id = FirstPosition.id /\ req[r].held = FirstPosition.qty
      /\ req[r].pc = "pay" => req[r].side = "buy"
      /\ req[r].pc \in {"held", "trades", "payIn"} => req[r].side = "sell"
      /\ req[r].pc = "trades" => tPlus /\ req[r].avail = FirstPosition.qty
      /\ req[r].pc = "payIn" \/ (req[r].pc = "shares" /\ req[r].side = "sell") =>
           CoveredBy(req[r], req[r].held)

\* On a day without overlap or failure the shares are those of its beginning,
\* those bought and less those sold; and what is sold was there when it began.
Balance == today.start + bought - today.sold

DayInv ==
    today.clean =>
      /\ \A i \in DOMAIN log : ~log[i].disturbed
      /\ \A r \in Requests : Busy(r) => Clear(r) /\ ~req[r].old
      /\ reset = "trades" => positions = <<>>
      /\ reset \in {"idle", "create"} =>
           /\ (\A r \in Requests : req[r].pc # "trade") => FirstPosition.qty = Balance
           /\ \A r \in Requests :
                req[r].pc = "trade" => FirstPosition.qty = Balance + ShareChange(req[r])
      /\ tPlus =>
           /\ today.sold <= today.start
           /\ \A r \in Requests : req[r].pc = "trade" /\ req[r].side = "sell" =>
                today.sold + req[r].qty <= today.start

SettledInv == AloneInv /\ OneInv /\ ReadInv /\ DayInv

-----------------------------------------------------------------------------
\* One request changes, and the others do not.
OnlyOne(r) == \A x \in Requests : x # r => req'[x] = req[x]

\* Its order stays the same.
SameOrder(r) ==
    /\ req'[r].n = req[r].n /\ req'[r].side = req[r].side /\ req'[r].qty = req[r].qty
    /\ req'[r].old = req[r].old /\ req'[r].disturbed = req[r].disturbed

SameReading(r) ==
    /\ req'[r].id = req[r].id /\ req'[r].held = req[r].held /\ req'[r].avail = req[r].avail

SameMoney(r) == req'[r].cash = req[r].cash /\ req'[r].price = req[r].price

\* What the account holds, or will when it is opened.
Funds == IF account.exists THEN account.cash ELSE InitialCash

LEMMA LeaveFacts ==
    ASSUME CashInv, NEW r \in Requests, Leave(r)
    PROVE  OnlyOne(r) /\ req'[r] = NoOrder /\ req'[r].pc = "idle" /\ ~Busy(r)'
<1>1. req \in [Requests -> OrderRecords] BY DEF CashInv
<1>2. req' = [req EXCEPT ![r] = NoOrder] BY DEF Leave
<1>3. req'[r] = NoOrder /\ \A x \in Requests : x # r => req'[x] = req[x] BY <1>1, <1>2
<1>4. QED BY <1>3 DEF OnlyOne, NoOrder, Busy

LEMMA GotoFacts ==
    ASSUME CashInv, NEW r \in Requests, NEW pc, Goto(r, pc)
    PROVE  OnlyOne(r) /\ SameOrder(r) /\ SameReading(r) /\ SameMoney(r) /\ req'[r].pc = pc
<1>1. req \in [Requests -> OrderRecords] BY DEF CashInv
<1>2. req' = [req EXCEPT ![r].pc = pc] BY DEF Goto
<1>3. req'[r] = [req[r] EXCEPT !.pc = pc] BY <1>1, <1>2
<1>4. \A x \in Requests : x # r => req'[x] = req[x] BY <1>1, <1>2
<1>5. req[r] \in OrderRecords BY <1>1
<1>6. QED BY <1>3, <1>4, <1>5 DEF OnlyOne, SameOrder, SameReading, SameMoney, OrderRecords

LEMMA ReadAccountFacts ==
    ASSUME CashInv, NEW r \in Requests, ReadAccount(r)
    PROVE  /\ OnlyOne(r) /\ SameOrder(r) /\ req'[r].pc \in {"position", "create"}
           /\ req'[r].cash = Funds /\ req'[r].id = req[r].id
           /\ req'[r].pc = "position" => account.exists
<1> DEFINE cash == IF account.exists THEN account.cash ELSE InitialCash
           pc == IF account.exists THEN "position" ELSE "create"
<1>1. req \in [Requests -> OrderRecords] BY DEF CashInv
<1>2. req' = [req EXCEPT ![r].cash = cash, ![r].pc = pc] BY DEF ReadAccount
<1>0. pc \in {"position", "create"} /\ cash = Funds /\ (pc = "position" => account.exists)
  BY DEF Funds
<1> HIDE DEF cash, pc
<1>3. req'[r] = [req[r] EXCEPT !.cash = cash, !.pc = pc] BY <1>1, <1>2
<1>4. \A x \in Requests : x # r => req'[x] = req[x] BY <1>1, <1>2
<1>5. req[r] \in OrderRecords BY <1>1
<1>6. SameOrder(r) /\ req'[r].pc = pc /\ req'[r].cash = cash /\ req'[r].id = req[r].id
  BY <1>3, <1>5 DEF SameOrder, OrderRecords
<1>7. QED BY <1>0, <1>4, <1>6 DEF OnlyOne

LEMMA ReadPositionFacts ==
    ASSUME CashInv, NEW r \in Requests, NEW price, ReadPosition(r, price)
    PROVE  \/ Leave(r)
           \/ /\ OnlyOne(r) /\ SameOrder(r)
              /\ req'[r].id = FirstPosition.id /\ req'[r].held = FirstPosition.qty
              /\ req'[r].cash = req[r].cash
              /\ \/ req'[r].pc = "held" /\ req'[r].side = "sell"
                 \/ req'[r].pc = "pay" /\ req'[r].side = "buy"
<1> DEFINE o == [req[r] EXCEPT !.price = price, !.id = FirstPosition.id,
                               !.held = FirstPosition.qty]
           held == [o EXCEPT !.pc = "held"]
           pay == [o EXCEPT !.pc = "pay"]
<1>1. req \in [Requests -> OrderRecords] /\ req[r] \in OrderRecords BY DEF CashInv
<1>2. (CASE o.side = "sell" -> req' = [req EXCEPT ![r] = held]
         [] o.side = "buy" /\ o.cash >= Cost(o) -> req' = [req EXCEPT ![r] = pay]
         [] OTHER -> Leave(r))
  BY DEF ReadPosition
<1>3. /\ o.id = FirstPosition.id /\ o.held = FirstPosition.qty /\ o.side = req[r].side
      /\ o.n = req[r].n /\ o.qty = req[r].qty /\ o.old = req[r].old
      /\ o.disturbed = req[r].disturbed /\ o.side \in {"buy", "sell"}
      /\ o.cash = req[r].cash
      /\ \A pc : LET p == [o EXCEPT !.pc = pc]
                 IN  /\ p.id = o.id /\ p.held = o.held /\ p.side = o.side /\ p.n = o.n
                     /\ p.qty = o.qty /\ p.old = o.old /\ p.disturbed = o.disturbed
                     /\ p.pc = pc /\ p.cash = o.cash
  BY <1>1 DEF OrderRecords
<1> HIDE DEF o
<1>4. CASE o.side = "sell"
  <2>1. req' = [req EXCEPT ![r] = held] BY <1>2, <1>4
  <2>2. req'[r] = held /\ OnlyOne(r) BY <1>1, <2>1 DEF OnlyOne
  <2>3. QED BY <1>3, <1>4, <2>2 DEF SameOrder
<1>5. CASE o.side = "buy" /\ o.cash >= Cost(o)
  <2>1. req' = [req EXCEPT ![r] = pay] BY <1>2, <1>5
  <2>2. req'[r] = pay /\ OnlyOne(r) BY <1>1, <2>1 DEF OnlyOne
  <2>3. QED BY <1>3, <1>5, <2>2 DEF SameOrder
<1>6. CASE o.side = "buy" /\ ~(o.cash >= Cost(o))
  BY <1>2, <1>6
<1>7. QED BY <1>3, <1>4, <1>5, <1>6

LEMMA SellableFacts ==
    ASSUME CashInv, NEW r \in Requests, NEW available \in Int, Sellable(r, available)
    PROVE  \/ Leave(r)
           \/ Goto(r, "payIn") /\ req[r].id # 0 /\ req[r].qty <= available
  BY DEF Sellable, CashInv, OrderRecords

\* A sale goes on only if what it has read covers it.
LEMMA ReadHeldFacts ==
    ASSUME PaperTyped, NEW r \in Requests, ReadHeld(r)
    PROVE  \/ Leave(r)
           \/ /\ OnlyOne(r) /\ SameOrder(r) /\ req'[r].id = req[r].id
              /\ req'[r].held = req[r].held
              /\ \/ req'[r].pc = "trades" /\ tPlus /\ req'[r].avail = FirstPosition.qty
                 \/ req'[r].pc = "payIn" /\ CoveredBy(req[r], FirstPosition.qty)
<1> DEFINE o == [req[r] EXCEPT !.avail = FirstPosition.qty, !.pc = "trades"]
<1>1. req \in [Requests -> OrderRecords] /\ req[r] \in OrderRecords /\ Busy(r)
      /\ CashInv
  BY DEF CashInv, ReadHeld, Busy, PaperTyped
<1>2. FirstPosition.qty \in Int /\ req[r].qty \in Nat /\ req[r].qty # 0
  <2>1. FirstPosition.qty \in Int BY <1>1, FirstPositionTypes
  <2>2. req[r].qty \in Quantities BY <1>1 DEF CashInv, Sound, Busy
  <2>3. QED BY <2>1, <2>2, PaperConstants
<1>3. CASE tPlus /\ positions # <<>>
  <2>1. req' = [req EXCEPT ![r].avail = FirstPosition.qty, ![r].pc = "trades"]
    BY <1>3 DEF ReadHeld
  <2>2. req'[r] = o /\ OnlyOne(r) BY <1>1, <2>1 DEF OnlyOne
  <2>3. /\ o.id = req[r].id /\ o.held = req[r].held /\ o.side = req[r].side
        /\ o.n = req[r].n /\ o.qty = req[r].qty /\ o.old = req[r].old
        /\ o.disturbed = req[r].disturbed /\ o.pc = "trades" /\ o.avail = FirstPosition.qty
    BY <1>1 DEF OrderRecords
  <2> HIDE DEF o
  <2>4. QED BY <1>3, <2>2, <2>3 DEF SameOrder
<1>4. CASE ~(tPlus /\ positions # <<>>)
  <2>1. Sellable(r, FirstPosition.qty) BY <1>4 DEF ReadHeld
  <2>2. \/ Leave(r)
        \/ Goto(r, "payIn") /\ req[r].id # 0 /\ req[r].qty <= FirstPosition.qty
    BY <1>1, <1>2, <2>1, SellableFacts
  <2>3. ASSUME Goto(r, "payIn"), req[r].id # 0, req[r].qty <= FirstPosition.qty
        PROVE  CoveredBy(req[r], FirstPosition.qty)
    <3>1. positions # <<>> BY <1>2, <2>3 DEF FirstPosition
    <3>2. QED BY <1>4, <2>3, <3>1 DEF CoveredBy
  <2>4. QED BY <1>1, <2>2, <2>3, GotoFacts DEF SameReading
<1>5. QED BY <1>3, <1>4

LEMMA ReadTradesFacts ==
    ASSUME PaperTyped, NEW r \in Requests, ReadTrades(r)
    PROVE  \/ Leave(r)
           \/ Goto(r, "payIn") /\ CoveredBy(req[r], req[r].avail)
<1> DEFINE available == IF req[r].avail > bought THEN req[r].avail - bought ELSE 0
<1>1. /\ CashInv /\ req[r] \in OrderRecords /\ Busy(r) /\ Sellable(r, available)
      /\ bought \in Nat
  BY DEF CashInv, PaperRest, ReadTrades, Busy, PaperTyped
<1>2. req[r].qty \in Nat /\ req[r].qty # 0 /\ req[r].avail \in Int
  <2>1. req[r].qty \in Quantities BY <1>1 DEF CashInv, Sound, Busy
  <2>2. QED BY <1>1, <2>1, PaperConstants DEF OrderRecords
<1>3. available \in Int BY <1>1, <1>2
<1>4. Leave(r) \/ (Goto(r, "payIn") /\ req[r].id # 0 /\ req[r].qty <= available)
  <2> HIDE DEF available
  <2>1. QED BY <1>1, <1>3, SellableFacts
<1>5. req[r].qty <= available => req[r].qty + bought <= req[r].avail /\ req[r].qty <= req[r].avail
  BY <1>1, <1>2
<1>6. QED BY <1>4, <1>5 DEF CoveredBy

LEMMA TypedFacts ==
    ASSUME PaperTyped, NEW r \in Requests
    PROVE  /\ CashInv /\ PaperRest /\ req \in [Requests -> OrderRecords]
           /\ req[r].side \in {"buy", "sell"} /\ req[r].n \in Nat
           /\ req[r].pc \in Places /\ req[r].disturbed \in BOOLEAN /\ req[r].old \in BOOLEAN
           /\ req[r].qty \in Nat /\ req[r].held \in Int /\ req[r].id \in Nat
           /\ Busy(r) => req[r].qty # 0
           /\ bought \in Nat /\ today.start \in Int /\ today.sold \in Nat
           /\ today.clean \in BOOLEAN /\ Balance \in Int
<1>1. CashInv /\ PaperRest /\ req[r] \in OrderRecords /\ req \in [Requests -> OrderRecords]
  BY DEF PaperTyped, CashInv
<1>2. Busy(r) => req[r].qty # 0
  <2>1. Busy(r) => req[r].qty \in Quantities BY <1>1 DEF CashInv, Sound, Busy
  <2>2. QED BY <2>1, PaperConstants
<1>3. QED BY <1>1, <1>2 DEF OrderRecords, PaperRest, Balance

\* The sum over one document, or none, is its quantity.
LEMMA SharesOfOne ==
    ASSUME positions = <<>> \/ \E id, qty \in Nat \ {0} : positions = <<[id |-> id, qty |-> qty]>>
    PROVE  Shares = FirstPosition.qty /\ FirstPosition.qty \in Nat
<1> DEFINE f == [i \in DOMAIN positions |-> positions[i].qty]
<1>1. Shares = SumFunctionOnSet(f, DOMAIN positions)
  <2>1. DOMAIN f = DOMAIN positions OBVIOUS
  <2>2. Shares = SumFunctionOnSet(f, DOMAIN f) BY DEF Shares, SumFunction
  <2> HIDE DEF f
  <2>3. QED BY <2>1, <2>2
<1>2. CASE positions = <<>>
  <2>1. DOMAIN positions = {} BY <1>2
  <2>2. FirstPosition.qty = 0 BY <1>2 DEF FirstPosition
  <2> HIDE DEF f
  <2>3. QED BY <1>1, <2>1, <2>2, SumOfNone
<1>3. ASSUME NEW id \in Nat \ {0}, NEW qty \in Nat \ {0}, positions = <<[id |-> id, qty |-> qty]>>
      PROVE  Shares = FirstPosition.qty /\ FirstPosition.qty \in Nat
  <2>1. DOMAIN positions = {1} /\ positions # <<>> /\ positions[1].qty = qty BY <1>3
  <2>2. FirstPosition.qty = qty BY <2>1 DEF FirstPosition
  <2>3. f[1] = qty /\ f[1] \in Int BY <2>1
  <2> HIDE DEF f
  <2>4. SumFunctionOnSet(f, {1}) = f[1] BY <2>3, SumOfOne
  <2>5. QED BY <1>1, <2>1, <2>2, <2>3, <2>4
<1>4. QED BY <1>2, <1>3

\* A request alone changes the one document by its order.
LEMMA WriteOne ==
    ASSUME PaperTyped, SettledInv, Undamaged, NEW r \in Requests, Clear(r), WriteShares(r)
    PROVE  /\ \/ positions' = <<>>
              \/ \E id, qty \in Nat \ {0} : positions' = <<[id |-> id, qty |-> qty]>>
           /\ FirstPosition'.qty = FirstPosition.qty + ShareChange(req[r])
<1> DEFINE o == req[r]
           new == o.held + ShareChange(o)
<1>1. /\ o.side \in {"buy", "sell"} /\ o.qty \in Nat \ {0} /\ o.held \in Int
      /\ o.n \in Nat \ {0} /\ o.id \in Nat /\ o.pc = "shares"
  <2>1. Busy(r) /\ req[r].pc = "shares" BY DEF Clear, WriteShares
  <2>2. req[r].n # 0 BY <2>1 DEF SettledInv, AloneInv
  <2>3. /\ req[r].side \in {"buy", "sell"} /\ req[r].qty \in Nat \ {0} /\ req[r].held \in Int
        /\ req[r].n \in Nat /\ req[r].id \in Nat
    BY <2>1, TypedFacts
  <2>4. QED BY <2>1, <2>2, <2>3
<1>2. /\ o.id = FirstPosition.id /\ o.held = FirstPosition.qty
      /\ o.side = "sell" => o.id # 0 /\ o.qty <= o.held
  BY <1>1 DEF SettledInv, ReadInv, CoveredBy
<1>3. positions' = IF o.id = 0 THEN Append(positions, [id |-> o.n, qty |-> o.qty])
                   ELSE IF new = 0 THEN DeletePosition(o.id) ELSE SetQuantity(o.id, new)
  BY DEF WriteShares
<1>4. ShareChange(o) = IF o.side = "buy" THEN o.qty ELSE -o.qty BY DEF ShareChange
<1> HIDE DEF o
<1>5. CASE positions = <<>>
  <2>1. FirstPosition = [id |-> 0, qty |-> 0] BY <1>5 DEF FirstPosition
  <2>2. o.id = 0 /\ o.side = "buy" BY <1>1, <1>2, <2>1
  <2>3. positions' = <<[id |-> o.n, qty |-> o.qty]>> BY <1>3, <1>5, <2>2
  <2>4. FirstPosition'.qty = o.qty BY <2>3 DEF FirstPosition
  <2>5. QED BY <1>1, <1>4, <2>1, <2>2, <2>3, <2>4 DEF o
<1>6. ASSUME NEW id \in Nat \ {0}, NEW qty \in Nat \ {0}, positions = <<[id |-> id, qty |-> qty]>>
      PROVE  /\ \/ positions' = <<>>
                \/ \E i, q \in Nat \ {0} : positions' = <<[id |-> i, qty |-> q]>>
             /\ FirstPosition'.qty = FirstPosition.qty + ShareChange(o)
  <2>1. FirstPosition = [id |-> id, qty |-> qty] BY <1>6 DEF FirstPosition
  <2>2. o.id = id /\ o.id # 0 /\ o.held = qty BY <1>2, <2>1
  <2>3. new \in Nat /\ new = qty + ShareChange(o) BY <1>1, <1>2, <1>4, <2>2
  <2> HIDE DEF new
  <2>4. CASE new = 0
    <3>1. positions' = DeletePosition(id) BY <1>3, <2>2, <2>4
    <3>2. {i \in DOMAIN positions : positions[i].id = id} = {1} BY <1>6
    <3>3. DeletePosition(id) = SubSeq(positions, 1, 0) \o SubSeq(positions, 2, 1)
      <4>1. Len(positions) = 1 BY <1>6
      <4>2. (CHOOSE i \in {1} : TRUE) = 1 OBVIOUS
      <4>3. QED BY <3>2, <4>1, <4>2 DEF DeletePosition
    <3>4. positions' = <<>>
      <4>1. positions \in Seq([id: Nat, qty: Nat]) BY <1>6
      <4>2. SubSeq(positions, 1, 0) = <<>> /\ SubSeq(positions, 2, 1) = <<>> BY <4>1
      <4>3. QED BY <3>1, <3>3, <4>2
    <3>5. FirstPosition'.qty = 0 BY <3>4 DEF FirstPosition
    <3>6. QED BY <2>1, <2>3, <2>4, <3>4, <3>5
  <2>5. CASE new # 0
    <3>1. positions' = SetQuantity(id, new) BY <1>3, <2>2, <2>5
    <3>2. SetQuantity(id, new) = <<[id |-> id, qty |-> new]>>
      <4>1. DOMAIN positions = {1} /\ positions[1] = [id |-> id, qty |-> qty] BY <1>6
      <4>2. SetQuantity(id, new) = [i \in {1} |-> [id |-> id, qty |-> new]]
        BY <4>1 DEF SetQuantity
      <4>3. [i \in {1} |-> [id |-> id, qty |-> new]] = <<[id |-> id, qty |-> new]>>
        OBVIOUS
      <4>4. QED BY <4>2, <4>3
    <3>3. positions' = <<[id |-> id, qty |-> new]>> /\ new \in Nat \ {0}
      BY <2>3, <2>5, <3>1, <3>2
    <3>4. FirstPosition'.qty = new BY <3>3 DEF FirstPosition
    <3>5. QED BY <2>1, <2>3, <3>3, <3>4
  <2>6. QED BY <2>4, <2>5
<1>7. QED BY <1>5, <1>6 DEF SettledInv, OneInv, o

-----------------------------------------------------------------------------
(* The requests                                                            *)

\* The steps of one request between its start and its end.
GoesOn(r) ==
    \/ ReadAccount(r) \/ OpenAccount(r) \/ \E price \in Prices : ReadPosition(r, price)
    \/ Pay(r) \/ ReadHeld(r) \/ ReadTrades(r) \/ PayIn(r) \/ WriteShares(r)

LEMMA GoesOnFacts ==
    ASSUME PaperTyped, NEW r \in Requests, GoesOn(r)
    PROVE  /\ Busy(r)
           /\ Leave(r) \/ (OnlyOne(r) /\ SameOrder(r) /\ Busy(r)')
           /\ req[r].pc # "trade" /\ UNCHANGED <<tPlus, bought, reset, log, today, paperUsed>>
           /\ req'[r].pc = "trade" => WriteShares(r)
           /\ positions' = positions \/ WriteShares(r)
<1>0. CashInv BY DEF PaperTyped
<1>1. CASE ReadAccount(r)
  BY <1>0, <1>1, ReadAccountFacts DEF ReadAccount, Busy
<1>2. CASE OpenAccount(r)
  BY <1>0, <1>2, GotoFacts DEF OpenAccount, Busy
<1>3. ASSUME NEW price \in Prices, ReadPosition(r, price)
      PROVE  /\ Busy(r)
             /\ Leave(r) \/ (OnlyOne(r) /\ SameOrder(r) /\ Busy(r)')
             /\ req[r].pc # "trade" /\ UNCHANGED <<tPlus, bought, reset, log, today, paperUsed>>
             /\ req'[r].pc # "trade" /\ positions' = positions
  <2>1. req[r].pc = "position" /\ UNCHANGED <<tPlus, positions, bought, reset, log, today, paperUsed>>
    BY <1>3 DEF ReadPosition
  <2>2. Leave(r) => req'[r].pc = "idle" BY <1>0, LeaveFacts
  <2>3. QED BY <1>0, <1>3, <2>1, <2>2, ReadPositionFacts DEF Busy
<1>4. CASE Pay(r) BY <1>0, <1>4, GotoFacts DEF Pay, Busy
<1>5. CASE ReadHeld(r)
  <2>1. req[r].pc = "held" /\ UNCHANGED <<tPlus, positions, bought, reset, log, today, paperUsed>>
    BY <1>5 DEF ReadHeld
  <2>2. Leave(r) => req'[r].pc = "idle" BY <1>0, LeaveFacts
  <2>3. QED BY <1>5, <2>1, <2>2, ReadHeldFacts DEF Busy
<1>6. CASE ReadTrades(r)
  <2>1. req[r].pc = "trades" /\ UNCHANGED <<tPlus, positions, bought, reset, log, today, paperUsed>>
    BY <1>6 DEF ReadTrades
  <2>2. Leave(r) => req'[r].pc = "idle" BY <1>0, LeaveFacts
  <2>3. QED BY <1>0, <1>6, <2>1, <2>2, ReadTradesFacts, GotoFacts DEF Busy
<1>7. CASE PayIn(r) BY <1>0, <1>7, GotoFacts DEF PayIn, Busy
<1>8. CASE WriteShares(r) BY <1>0, <1>8, GotoFacts DEF WriteShares, Busy
<1>9. QED BY <1>1, <1>2, <1>3, <1>4, <1>5, <1>6, <1>7, <1>8 DEF GoesOn

\* A new order disturbs those in progress, and is disturbed by them.
LEMMA PlaceFacts ==
    ASSUME PaperTyped, NEW r \in Requests, NEW side, NEW qty, PlaceOrder(r, side, qty)
    PROVE  /\ ~Busy(r) /\ req'[r].pc = "account" /\ req'[r].n # 0 /\ ~req'[r].old
           /\ req'[r].disturbed = ~AtRest
           /\ \A x \in Requests : x # r =>
                /\ req'[x].pc = req[x].pc /\ req'[x].n = req[x].n
                /\ req'[x].disturbed = Busy(x)
           /\ UNCHANGED <<tPlus, account, positions, bought, reset, log>>
           /\ today' = [today EXCEPT !.clean = @ /\ AtRest]
<1>1. /\ req \in [Requests -> OrderRecords] /\ paperUsed["orders"] \in Nat
      /\ paperUsed \in [{"orders", "mishaps"} -> Nat]
  BY DEF PaperTyped, CashInv
<1> DEFINE n == paperUsed'["orders"]
           d == ~AtRest
           o == [NoOrder EXCEPT !.n = n, !.pc = "account", !.side = side, !.qty = qty,
                                !.disturbed = d]
           other(x) == [req[x] EXCEPT !.disturbed = Busy(x)]
<1>2. paperUsed' = [paperUsed EXCEPT !["orders"] = @ + 1] BY DEF PlaceOrder, Spend
<1>3. n # 0 BY <1>1, <1>2
<1>4. req' = [x \in Requests |-> IF x = r THEN o ELSE other(x)] BY DEF PlaceOrder
<1>5. o.pc = "account" /\ o.n = n /\ ~o.old /\ o.disturbed = d BY DEF NoOrder
<1>6. ASSUME NEW x \in Requests
      PROVE  other(x).pc = req[x].pc /\ other(x).n = req[x].n /\ other(x).disturbed = Busy(x)
  BY <1>1 DEF OrderRecords
<1> HIDE DEF o, other, n
<1>7. QED BY <1>3, <1>4, <1>5, <1>6 DEF PlaceOrder

\* A reset, or the end of a day, touches all orders at once.
LEMMA StartResetFacts ==
    ASSUME PaperTyped, StartReset, NEW x \in Requests
    PROVE  req'[x].pc = req[x].pc /\ req'[x].n = req[x].n /\ req'[x].disturbed = Busy(x)
<1>1. req \in [Requests -> OrderRecords] BY DEF PaperTyped, CashInv
<1>2. req' = [y \in Requests |-> [req[y] EXCEPT !.disturbed = Busy(y)]] BY DEF StartReset
<1>3. req'[x] = [req[x] EXCEPT !.disturbed = Busy(x)] BY <1>2
<1>4. req[x] \in OrderRecords BY <1>1
<1>5. QED BY <1>3, <1>4 DEF OrderRecords

LEMMA NextDayFacts ==
    ASSUME PaperTyped, NextDay, NEW x \in Requests
    PROVE  /\ req'[x].pc = req[x].pc /\ req'[x].old = Busy(x)
           /\ req'[x].n = req[x].n /\ req'[x].side = req[x].side /\ req'[x].qty = req[x].qty
           /\ req'[x].disturbed = req[x].disturbed
           /\ req'[x].id = req[x].id /\ req'[x].held = req[x].held
           /\ req'[x].avail = req[x].avail
<1>1. req \in [Requests -> OrderRecords] BY DEF PaperTyped, CashInv
<1>2. req' = [y \in Requests |-> [req[y] EXCEPT !.old = Busy(y)]] BY DEF NextDay
<1>3. req'[x] = [req[x] EXCEPT !.old = Busy(x)] BY <1>2
<1>4. req[x] \in OrderRecords BY <1>1
<1>5. QED BY <1>3, <1>4 DEF OrderRecords

\* The ways a request ends.
Ends(r) == NoPrice(r) \/ RecordTrade(r) \/ OrderFails(r)

LEMMA EndsFacts ==
    ASSUME PaperTyped, NEW r \in Requests, Ends(r)
    PROVE  /\ Busy(r) /\ Leave(r) /\ UNCHANGED <<tPlus, positions, reset>>
           /\ OnlyOne(r) /\ ~Busy(r)' /\ req'[r].pc = "idle"
<1>1. Leave(r) /\ Busy(r) /\ UNCHANGED <<tPlus, positions, reset>>
  BY DEF Ends, NoPrice, RecordTrade, OrderFails, Busy
<1>2. QED BY <1>1, LeaveFacts DEF PaperTyped

\* All that can happen.
LEMMA PaperSteps ==
    ASSUME [PaperNext]_paperVars
    PROVE  \/ \E r \in Requests : \E side, qty : PlaceOrder(r, side, qty)
           \/ \E r \in Requests : GoesOn(r)
           \/ \E r \in Requests : Ends(r)
           \/ StartReset \/ ResetPositions \/ ResetTrades \/ ResetAccount \/ ResetFails \/ NextDay
           \/ /\ UNCHANGED <<tPlus, positions, bought, req, reset, log, today, paperUsed>>
              /\ UNCHANGED account \/ CreateAccount
<1>1. CASE UNCHANGED paperVars BY <1>1 DEF paperVars
<1>2. CASE ViewAccount BY <1>2 DEF ViewAccount
<1>3. ASSUME NEW r \in Requests, NEW side \in {"buy", "sell"}, NEW qty \in Quantities,
             PlaceOrder(r, side, qty)
      PROVE  \E x \in Requests : \E s, q : PlaceOrder(x, s, q)
  BY <1>3
<1>4. ASSUME NEW r \in Requests,
             \/ ReadAccount(r) \/ OpenAccount(r) \/ \E price \in Prices : ReadPosition(r, price)
             \/ Pay(r) \/ ReadHeld(r) \/ ReadTrades(r) \/ PayIn(r) \/ WriteShares(r)
      PROVE  \E x \in Requests : GoesOn(x)
  BY <1>4 DEF GoesOn
<1>5. ASSUME NEW r \in Requests, NoPrice(r) \/ RecordTrade(r) \/ OrderFails(r)
      PROVE  \E x \in Requests : Ends(x)
  BY <1>5 DEF Ends
<1>6. QED BY <1>1, <1>2, <1>3, <1>4, <1>5 DEF PaperNext

LEMMA AloneKept ==
    ASSUME PaperTyped, AloneInv, [PaperNext]_paperVars PROVE AloneInv'
\* Fewer requests are busy, and fewer alone.
<1>a. ASSUME UNCHANGED reset,
             \A x \in Requests : /\ Busy(x)' => Busy(x) /\ req'[x].n = req[x].n
                                 /\ Clear(x)' => Clear(x)
      PROVE  AloneInv'
  BY <1>a DEF AloneInv
<1>b. ASSUME \A x \in Requests : req'[x].pc = req[x].pc /\ req'[x].n = req[x].n,
             \A x \in Requests : ~Clear(x)'
      PROVE  AloneInv'
  BY <1>b DEF AloneInv, Busy
<1>1. ASSUME NEW r \in Requests, NEW side, NEW qty, PlaceOrder(r, side, qty)
      PROVE  AloneInv'
  <2>1. /\ ~Busy(r) /\ req'[r].pc = "account" /\ req'[r].n # 0 /\ req'[r].disturbed = ~AtRest
        /\ \A x \in Requests : x # r => /\ req'[x].pc = req[x].pc /\ req'[x].n = req[x].n
                                        /\ req'[x].disturbed = Busy(x)
        /\ reset' = reset
    BY <1>1, PlaceFacts
  <2>2. \A x \in Requests : x # r => ~Clear(x)' BY <2>1 DEF Clear, Busy
  <2>3. \A x \in Requests : Busy(x)' => req'[x].n # 0 BY <2>1 DEF AloneInv, Busy
  <2>4. Clear(r)' => reset' = "idle" /\ \A x \in Requests : Busy(x)' => x = r
    BY <2>1 DEF Clear, Busy, AtRest
  <2>5. QED BY <2>2, <2>3, <2>4 DEF AloneInv
<1>2. ASSUME NEW r \in Requests, GoesOn(r) PROVE AloneInv'
  <2>1. CASE Leave(r)
    <3>1. OnlyOne(r) /\ ~Busy(r)' BY <2>1, LeaveFacts DEF PaperTyped
    <3>2. reset' = reset BY <1>2, GoesOnFacts
    <3>3. QED BY <1>a, <3>1, <3>2 DEF OnlyOne, Busy, Clear
  <2>2. CASE OnlyOne(r) /\ SameOrder(r)
    <3>1. reset' = reset /\ Busy(r) BY <1>2, GoesOnFacts
    <3>2. QED BY <1>a, <2>2, <3>1 DEF OnlyOne, SameOrder, Busy, Clear
  <2>3. QED BY <1>2, <2>1, <2>2, GoesOnFacts
<1>3. ASSUME NEW r \in Requests, Ends(r) PROVE AloneInv'
  <2>1. OnlyOne(r) /\ ~Busy(r)' /\ reset' = reset BY <1>3, EndsFacts
  <2>2. QED BY <1>a, <2>1 DEF OnlyOne, Busy, Clear
<1>4. CASE StartReset
  <2>1. \A x \in Requests : req'[x].pc = req[x].pc /\ req'[x].n = req[x].n
                            /\ req'[x].disturbed = Busy(x)
    BY <1>4, StartResetFacts
  <2>2. QED BY <1>b, <2>1 DEF Busy, Clear
<1>5. CASE ResetPositions \/ ResetTrades \/ ResetAccount \/ ResetFails
  <2>1. reset # "idle" /\ req' = req
    BY <1>5 DEF ResetPositions, ResetTrades, ResetAccount, ResetFails
  <2>2. \A x \in Requests : ~Clear(x) BY <2>1 DEF AloneInv
  <2>3. QED BY <1>b, <2>1, <2>2 DEF Busy, Clear
<1>6. CASE NextDay
  <2>1. \A x \in Requests : req'[x].pc = req[x].pc /\ req'[x].n = req[x].n
                            /\ req'[x].disturbed = req[x].disturbed
    BY <1>6, NextDayFacts
  <2>2. reset' = reset BY <1>6 DEF NextDay
  <2>3. QED BY <1>a, <2>1, <2>2 DEF Busy, Clear
<1>7. CASE UNCHANGED <<req, reset>> BY <1>7 DEF AloneInv, Busy, Clear
<1>8. QED BY <1>1, <1>2, <1>3, <1>4, <1>5, <1>6, <1>7, PaperSteps

\* The quantity of the first document after it has been left alone.
LEMMA SamePositions == positions' = positions => FirstPosition' = FirstPosition
  BY DEF FirstPosition

LEMMA OneKept ==
    ASSUME PaperTyped, SettledInv, [PaperNext]_paperVars PROVE OneInv'
<1> SUFFICES ASSUME Undamaged'
             PROVE  \/ positions' = <<>>
                    \/ \E id, qty \in Nat \ {0} : positions' = <<[id |-> id, qty |-> qty]>>
  BY DEF OneInv
<1>a. ASSUME positions' = positions, Undamaged
      PROVE  \/ positions' = <<>>
             \/ \E id, qty \in Nat \ {0} : positions' = <<[id |-> id, qty |-> qty]>>
  BY <1>a DEF SettledInv, OneInv
<1>b. ASSUME log' = log,
             \A x \in Requests : req[x].pc = "trade" => req'[x].pc = "trade" /\
                                   (req[x].disturbed => req'[x].disturbed)
      PROVE  Undamaged
  BY <1>b DEF Undamaged
<1>1. ASSUME NEW r \in Requests, NEW side, NEW qty, PlaceOrder(r, side, qty)
      PROVE  positions' = positions /\ Undamaged
  <2>1. /\ ~Busy(r)
        /\ \A x \in Requests : x # r => req'[x].pc = req[x].pc /\ req'[x].disturbed = Busy(x)
        /\ UNCHANGED <<positions, reset, log>>
    BY <1>1, PlaceFacts
  <2>2. QED BY <1>b, <2>1 DEF Busy
<1>2. ASSUME NEW r \in Requests, GoesOn(r)
      PROVE  \/ positions' = <<>>
             \/ \E id, qty \in Nat \ {0} : positions' = <<[id |-> id, qty |-> qty]>>
  <2>1. /\ Busy(r) /\ req[r].pc # "trade" /\ UNCHANGED <<reset, log>>
        /\ positions' = positions \/ WriteShares(r)
        /\ Leave(r) \/ (OnlyOne(r) /\ SameOrder(r))
    BY <1>2, GoesOnFacts
  <2>2. OnlyOne(r) BY <2>1, LeaveFacts DEF PaperTyped
  <2>3. Undamaged BY <1>b, <2>1, <2>2 DEF OnlyOne
  <2>4. CASE positions' = positions BY <1>a, <2>3, <2>4
  <2>5. CASE WriteShares(r)
    <3>1. req'[r].pc = "trade" /\ SameOrder(r)
      BY <2>5, GotoFacts DEF PaperTyped, WriteShares
    <3>2. ~req[r].disturbed BY <3>1 DEF Undamaged, SameOrder
    <3>3. Clear(r) BY <2>1, <3>2 DEF Clear
    <3>4. QED BY <2>3, <2>5, <3>3, WriteOne
  <2>6. QED BY <2>1, <2>4, <2>5
<1>3. ASSUME NEW r \in Requests, Ends(r)
      PROVE  positions' = positions /\ Undamaged
  <2>1. OnlyOne(r) /\ UNCHANGED <<positions, reset>> /\ req[r] \in OrderRecords
        /\ log \in Seq(LogRecords)
    BY <1>3, EndsFacts DEF PaperTyped, CashInv, PaperRest
  <2>2. req[r].pc # "trade" \/ ~req[r].disturbed
    <3>0. ASSUME NEW e, log' = Append(log, e) PROVE ~e.disturbed
      <4>1. Len(log) + 1 \in DOMAIN log' /\ log'[Len(log) + 1] = e BY <2>1, <3>0
      <4>2. QED BY <4>1 DEF Undamaged
    <3>1. CASE RecordTrade(r)
      <4>1. log' = Append(log, Entry(req[r])) BY <3>1 DEF RecordTrade
      <4>2. QED BY <3>0, <4>1 DEF Entry
    <3>2. CASE OrderFails(r) /\ req[r].pc \in {"shares", "trade"}
      <4>1. log' = Append(log, Entry(req[r])) BY <3>2 DEF OrderFails
      <4>2. QED BY <3>0, <4>1 DEF Entry
    <3>3. QED BY <1>3, <3>1, <3>2 DEF Ends, NoPrice, OrderFails
  <2>3. \A i \in DOMAIN log : ~log[i].disturbed
    <3>1. log' = log \/ \E e : log' = Append(log, e)
      BY <1>3 DEF Ends, NoPrice, RecordTrade, OrderFails
    <3>2. \A i \in DOMAIN log : i \in DOMAIN log' /\ log'[i] = log[i] BY <2>1, <3>1
    <3>3. QED BY <3>2 DEF Undamaged
  <2>4. QED BY <2>1, <2>2, <2>3 DEF Undamaged, OnlyOne
<1>4. CASE StartReset
  <2>1. /\ positions' = positions /\ log \in Seq(LogRecords)
        /\ \A x \in Requests : req'[x].pc = req[x].pc /\ req'[x].disturbed = Busy(x)
    BY <1>4, StartResetFacts DEF StartReset, PaperTyped, PaperRest
  <2>2. \A x \in Requests : req[x].pc # "trade" BY <2>1 DEF Undamaged, Busy
  <2>3. ASSUME NEW i \in DOMAIN log PROVE ~log[i].disturbed
    <3>1. /\ DOMAIN log' = DOMAIN log /\ log[i] \in LogRecords
          /\ log'[i] = IF AtRest THEN Reopened(log[i]) ELSE Disturbed(log[i])
      BY <1>4, <2>1, StartedLog
    <3>2. ~log'[i].disturbed BY <3>1 DEF Undamaged
    <3>3. log'[i].disturbed = log[i].disturbed \/ log'[i].disturbed = TRUE
      BY <3>1, ResetEntries
    <3>4. QED BY <3>2, <3>3
  <2>4. QED BY <1>a, <2>1, <2>2, <2>3 DEF Undamaged
<1>5. CASE ResetPositions BY <1>5 DEF ResetPositions
<1>6. CASE ResetTrades \/ ResetAccount \/ ResetFails
  <2>1. UNCHANGED <<positions, log, req>>
    BY <1>6 DEF ResetTrades, ResetAccount, ResetFails
  <2>2. QED BY <1>a, <1>b, <2>1
<1>7. CASE NextDay
  <2>1. UNCHANGED <<positions, log, reset>> BY <1>7 DEF NextDay
  <2>2. \A x \in Requests : req'[x].pc = req[x].pc /\ req'[x].disturbed = req[x].disturbed
    BY <1>7, NextDayFacts
  <2>3. QED BY <1>a, <1>b, <2>1, <2>2
<1>8. CASE UNCHANGED <<positions, req, reset, log>>
  <2>1. Undamaged BY <1>b, <1>8
  <2>2. QED BY <1>a, <1>8, <2>1
<1>9. QED BY <1>a, <1>1, <1>2, <1>3, <1>4, <1>5, <1>6, <1>7, <1>8, PaperSteps

\* What ReadInv says of one request.
Covered(r) ==
    /\ req[r].pc \in {"pay", "held", "trades", "payIn", "shares"} =>
         req[r].id = FirstPosition.id /\ req[r].held = FirstPosition.qty
    /\ req[r].pc = "pay" => req[r].side = "buy"
    /\ req[r].pc \in {"held", "trades", "payIn"} => req[r].side = "sell"
    /\ req[r].pc = "trades" => tPlus /\ req[r].avail = FirstPosition.qty
    /\ req[r].pc = "payIn" \/ (req[r].pc = "shares" /\ req[r].side = "sell") =>
         CoveredBy(req[r], req[r].held)

LEMMA GoesOnCovered ==
    ASSUME PaperTyped, SettledInv, NEW r \in Requests, GoesOn(r), Clear(r), ~Leave(r)
    PROVE  Covered(r)'
<1>0. CashInv /\ Covered(r) BY DEF PaperTyped, SettledInv, ReadInv, Covered
<1>a. UNCHANGED <<tPlus, bought>> BY GoesOnFacts
<1>1. CASE ReadAccount(r)
  <2>1. req'[r].pc \in {"position", "create"} BY <1>0, <1>1, ReadAccountFacts
  <2>2. QED BY <2>1 DEF Covered
<1>2. CASE OpenAccount(r)
  <2>1. req'[r].pc = "position" BY <1>0, <1>2, GotoFacts DEF OpenAccount
  <2>2. QED BY <2>1 DEF Covered
<1>3. ASSUME NEW price \in Prices, ReadPosition(r, price) PROVE Covered(r)'
  <2>1. /\ req'[r].id = FirstPosition.id /\ req'[r].held = FirstPosition.qty
        /\ \/ req'[r].pc = "held" /\ req'[r].side = "sell"
           \/ req'[r].pc = "pay" /\ req'[r].side = "buy"
    BY <1>0, <1>3, ReadPositionFacts
  <2>2. FirstPosition' = FirstPosition BY <1>3, SamePositions DEF ReadPosition
  <2>3. QED BY <2>1, <2>2 DEF Covered
<1>4. CASE Pay(r)
  <2>1. SameOrder(r) /\ SameReading(r) /\ req'[r].pc = "shares" /\ req[r].pc = "pay"
    BY <1>0, <1>4, GotoFacts DEF Pay
  <2>2. FirstPosition' = FirstPosition BY <1>4, SamePositions DEF Pay
  <2>3. req'[r].side = "buy" BY <1>0, <2>1 DEF Covered, SameOrder
  <2>4. QED BY <1>0, <2>1, <2>2, <2>3 DEF Covered, SameReading
<1>5. CASE ReadHeld(r)
  <2>1. /\ SameOrder(r) /\ req'[r].id = req[r].id /\ req'[r].held = req[r].held
        /\ \/ req'[r].pc = "trades" /\ tPlus /\ req'[r].avail = FirstPosition.qty
           \/ req'[r].pc = "payIn" /\ CoveredBy(req[r], FirstPosition.qty)
    BY <1>5, ReadHeldFacts
  <2>2. FirstPosition' = FirstPosition BY <1>5, SamePositions DEF ReadHeld
  <2>3. /\ req[r].side = "sell" /\ req[r].id = FirstPosition.id
        /\ req[r].held = FirstPosition.qty
    BY <1>0, <1>5 DEF Covered, ReadHeld
  <2>4. CASE req'[r].pc = "trades"
    BY <1>a, <2>1, <2>2, <2>3, <2>4 DEF Covered, SameOrder
  <2>5. CASE req'[r].pc = "payIn"
    BY <1>a, <2>1, <2>2, <2>3, <2>5 DEF Covered, CoveredBy, SameOrder
  <2>6. QED BY <2>1, <2>4, <2>5
<1>6. CASE ReadTrades(r)
  <2>1. Goto(r, "payIn") /\ CoveredBy(req[r], req[r].avail) BY <1>6, ReadTradesFacts
  <2>2. SameOrder(r) /\ SameReading(r) /\ req'[r].pc = "payIn" BY <1>0, <2>1, GotoFacts
  <2>3. FirstPosition' = FirstPosition BY <1>6, SamePositions DEF ReadTrades
  <2>4. /\ req[r].side = "sell" /\ req[r].id = FirstPosition.id
        /\ req[r].held = FirstPosition.qty /\ req[r].avail = req[r].held
    BY <1>0, <1>6 DEF Covered, ReadTrades
  <2>5. QED BY <1>a, <2>1, <2>2, <2>3, <2>4 DEF Covered, CoveredBy, SameOrder, SameReading
<1>7. CASE PayIn(r)
  <2>1. SameOrder(r) /\ SameReading(r) /\ req'[r].pc = "shares" /\ req[r].pc = "payIn"
    BY <1>0, <1>7, GotoFacts DEF PayIn
  <2>2. FirstPosition' = FirstPosition BY <1>7, SamePositions DEF PayIn
  <2>3. QED
    BY <1>0, <1>a, <2>1, <2>2 DEF Covered, CoveredBy, SameOrder, SameReading
<1>8. CASE WriteShares(r)
  <2>1. req'[r].pc = "trade" BY <1>0, <1>8, GotoFacts DEF WriteShares
  <2>2. QED BY <2>1 DEF Covered
<1>9. QED BY <1>1, <1>2, <1>3, <1>4, <1>5, <1>6, <1>7, <1>8 DEF GoesOn

LEMMA ReadKept ==
    ASSUME PaperTyped, SettledInv, [PaperNext]_paperVars PROVE ReadInv'
<1> SUFFICES ASSUME NEW x \in Requests, Clear(x)' PROVE Covered(x)'
  BY DEF ReadInv, Covered
<1>a. Clear(x) => Covered(x) BY DEF SettledInv, ReadInv, Covered
<1>1. ASSUME NEW r \in Requests, NEW side, NEW qty, PlaceOrder(r, side, qty)
      PROVE  Covered(x)'
  <2>1. /\ req'[r].pc = "account"
        /\ \A y \in Requests : y # r => req'[y].pc = req[y].pc /\ req'[y].disturbed = Busy(y)
    BY <1>1, PlaceFacts
  <2>2. x = r BY <2>1 DEF Clear, Busy
  <2>3. QED BY <2>1, <2>2 DEF Covered
<1>2. ASSUME NEW r \in Requests, Busy(r), OnlyOne(r), x # r PROVE FALSE
  <2>1. Clear(x) BY <1>2 DEF OnlyOne, Clear, Busy
  <2>2. QED BY <1>2, <2>1 DEF SettledInv, AloneInv
<1>3. ASSUME NEW r \in Requests, GoesOn(r) PROVE Covered(x)'
  <2>1. Busy(r) /\ (Leave(r) \/ (OnlyOne(r) /\ SameOrder(r))) BY <1>3, GoesOnFacts
  <2>2. Leave(r) => OnlyOne(r) /\ ~Busy(r)' BY LeaveFacts DEF PaperTyped
  <2>3. x = r BY <1>2, <2>1, <2>2
  <2>4. ~Leave(r) BY <2>2, <2>3 DEF Clear
  <2>5. Clear(r) BY <2>1, <2>3, <2>4 DEF Clear, SameOrder
  <2>6. QED BY <1>3, <2>3, <2>4, <2>5, GoesOnCovered
<1>4. ASSUME NEW r \in Requests, Ends(r) PROVE Covered(x)'
  <2>1. Busy(r) /\ OnlyOne(r) /\ ~Busy(r)' BY <1>4, EndsFacts
  <2>2. x = r BY <1>2, <2>1
  <2>3. QED BY <2>1, <2>2 DEF Clear
<1>5. CASE StartReset
  <2>1. req'[x].pc = req[x].pc /\ req'[x].disturbed = Busy(x) BY <1>5, StartResetFacts
  <2>2. QED BY <2>1 DEF Clear, Busy
<1>6. CASE ResetPositions \/ ResetTrades \/ ResetAccount \/ ResetFails
  <2>1. reset # "idle" /\ req' = req
    BY <1>6 DEF ResetPositions, ResetTrades, ResetAccount, ResetFails
  <2>2. Clear(x) BY <2>1 DEF Clear, Busy
  <2>3. QED BY <2>1, <2>2 DEF SettledInv, AloneInv
<1>7. CASE NextDay
  <2>1. /\ req'[x].pc = req[x].pc /\ req'[x].side = req[x].side /\ req'[x].qty = req[x].qty
        /\ req'[x].disturbed = req[x].disturbed
        /\ req'[x].id = req[x].id /\ req'[x].held = req[x].held
        /\ req'[x].avail = req[x].avail
    BY <1>7, NextDayFacts
  <2>2. UNCHANGED <<tPlus, positions>> /\ bought' = 0 BY <1>7 DEF NextDay
  <2>3. FirstPosition' = FirstPosition BY <2>2, SamePositions
  <2>4. Covered(x) BY <1>a, <2>1 DEF Clear, Busy
  <2>5. bought \in Nat /\ req[x].qty \in Nat /\ req[x].held \in Int BY TypedFacts
  <2>6. CoveredBy(req[x], req[x].held) => CoveredBy(req[x], req[x].held)'
    BY <2>1, <2>2, <2>5 DEF CoveredBy
  <2>7. QED BY <2>1, <2>2, <2>3, <2>4, <2>6 DEF Covered
<1>8. CASE UNCHANGED <<tPlus, positions, bought, req>>
  <2>1. FirstPosition' = FirstPosition BY <1>8, SamePositions
  <2>2. Covered(x) BY <1>a, <1>8 DEF Clear, Busy
  <2>3. QED BY <1>8, <2>1, <2>2 DEF Covered, CoveredBy
<1>9. QED BY <1>1, <1>3, <1>4, <1>5, <1>6, <1>7, <1>8, PaperSteps

\* A day is clean while nobody is busy and the shares balance.
LEMMA QuietDay ==
    ASSUME \A i \in DOMAIN log' : ~log'[i].disturbed,
           \A x \in Requests : ~Busy(x)',
           reset' = "trades" => positions' = <<>>,
           reset' \in {"idle", "create"} => FirstPosition'.qty = Balance',
           tPlus' => today'.sold <= today'.start
    PROVE  DayInv'
<1>1. \A x \in Requests : req'[x].pc # "trade" BY DEF Busy
<1>2. QED BY <1>1 DEF DayInv

LEMMA DayKept ==
    ASSUME PaperTyped, SettledInv, [PaperNext]_paperVars PROVE DayInv'
<1> SUFFICES ASSUME today'.clean PROVE DayInv'
  BY DEF DayInv
\* Who is busy on a clean day is alone, and no reset is in progress.
<1>a. ASSUME NEW r \in Requests, today.clean, Busy(r)
      PROVE  /\ Clear(r) /\ ~req[r].old /\ reset = "idle"
             /\ \A x \in Requests : x # r => ~Busy(x) /\ req[x].pc = "idle"
  BY <1>a DEF SettledInv, DayInv, AloneInv, Busy
<1>b. today.clean => /\ \A i \in DOMAIN log : ~log[i].disturbed
                     /\ reset = "trades" => positions = <<>>
                     /\ tPlus => today.sold <= today.start
  BY DEF SettledInv, DayInv
<1>c. ASSUME NEW r \in Requests, today.clean, reset \in {"idle", "create"},
             req[r].pc # "trade",
             \A x \in Requests : x # r => ~Busy(x)
      PROVE  FirstPosition.qty = Balance
  <2>1. \A x \in Requests : req[x].pc # "trade" BY <1>c DEF Busy
  <2>2. QED BY <1>c, <2>1 DEF SettledInv, DayInv
<1>d. today \in [start: Int, sold: Nat, clean: BOOLEAN] /\ AtRest \in BOOLEAN
  BY DEF PaperTyped, PaperRest, AtRest, Busy
<1>1. ASSUME NEW r \in Requests, NEW side, NEW qty, PlaceOrder(r, side, qty)
      PROVE  DayInv'
  <2>1. /\ req'[r].pc = "account" /\ ~req'[r].old /\ req'[r].disturbed = ~AtRest
        /\ \A x \in Requests : x # r => req'[x].pc = req[x].pc
        /\ UNCHANGED <<tPlus, positions, bought, reset, log>>
        /\ today' = [today EXCEPT !.clean = @ /\ AtRest]
    BY <1>1, PlaceFacts
  <2>2. today.clean /\ AtRest /\ today'.start = today.start /\ today'.sold = today.sold
    BY <1>d, <2>1
  <2>3. reset = "idle" /\ \A x \in Requests : ~Busy(x) BY <2>2 DEF AtRest
  <2>4. \A x \in Requests : Busy(x)' => Clear(x)' /\ ~req'[x].old
    BY <2>1, <2>2, <2>3 DEF Busy, Clear
  <2>5. \A x \in Requests : req'[x].pc # "trade" BY <2>1, <2>3 DEF Busy
  <2>6. FirstPosition' = FirstPosition BY <2>1, SamePositions
  <2>7. FirstPosition.qty = Balance BY <1>c, <2>2, <2>3 DEF Busy
  <2>8. Balance' = Balance BY <2>1, <2>2 DEF Balance
  <2>9. QED BY <1>b, <2>1, <2>2, <2>3, <2>4, <2>5, <2>6, <2>7, <2>8 DEF DayInv
<1>2. ASSUME NEW r \in Requests, GoesOn(r) PROVE DayInv'
  <2>1. /\ Busy(r) /\ req[r].pc # "trade"
        /\ UNCHANGED <<tPlus, bought, reset, log, today>>
        /\ Leave(r) \/ (OnlyOne(r) /\ SameOrder(r) /\ Busy(r)')
        /\ req'[r].pc = "trade" => WriteShares(r)
        /\ positions' = positions \/ WriteShares(r)
    BY <1>2, GoesOnFacts
  <2>2. today.clean BY <2>1
  <2>3. /\ Clear(r) /\ ~req[r].old /\ reset = "idle"
        /\ \A x \in Requests : x # r => ~Busy(x) /\ req[x].pc = "idle"
    BY <1>a, <2>1, <2>2
  <2>4. FirstPosition.qty = Balance /\ Balance' = Balance
    BY <1>c, <2>1, <2>2, <2>3 DEF Balance
  <2>5. Leave(r) => OnlyOne(r) /\ ~Busy(r)' /\ req'[r].pc = "idle"
    BY LeaveFacts DEF PaperTyped
  <2>6. \A x \in Requests : x # r => ~Busy(x)' /\ req'[x].pc # "trade"
    BY <2>1, <2>3, <2>5 DEF OnlyOne, Busy
  <2>7. Busy(r)' => Clear(r)' /\ ~req'[r].old
    BY <2>1, <2>3, <2>5 DEF Clear, SameOrder
  <2>8. \A x \in Requests : Busy(x)' => Clear(x)' /\ ~req'[x].old BY <2>6, <2>7
  <2>9. CASE WriteShares(r)
    <3>1. req'[r].pc = "trade" /\ SameOrder(r) /\ req[r].pc = "shares"
      BY <2>9, GotoFacts DEF WriteShares, PaperTyped
    <3>2. Undamaged BY <1>b, <2>1, <2>2, <2>3, <3>1 DEF Undamaged
    <3>3. FirstPosition'.qty = FirstPosition.qty + ShareChange(req[r])
      BY <2>3, <2>9, <3>2, WriteOne
    <3>4. ShareChange(req'[r]) = ShareChange(req[r]) BY <3>1 DEF ShareChange, SameOrder
    <3>5. \A x \in Requests :
            req'[x].pc = "trade" => FirstPosition'.qty = Balance' + ShareChange(req'[x])
      <4>1. FirstPosition'.qty = Balance' + ShareChange(req'[r])
        BY <2>4, <3>3, <3>4
      <4>2. QED BY <2>6, <4>1
    <3>6. ASSUME tPlus, req'[r].side = "sell"
          PROVE  today.sold + req'[r].qty <= today.start
      <4>1. req[r].side = "sell" /\ req'[r].qty = req[r].qty BY <3>1, <3>6 DEF SameOrder
      <4>2. req[r].held = FirstPosition.qty /\ CoveredBy(req[r], req[r].held)
        BY <2>3, <3>1, <4>1 DEF SettledInv, ReadInv
      <4>3. req[r].qty + bought <= Balance BY <2>4, <3>6, <4>2 DEF CoveredBy
      <4>4. /\ req[r].qty \in Nat /\ bought \in Nat /\ today.start \in Int
            /\ today.sold \in Nat
        BY TypedFacts
      <4>5. QED BY <4>1, <4>3, <4>4 DEF Balance
    <3>7. tPlus' => \A x \in Requests : req'[x].pc = "trade" /\ req'[x].side = "sell" =>
                      today'.sold + req'[x].qty <= today'.start
      BY <2>1, <2>6, <3>6
    <3>8. ~(\A x \in Requests : req'[x].pc # "trade") BY <3>1
    <3>9. \A i \in DOMAIN log' : ~log'[i].disturbed BY <1>b, <2>1, <2>2
    <3>10. reset' = "idle" BY <2>1, <2>3
    <3>11. tPlus' => today'.sold <= today'.start BY <1>b, <2>1, <2>2
    <3>12. QED BY <2>8, <3>5, <3>7, <3>8, <3>9, <3>10, <3>11 DEF DayInv
  <2>10. CASE ~WriteShares(r)
    <3>1. FirstPosition' = FirstPosition BY <2>1, <2>10, SamePositions
    <3>2. \A x \in Requests : req'[x].pc # "trade" BY <2>1, <2>6, <2>10
    <3>3. \A i \in DOMAIN log' : ~log'[i].disturbed BY <1>b, <2>1, <2>2
    <3>4. reset' = "idle" BY <2>1, <2>3
    <3>5. tPlus' => today'.sold <= today'.start BY <1>b, <2>1, <2>2
    <3>6. QED BY <2>4, <2>8, <3>1, <3>2, <3>3, <3>4, <3>5 DEF DayInv
  <2>11. QED BY <2>9, <2>10
<1>3. ASSUME NEW r \in Requests, Ends(r) PROVE DayInv'
  <2>1. Busy(r) /\ Leave(r) /\ UNCHANGED <<tPlus, positions, reset>> /\ OnlyOne(r) /\ ~Busy(r)'
    BY <1>3, EndsFacts
  <2>2. ~OrderFails(r)
    <3>1. OrderFails(r) => today' = [today EXCEPT !.clean = FALSE] BY DEF OrderFails
    <3>2. QED BY <1>d, <3>1
  <2>3. today.clean
    <3>1. NoPrice(r) => today' = today BY DEF NoPrice
    <3>2. RecordTrade(r) => today' = [today EXCEPT !.sold = IF req[r].side = "sell"
                                                              THEN @ + req[r].qty ELSE @]
      BY DEF RecordTrade
    <3>3. QED BY <1>3, <1>d, <2>2, <3>1, <3>2 DEF Ends
  <2>4. /\ Clear(r) /\ ~req[r].old /\ reset = "idle"
        /\ \A x \in Requests : x # r => ~Busy(x)
    BY <1>a, <2>1, <2>3
  <2>5. \A x \in Requests : ~Busy(x)' BY <2>1, <2>4 DEF OnlyOne, Busy
  <2>6. FirstPosition' = FirstPosition BY <2>1, SamePositions
  <2>7. CASE NoPrice(r)
    <3>1. UNCHANGED <<bought, log, today>> /\ req[r].pc = "position" BY <2>7 DEF NoPrice
    <3>2. FirstPosition.qty = Balance BY <1>c, <2>3, <2>4, <3>1
    <3>3. Balance' = Balance BY <3>1 DEF Balance
    <3>4. \A i \in DOMAIN log' : ~log'[i].disturbed BY <1>b, <2>3, <3>1
    <3>5. tPlus' => today'.sold <= today'.start BY <1>b, <2>1, <2>3, <3>1
    <3>6. reset' = "idle" BY <2>1, <2>4
    <3>7. QED BY <2>5, <2>6, <3>2, <3>3, <3>4, <3>5, <3>6, QuietDay
  <2>8. CASE RecordTrade(r)
    <3>1. /\ req[r].pc = "trade"
          /\ bought' = IF req[r].side = "buy" /\ ~req[r].old THEN bought + req[r].qty ELSE bought
          /\ log' = Append(log, Entry(req[r]))
          /\ today' = [today EXCEPT !.sold = IF req[r].side = "sell" THEN @ + req[r].qty ELSE @]
      BY <2>8 DEF RecordTrade
    <3>2. /\ req[r].side \in {"buy", "sell"} /\ req[r].qty \in Nat /\ bought \in Nat
          /\ today.start \in Int /\ today.sold \in Nat
      BY TypedFacts
    <3>3. /\ today'.start = today.start
          /\ today'.sold = IF req[r].side = "sell" THEN today.sold + req[r].qty ELSE today.sold
      BY <1>d, <3>1
    <3>4. FirstPosition.qty = Balance + ShareChange(req[r])
      BY <2>3, <2>4, <3>1 DEF SettledInv, DayInv
    <3>5. Balance' = Balance + ShareChange(req[r])
      <4>1. ~req[r].old BY <2>4
      <4>2. Balance' = today'.start + bought' - today'.sold BY DEF Balance
      <4>3. CASE req[r].side = "buy"
        <5>1. bought' = bought + req[r].qty BY <3>1, <4>1, <4>3
        <5>2. today'.sold = today.sold BY <3>3, <4>3
        <5>3. ShareChange(req[r]) = req[r].qty BY <4>3 DEF ShareChange
        <5>4. QED BY <3>2, <3>3, <4>2, <5>1, <5>2, <5>3 DEF Balance
      <4>4. CASE req[r].side = "sell"
        <5>1. bought' = bought BY <3>1, <4>4
        <5>2. today'.sold = today.sold + req[r].qty BY <3>3, <4>4
        <5>3. ShareChange(req[r]) = -req[r].qty BY <4>4 DEF ShareChange
        <5>4. QED BY <3>2, <3>3, <4>2, <5>1, <5>2, <5>3 DEF Balance
      <4>5. QED BY <3>2, <4>3, <4>4
    <3>6. \A i \in DOMAIN log' : ~log'[i].disturbed
      <4>1. log \in Seq(LogRecords) BY DEF PaperTyped, PaperRest
      <4>2. ~Entry(req[r]).disturbed BY <2>4 DEF Clear, Entry
      <4>3. \A i \in DOMAIN log : ~log[i].disturbed BY <1>b, <2>3
      <4> DEFINE e == Entry(req[r])
      <4> HIDE DEF e
      <4>4. log' = Append(log, e) /\ ~e.disturbed BY <3>1, <4>2 DEF e
      <4>5. QED BY <4>1, <4>3, <4>4
    <3>7. tPlus' => today'.sold <= today'.start
      <4>1. CASE req[r].side = "sell"
        BY <2>1, <2>3, <3>1, <3>3, <4>1 DEF SettledInv, DayInv
      <4>2. CASE req[r].side # "sell" BY <1>b, <2>1, <2>3, <3>3, <4>2
      <4>3. QED BY <4>1, <4>2
    <3>8. reset' = "idle" BY <2>1, <2>4
    <3>9. QED BY <2>5, <2>6, <3>4, <3>5, <3>6, <3>7, <3>8, QuietDay
  <2>9. QED BY <1>3, <2>2, <2>7, <2>8 DEF Ends
<1>4. CASE StartReset
  <2>1. today' = [today EXCEPT !.clean = @ /\ AtRest] /\ reset' = "positions" /\ tPlus' = tPlus
    BY <1>4 DEF StartReset
  <2>2. today.clean /\ AtRest /\ today'.start = today.start /\ today'.sold = today.sold
    BY <1>d, <2>1
  <2>3. log \in Seq(LogRecords) BY DEF PaperTyped, PaperRest
  <2>4. \A x \in Requests : ~Busy(x)' BY <1>4, <2>2, StartResetFacts DEF AtRest, Busy
  <2>5. tPlus' => today'.sold <= today'.start BY <1>b, <2>1, <2>2
  <2>6. ASSUME NEW i \in DOMAIN log' PROVE ~log'[i].disturbed
    <3>1. i \in DOMAIN log /\ log'[i] = Reopened(log[i]) /\ log[i] \in LogRecords
      BY <1>4, <2>2, <2>3, StartedLog
    <3>2. QED BY <1>b, <2>2, <3>1, ResetEntries
  <2>7. QED BY <2>1, <2>4, <2>5, <2>6, QuietDay
<1>f. CASE ResetFails
  <2>1. today' = [today EXCEPT !.clean = FALSE] BY <1>f DEF ResetFails
  <2>2. QED BY <1>d, <2>1
<1>5. CASE ResetPositions
  <2>1. /\ reset = "positions" /\ reset' = "trades" /\ positions' = <<>>
        /\ UNCHANGED <<tPlus, req, today>>
    BY <1>5 DEF ResetPositions
  <2>2. \A x \in Requests : ~Busy(x)' BY <1>a, <2>1 DEF Busy
  <2>3. ASSUME NEW i \in DOMAIN log' PROVE ~log'[i].disturbed
    <3>1. log \in Seq(LogRecords) BY DEF PaperTyped, PaperRest
    <3>2. i \in DOMAIN log /\ log'[i] = Emptied(log[i]) /\ log[i] \in LogRecords
      BY <1>5, <3>1, EmptiedLog
    <3>3. QED BY <1>b, <2>1, <3>2, ResetEntries
  <2>4. tPlus' => today'.sold <= today'.start BY <1>b, <2>1
  <2>5. QED BY <2>1, <2>2, <2>3, <2>4, QuietDay
<1>6. CASE ResetTrades
  <2>1. /\ reset = "trades" /\ reset' = "create" /\ bought' = 0
        /\ today' = [today EXCEPT !.start = 0, !.sold = 0]
        /\ UNCHANGED <<tPlus, positions, req, log>>
    BY <1>6 DEF ResetTrades
  <2>2. today.clean /\ today'.start = 0 /\ today'.sold = 0 BY <1>d, <2>1
  <2>3. \A x \in Requests : ~Busy(x)' BY <1>a, <2>1, <2>2 DEF Busy
  <2>4. \A i \in DOMAIN log' : ~log'[i].disturbed BY <1>b, <2>1, <2>2
  <2>5. positions' = <<>> BY <1>b, <2>1, <2>2
  <2>6. FirstPosition'.qty = 0 BY <2>5 DEF FirstPosition
  <2>7. Balance' = 0 BY <2>1, <2>2 DEF Balance
  <2>8. QED BY <2>1, <2>2, <2>3, <2>4, <2>6, <2>7, QuietDay
<1>7. CASE ResetAccount
  <2>1. /\ reset = "create" /\ reset' = "idle"
        /\ UNCHANGED <<tPlus, positions, bought, req, log, today>>
    BY <1>7 DEF ResetAccount
  <2>2. \A x \in Requests : ~Busy(x) /\ ~Busy(x)' BY <1>a, <2>1 DEF Busy
  <2>3. FirstPosition' = FirstPosition BY <2>1, SamePositions
  <2>4. FirstPosition.qty = Balance BY <2>1, <2>2 DEF SettledInv, DayInv, Busy
  <2>5. Balance' = Balance BY <2>1 DEF Balance
  <2>6. \A i \in DOMAIN log' : ~log'[i].disturbed BY <1>b, <2>1
  <2>7. tPlus' => today'.sold <= today'.start BY <1>b, <2>1
  <2>8. QED BY <2>1, <2>2, <2>3, <2>4, <2>5, <2>6, <2>7, QuietDay
<1>8. CASE NextDay
  <2> DEFINE intact == \A i \in DOMAIN log : ~log[i].disturbed
  <2>1. /\ bought' = 0 /\ UNCHANGED <<positions, reset, log>>
        /\ today' = [start |-> Shares, sold |-> 0, clean |-> AtRest /\ intact]
    BY <1>8 DEF NextDay
  <2> HIDE DEF intact
  <2>2. AtRest /\ intact /\ today'.start = Shares /\ today'.sold = 0 BY <2>1
  <2>3. reset = "idle" /\ \A x \in Requests : ~Busy(x) BY <2>2 DEF AtRest
  <2>4. \A x \in Requests : ~Busy(x)' BY <1>8, <2>3, NextDayFacts DEF Busy
  <2>5. Undamaged BY <2>2, <2>3 DEF Undamaged, Busy, intact
  <2>6. Shares = FirstPosition.qty /\ FirstPosition.qty \in Nat
    BY <2>5, SharesOfOne DEF SettledInv, OneInv
  <2>7. FirstPosition' = FirstPosition BY <2>1, SamePositions
  <2>8. Balance' = FirstPosition.qty BY <2>1, <2>2, <2>6 DEF Balance
  <2>9. today'.sold <= today'.start BY <2>2, <2>6
  <2>10. \A i \in DOMAIN log' : ~log'[i].disturbed BY <2>1, <2>2 DEF intact
  <2>11. reset' = "idle" BY <2>1, <2>3
  <2>12. QED BY <2>4, <2>7, <2>8, <2>9, <2>10, <2>11, QuietDay
<1>9. CASE UNCHANGED <<tPlus, positions, bought, req, reset, log, today>>
  <2>1. FirstPosition' = FirstPosition BY <1>9, SamePositions
  <2>2. Balance' = Balance BY <1>9 DEF Balance
  <2>3. DayInv BY DEF SettledInv
  <2>4. QED BY <1>9, <2>1, <2>2, <2>3 DEF DayInv, Busy, Clear
<1>10. QED BY <1>1, <1>2, <1>3, <1>4, <1>f, <1>5, <1>6, <1>7, <1>8, <1>9, PaperSteps

LEMMA SettledKept == PaperSpec => []SettledInv
<1>1. PaperInit => SettledInv
  <2> SUFFICES ASSUME PaperInit PROVE SettledInv OBVIOUS
  <2>1. /\ positions = <<>> /\ \A r \in Requests : req[r] = NoOrder
        /\ bought = 0 /\ reset = "idle" /\ log = <<>>
        /\ today = [start |-> 0, sold |-> 0, clean |-> TRUE]
    BY DEF PaperInit
  <2>2. \A r \in Requests : ~Busy(r) /\ req[r].pc = "idle" BY <2>1 DEF NoOrder, Busy
  <2>3. FirstPosition.qty = 0 /\ Balance = 0 BY <2>1 DEF FirstPosition, Balance
  <2>4. AloneInv /\ ReadInv BY <2>2 DEF AloneInv, ReadInv, Clear
  <2>5. OneInv BY <2>1 DEF OneInv
  <2>6. DayInv BY <2>1, <2>2, <2>3 DEF DayInv
  <2>7. QED BY <2>4, <2>5, <2>6 DEF SettledInv
<1>2. PaperTyped /\ SettledInv /\ [PaperNext]_paperVars => SettledInv'
  BY AloneKept, OneKept, ReadKept, DayKept DEF SettledInv
<1>3. QED BY <1>1, <1>2, PaperTypes, PTL DEF PaperSpec

\* T+1: of an account whose requests have neither overlapped nor failed, no more is
\* sold in a day than was held when it began (_get_available_quantity).
THEOREM SettledSharesOnly == PaperSpec => []OnlySettledSharesSold
<1>1. SettledInv => OnlySettledSharesSold BY DEF SettledInv, DayInv, OnlySettledSharesSold
<1>2. QED BY <1>1, SettledKept, PTL

-----------------------------------------------------------------------------
(* OrdersAccountedFor                                                      *)

\* v is what the ended orders come to, of which some in D may be lost, and with
\* them some of the orders in progress, those in C among them.
Covers(v, f, D, g, P, C) ==
    \E lost \in SUBSET D, part \in SUBSET P :
        C \subseteq part /\ v = SumFunctionOnSet(f, DOMAIN f \ lost) + SumFunctionOnSet(g, part)

\* Nothing is accounted for where everything may be lost.
LEMMA CoversNone ==
    ASSUME NEW f, NEW g, NEW P PROVE Covers(0, f, DOMAIN f, g, P, {})
<1>1. SumFunctionOnSet(f, DOMAIN f \ DOMAIN f) + SumFunctionOnSet(g, {}) = 0
  <2>1. DOMAIN f \ DOMAIN f = {} OBVIOUS
  <2>2. QED BY <2>1, SumOfNone
<1>2. QED BY <1>1 DEF Covers

\* ... or where nothing is left to lose.
LEMMA CoversZeros ==
    ASSUME NEW f, IsFiniteSet(DOMAIN f), \A i \in DOMAIN f : f[i] = 0, NEW D, NEW g, NEW P
    PROVE  Covers(0, f, D, g, P, {})
<1>1. SumFunctionOnSet(f, DOMAIN f \ {}) = 0
  <2>1. DOMAIN f \ {} = DOMAIN f /\ {} \in SUBSET DOMAIN f OBVIOUS
  <2>2. \A i \in DOMAIN f : f[i] \in Int OBVIOUS
  <2>3. SumFunctionOnSet(f, DOMAIN f) = SumFunctionOnSet(f, {}) BY <2>2, SumOfZeros
  <2>4. QED BY <2>1, <2>3, SumOfNone
<1>2. SumFunctionOnSet(g, {}) = 0 BY SumOfNone
<1>3. 0 = SumFunctionOnSet(f, DOMAIN f \ {}) + SumFunctionOnSet(g, {}) BY <1>1, <1>2
<1>4. {} \in SUBSET D /\ {} \in SUBSET P OBVIOUS
<1>5. QED BY <1>3, <1>4 DEF Covers

\* What changes nothing need not be lost.
LEMMA CoversThinned ==
    ASSUME NEW v, NEW f, NEW D, NEW g, NEW P, NEW C, Covers(v, f, D, g, P, C),
           IsFiniteSet(DOMAIN f), \A i \in DOMAIN f : f[i] \in Int,
           NEW D2, \A i \in DOMAIN f : i \in D /\ i \notin D2 => f[i] = 0
    PROVE  Covers(v, f, D2, g, P, C)
<1>1. PICK lost \in SUBSET D, part \in SUBSET P :
        C \subseteq part /\ v = SumFunctionOnSet(f, DOMAIN f \ lost) + SumFunctionOnSet(g, part)
  BY DEF Covers
<1> DEFINE less == lost \cap D2
           T == DOMAIN f \ less
           S == DOMAIN f \ lost
<1>2. S \in SUBSET T /\ T \in SUBSET DOMAIN f OBVIOUS
<1>3. IsFiniteSet(T) /\ (\A i \in T : f[i] \in Int) /\ \A i \in T \ S : f[i] = 0
  BY <1>1, <1>2, FS_Subset
<1>4. SumFunctionOnSet(f, T) = SumFunctionOnSet(f, S)
  <2> HIDE DEF T, S
  <2>1. QED BY <1>2, <1>3, SumOfZeros
<1>5. v = SumFunctionOnSet(f, DOMAIN f \ less) + SumFunctionOnSet(g, part) BY <1>1, <1>4
<1>6. less \in SUBSET D2 OBVIOUS
<1>7. QED BY <1>1, <1>5, <1>6 DEF Covers

\* More may be lost, and more orders are in progress.
LEMMA CoversKept ==
    ASSUME NEW v, NEW f, NEW D, NEW g, NEW P, NEW C, Covers(v, f, D, g, P, C),
           IsFiniteSet(P), \A x \in P : g[x] \in Int,
           NEW D2, D \subseteq D2, NEW P2, P \subseteq P2, NEW C2, C2 \subseteq C,
           NEW g2, \A x \in P : g2[x] = g[x]
    PROVE  Covers(v, f, D2, g2, P2, C2)
<1>1. PICK lost \in SUBSET D, part \in SUBSET P :
        C \subseteq part /\ v = SumFunctionOnSet(f, DOMAIN f \ lost) + SumFunctionOnSet(g, part)
  BY DEF Covers
<1>2. SumFunctionOnSet(g, part) = SumFunctionOnSet(g2, part)
  <2>1. IsFiniteSet(part) BY FS_Subset
  <2>2. QED BY <2>1, SumOfSame
<1>3. lost \in SUBSET D2 /\ part \in SUBSET P2 /\ C2 \subseteq part BY <1>1
<1>4. QED BY <1>1, <1>2, <1>3 DEF Covers

\* An order begins to write.
LEMMA CoversMore ==
    ASSUME NEW v \in Int, NEW f, NEW D, NEW g, NEW P, NEW C, Covers(v, f, D, g, P, C),
           IsFiniteSet(DOMAIN f), \A i \in DOMAIN f : f[i] \in Int,
           IsFiniteSet(P), \A y \in P : g[y] \in Int,
           NEW x, x \notin P, NEW C2, C2 \subseteq C \cup {x},
           NEW g2, \A y \in P : g2[y] = g[y], g2[x] \in Int
    PROVE  Covers(v + g2[x], f, D, g2, P \cup {x}, C2)
<1>1. PICK lost \in SUBSET D, part \in SUBSET P :
        C \subseteq part /\ v = SumFunctionOnSet(f, DOMAIN f \ lost) + SumFunctionOnSet(g, part)
  BY DEF Covers
<1>2. IsFiniteSet(part) /\ x \notin part /\ \A y \in part \cup {x} : g2[y] \in Int
  BY FS_Subset
<1>3. SumFunctionOnSet(g2, part \cup {x}) = g2[x] + SumFunctionOnSet(g2, part)
  BY <1>2, SumOfMore
<1>4. SumFunctionOnSet(g2, part) = SumFunctionOnSet(g, part)
  BY <1>2, SumOfSame
<1>5. SumFunctionOnSet(g, part) \in Int BY <1>2, SumTypes
<1>6. SumFunctionOnSet(f, DOMAIN f \ lost) \in Int
  <2>1. IsFiniteSet(DOMAIN f \ lost) BY FS_Subset
  <2>2. QED BY <2>1, SumTypes
<1>7. v + g2[x] = SumFunctionOnSet(f, DOMAIN f \ lost) + SumFunctionOnSet(g2, part \cup {x})
  BY <1>1, <1>3, <1>4, <1>5, <1>6
<1>8. part \cup {x} \in SUBSET (P \cup {x}) /\ C2 \subseteq part \cup {x} BY <1>1
<1>9. QED BY <1>7, <1>8 DEF Covers

\* Entry k is new, and stands for the order x, which is certain, or may be lost, or
\* has changed nothing.
Closes(f, D, g, P, C, x, k, f2, D2) ==
    /\ k \notin DOMAIN f /\ DOMAIN f2 = DOMAIN f \cup {k} /\ \A i \in DOMAIN f : f2[i] = f[i]
    /\ D \subseteq DOMAIN f /\ D \subseteq D2
    /\ x \in P => f2[k] = g[x]
    /\ x \in C \/ k \in D2 \/ f2[k] = 0

\* An order ends: it moves from those in progress to the log.
LEMMA CoversEnded ==
    ASSUME NEW v \in Int, NEW f, NEW D, NEW g, NEW P, NEW C, Covers(v, f, D, g, P, C),
           IsFiniteSet(DOMAIN f), \A i \in DOMAIN f : f[i] \in Int,
           IsFiniteSet(P), \A y \in P : g[y] \in Int,
           NEW x, NEW k, NEW f2, NEW D2, Closes(f, D, g, P, C, x, k, f2, D2),
           NEW C2, C2 \subseteq C \ {x},
           NEW g2, \A y \in P \ {x} : g2[y] = g[y]
    PROVE  Covers(v, f2, D2, g2, P \ {x}, C2)
<1>0. /\ k \notin DOMAIN f /\ DOMAIN f2 = DOMAIN f \cup {k} /\ \A i \in DOMAIN f : f2[i] = f[i]
      /\ D \subseteq DOMAIN f /\ D \subseteq D2
      /\ (x \in P => f2[k] = g[x])
      /\ x \in C \/ k \in D2 \/ f2[k] = 0
  BY DEF Closes
<1>1. PICK lost \in SUBSET D, part \in SUBSET P :
        C \subseteq part /\ v = SumFunctionOnSet(f, DOMAIN f \ lost) + SumFunctionOnSet(g, part)
  BY DEF Covers
<1>2. /\ IsFiniteSet(part) /\ IsFiniteSet(DOMAIN f \ lost) /\ IsFiniteSet(part \ {x})
  BY FS_Subset
<1>3. SumFunctionOnSet(f2, DOMAIN f \ lost) = SumFunctionOnSet(f, DOMAIN f \ lost)
  BY <1>0, <1>2, SumOfSame
<1>4. SumFunctionOnSet(g2, part \ {x}) = SumFunctionOnSet(g, part \ {x})
  BY <1>2, SumOfSame
<1>5. CASE x \in part
  <2>1. f2[k] = g[x] /\ g[x] \in Int BY <1>0, <1>5
  <2>2. SumFunctionOnSet(g, part) = g[x] + SumFunctionOnSet(g, part \ {x})
    BY <1>2, <1>5, SumSplits
  <2>3. /\ SumFunctionOnSet(g, part \ {x}) \in Int
        /\ SumFunctionOnSet(f, DOMAIN f \ lost) \in Int
    BY <1>2, SumTypes
  <2> DEFINE S == DOMAIN f \ lost
  <2>4. k \notin S /\ \A y \in S \cup {k} : f2[y] \in Int BY <1>0, <2>1
  <2>5. SumFunctionOnSet(f2, S \cup {k}) = f2[k] + SumFunctionOnSet(f2, S)
    <3> HIDE DEF S
    <3>1. IsFiniteSet(S) BY <1>2 DEF S
    <3>2. QED BY <2>4, <3>1, SumOfMore
  <2>6. DOMAIN f2 \ lost = S \cup {k} BY <1>0, <1>1
  <2>7. v = SumFunctionOnSet(f2, DOMAIN f2 \ lost) + SumFunctionOnSet(g2, part \ {x})
    <3>1. /\ v = SumFunctionOnSet(f, S) + SumFunctionOnSet(g, part)
          /\ SumFunctionOnSet(f2, S) = SumFunctionOnSet(f, S)
          /\ SumFunctionOnSet(f, S) \in Int
      BY <1>1, <1>3, <2>3
    <3> HIDE DEF S
    <3>2. SumFunctionOnSet(f2, DOMAIN f2 \ lost) = g[x] + SumFunctionOnSet(f, S)
      BY <2>1, <2>5, <2>6, <3>1
    <3>3. SumFunctionOnSet(g, part) = g[x] + SumFunctionOnSet(g2, part \ {x})
      BY <1>4, <2>2
    <3>4. g[x] \in Int /\ SumFunctionOnSet(g2, part \ {x}) \in Int BY <1>4, <2>1, <2>3
    <3>5. QED BY <3>1, <3>2, <3>3, <3>4
  <2>8. lost \in SUBSET D2 /\ part \ {x} \in SUBSET (P \ {x}) /\ C2 \subseteq part \ {x}
    BY <1>0, <1>1
  <2>9. QED BY <2>7, <2>8 DEF Covers
<1>6. CASE x \notin part /\ k \in D2
  <2>1. k \in D2 BY <1>6
  <2>2. DOMAIN f2 \ (lost \cup {k}) = DOMAIN f \ lost BY <1>0
  <2>3. part \ {x} = part BY <1>6
  <2>4. v = SumFunctionOnSet(f2, DOMAIN f2 \ (lost \cup {k})) + SumFunctionOnSet(g2, part \ {x})
    BY <1>1, <1>3, <1>4, <2>2, <2>3
  <2>5. lost \cup {k} \in SUBSET D2 /\ part \ {x} \in SUBSET (P \ {x}) /\ C2 \subseteq part \ {x}
    BY <1>0, <1>1, <2>1
  <2>6. QED BY <2>4, <2>5 DEF Covers
<1>7. CASE x \notin part /\ f2[k] = 0
  <2> DEFINE S == DOMAIN f \ lost
             T == DOMAIN f2 \ lost
  <2>1. T = S \cup {k} /\ k \notin S /\ part \ {x} = part BY <1>0, <1>1, <1>7
  <2>2. \A y \in S \cup {k} : f2[y] \in Int BY <1>0, <1>7
  <2>3. SumFunctionOnSet(f2, T) = SumFunctionOnSet(f2, S)
    <3>1. IsFiniteSet(S) BY <1>2
    <3>2. SumFunctionOnSet(f2, S) \in Int
      <4> HIDE DEF S
      <4>1. QED BY <2>2, <3>1, SumTypes
    <3>3. SumFunctionOnSet(f2, S \cup {k}) = f2[k] + SumFunctionOnSet(f2, S)
      <4> HIDE DEF S
      <4>1. QED BY <2>1, <2>2, <3>1, SumOfMore
    <3> HIDE DEF S, T
    <3>4. QED BY <1>7, <2>1, <3>2, <3>3
  <2>4. v = SumFunctionOnSet(f2, DOMAIN f2 \ lost) + SumFunctionOnSet(g2, part \ {x})
    BY <1>1, <1>3, <1>4, <2>1, <2>3
  <2>5. lost \in SUBSET D2 /\ part \ {x} \in SUBSET (P \ {x}) /\ C2 \subseteq part \ {x}
    BY <1>0, <1>1, <2>1
  <2>6. QED BY <2>4, <2>5 DEF Covers
<1>8. QED BY <1>0, <1>1, <1>5, <1>6, <1>7

-----------------------------------------------------------------------------
\* The terms of the sums.
CashTerms == [i \in DOMAIN log |-> log[i].cash]
ShareTerms == [i \in DOMAIN log |-> log[i].shares]
CashOrders == [r \in Requests |-> CashChange(req[r])]
ShareOrders == [r \in Requests |-> ShareChange(req[r])]

\* Entries that may be lost, and orders that have paid or written their shares.
Excused == {i \in DOMAIN log : log[i].disturbed}
Paid == {r \in Requests : req[r].pc \in {"shares", "trade"}}
Written == {r \in Requests : req[r].pc = "trade"}
Plain(open) == {r \in open : ~req[r].disturbed}

CashBooks(v) == Covers(v - InitialCash, CashTerms, Excused, CashOrders, Paid, Plain(Paid))
ShareBooks(v) == Covers(v, ShareTerms, Excused, ShareOrders, Written, Plain(Written))

\* Orders that have read a balance they may write, or the position that is found.
BalanceReaders == {r \in Requests : req[r].pc \in {"create", "position", "pay"}}
PositionReaders ==
    {r \in Requests : /\ req[r].pc \in {"pay", "held", "trades", "payIn", "shares"}
                      /\ positions # <<>> /\ req[r].id = FirstPosition.id}

\* The balance is accounted for, and so is each that may be written back.
CashInBooks ==
    /\ CashBooks(Funds)
    /\ \A r \in BalanceReaders : CashBooks(req[r].cash)

\* So are the shares, with the quantity that may be written back.
SharesInBooks ==
    /\ ShareBooks(Shares)
    /\ \A r \in PositionReaders : ShareBooks(Shares - FirstPosition.qty + req[r].held)

\* Identifiers are numbers of orders, of which the latest is the highest; no document
\* but the first is known to a request.
NumbersInv ==
    LET orders == paperUsed["orders"]
    IN  /\ \A r \in Requests : req[r].n <= orders /\ req[r].id <= orders
        /\ \A i \in DOMAIN positions : positions[i].id # 0 /\ positions[i].id <= orders
        /\ \A i, j \in DOMAIN positions : positions[i].id = positions[j].id => i = j
        /\ \A r, x \in Requests : Busy(r) /\ Busy(x) /\ req[r].n = req[x].n => r = x
        /\ \A r \in Requests : Busy(r) /\ req[r].pc # "trade" =>
             /\ \A i \in DOMAIN positions : positions[i].id # req[r].n
             /\ \A x \in Requests : req[x].id # req[r].n
        /\ \A r \in Requests : \A i \in DOMAIN positions : i # 1 => req[r].id # positions[i].id

\* What is written depends on the side.
SidesInv ==
    \A r \in Requests :
      /\ req[r].pc = "pay" => req[r].side = "buy"
      /\ req[r].pc \in {"held", "trades", "payIn"} => req[r].side = "sell"
      /\ req[r].pc = "payIn" \/ (req[r].pc = "shares" /\ req[r].side = "sell") => req[r].id # 0

\* A request alone has an account to write to.
OpenInv == \A r \in Requests : Clear(r) /\ req[r].pc \notin {"account", "create"} => account.exists

BooksInv == OpenInv /\ SidesInv /\ NumbersInv /\ CashInBooks /\ SharesInBooks

-----------------------------------------------------------------------------
\* A request that another's step leaves alone, or only disturbs.
Stays(x) ==
    /\ req'[x].pc = req[x].pc /\ req'[x].n = req[x].n /\ req'[x].side = req[x].side
    /\ req'[x].qty = req[x].qty /\ req'[x].price = req[x].price /\ req'[x].cash = req[x].cash
    /\ req'[x].id = req[x].id /\ req'[x].held = req[x].held
    /\ Busy(x) /\ req[x].disturbed => req'[x].disturbed

LEMMA PlaceStays ==
    ASSUME PaperTyped, NEW r \in Requests, NEW side, NEW qty, PlaceOrder(r, side, qty),
           NEW x \in Requests, x # r
    PROVE  Stays(x)
<1>1. req \in [Requests -> OrderRecords] BY DEF PaperTyped, CashInv
<1>2. req'[x] = [req[x] EXCEPT !.disturbed = Busy(x)] BY DEF PlaceOrder
<1>3. req[x] \in OrderRecords BY <1>1
<1>4. QED BY <1>2, <1>3 DEF OrderRecords, Stays

LEMMA ResetStays ==
    ASSUME PaperTyped, StartReset, NEW x \in Requests PROVE Stays(x)
<1>1. req \in [Requests -> OrderRecords] BY DEF PaperTyped, CashInv
<1>2. req'[x] = [req[x] EXCEPT !.disturbed = Busy(x)] BY DEF StartReset
<1>3. req[x] \in OrderRecords BY <1>1
<1>4. QED BY <1>2, <1>3 DEF OrderRecords, Stays

LEMMA NextDayStays ==
    ASSUME PaperTyped, NextDay, NEW x \in Requests PROVE Stays(x)
<1>1. req \in [Requests -> OrderRecords] BY DEF PaperTyped, CashInv
<1>2. req'[x] = [req[x] EXCEPT !.old = Busy(x)] BY DEF NextDay
<1>3. req[x] \in OrderRecords BY <1>1
<1>4. QED BY <1>2, <1>3 DEF OrderRecords, Stays

LEMMA SameStays ==
    ASSUME NEW x \in Requests, req'[x] = req[x] PROVE Stays(x)
  BY DEF Stays

LEMMA OthersStay ==
    ASSUME NEW r \in Requests, OnlyOne(r) PROVE \A x \in Requests : x # r => Stays(x)
  BY SameStays DEF OnlyOne

\* What a request still to write something does without writing it.
Reads(r) == ReadAccount(r) \/ OpenAccount(r) \/ (\E price \in Prices : ReadPosition(r, price))
            \/ ReadHeld(r) \/ ReadTrades(r)

ReadsOn(r) ==
    /\ SameOrder(r) /\ req'[r].pc \in {"create", "position", "pay", "held", "trades", "payIn"}
    /\ req'[r].id \in {req[r].id, FirstPosition.id}
    /\ req'[r].pc \in {"create", "position", "pay"} =>
         \/ req'[r].cash = Funds
         \/ req[r].pc \in {"create", "position"} /\ req'[r].cash = req[r].cash
    /\ req'[r].pc \in {"pay", "held", "trades", "payIn"} =>
         \/ req'[r].id = FirstPosition.id /\ req'[r].held = FirstPosition.qty
         \/ /\ req[r].pc \in {"held", "trades"} /\ req'[r].id = req[r].id
            /\ req'[r].held = req[r].held
    /\ req'[r].pc = "pay" => req[r].side = "buy"
    /\ req'[r].pc = "held" => req[r].side = "sell"
    /\ req'[r].pc \in {"trades", "payIn"} => req[r].pc \in {"held", "trades"}
    /\ req'[r].pc = "payIn" => req'[r].id # 0
    /\ req'[r].pc # "create" => account'.exists \/ req[r].pc \notin {"account", "create"}

LEMMA ReadsFacts ==
    ASSUME PaperTyped, NEW r \in Requests, Reads(r)
    PROVE  /\ OnlyOne(r) /\ Busy(r) /\ req[r].pc \notin {"payIn", "shares", "trade"}
           /\ UNCHANGED <<positions, reset, log, paperUsed>>
           /\ Funds' = Funds /\ (account.exists => account'.exists)
           /\ req'[r] = NoOrder \/ ReadsOn(r)
<1>0. CashInv BY DEF PaperTyped
<1>a. UNCHANGED account => Funds' = Funds /\ (account.exists => account'.exists)
  BY DEF Funds
<1>b. Leave(r) => OnlyOne(r) /\ req'[r] = NoOrder BY <1>0, LeaveFacts
<1>1. CASE ReadAccount(r)
  <2>1. req[r].pc = "account" /\ UNCHANGED <<account, positions, reset, log, paperUsed>>
    BY <1>1 DEF ReadAccount
  <2>2. /\ OnlyOne(r) /\ SameOrder(r) /\ req'[r].pc \in {"position", "create"}
        /\ req'[r].cash = Funds /\ req'[r].id = req[r].id
        /\ req'[r].pc = "position" => account.exists
    BY <1>0, <1>1, ReadAccountFacts
  <2>3. QED BY <1>a, <2>1, <2>2 DEF ReadsOn, Busy
<1>2. CASE OpenAccount(r)
  <2>1. /\ req[r].pc = "create" /\ CreateAccount /\ Goto(r, "position")
        /\ UNCHANGED <<positions, reset, log, paperUsed>>
    BY <1>2 DEF OpenAccount
  <2>2. /\ OnlyOne(r) /\ SameOrder(r) /\ SameReading(r) /\ SameMoney(r)
        /\ req'[r].pc = "position"
    BY <1>0, <2>1, GotoFacts
  <2>3. account'.exists /\ Funds' = Funds BY <1>0, <2>1 DEF CreateAccount, Funds, CashInv
  <2>4. QED BY <2>1, <2>2, <2>3 DEF ReadsOn, Busy, SameReading, SameMoney
<1>3. ASSUME NEW price \in Prices, ReadPosition(r, price)
      PROVE  /\ OnlyOne(r) /\ Busy(r) /\ req[r].pc \notin {"payIn", "shares", "trade"}
             /\ UNCHANGED <<positions, reset, log, paperUsed>>
             /\ Funds' = Funds /\ (account.exists => account'.exists)
             /\ req'[r] = NoOrder \/ ReadsOn(r)
  <2>1. req[r].pc = "position" /\ UNCHANGED <<account, positions, reset, log, paperUsed>>
    BY <1>3 DEF ReadPosition
  <2>2. \/ Leave(r)
        \/ /\ OnlyOne(r) /\ SameOrder(r)
           /\ req'[r].id = FirstPosition.id /\ req'[r].held = FirstPosition.qty
           /\ req'[r].cash = req[r].cash
           /\ \/ req'[r].pc = "held" /\ req'[r].side = "sell"
              \/ req'[r].pc = "pay" /\ req'[r].side = "buy"
    BY <1>0, <1>3, ReadPositionFacts
  <2>3. CASE Leave(r) BY <1>a, <1>b, <2>1, <2>3 DEF Busy
  <2>4. CASE ~Leave(r) BY <1>a, <2>1, <2>2, <2>4 DEF ReadsOn, Busy, SameOrder
  <2>5. QED BY <2>3, <2>4
<1>4. CASE ReadHeld(r)
  <2>1. req[r].pc = "held" /\ UNCHANGED <<account, positions, reset, log, paperUsed>>
    BY <1>4 DEF ReadHeld
  <2>2. \/ Leave(r)
        \/ /\ OnlyOne(r) /\ SameOrder(r) /\ req'[r].id = req[r].id /\ req'[r].held = req[r].held
           /\ \/ req'[r].pc = "trades"
              \/ req'[r].pc = "payIn" /\ CoveredBy(req[r], FirstPosition.qty)
    BY <1>4, ReadHeldFacts
  <2>3. CASE Leave(r) BY <1>a, <1>b, <2>1, <2>3 DEF Busy
  <2>4. CASE ~Leave(r) BY <1>a, <2>1, <2>2, <2>4 DEF ReadsOn, Busy, CoveredBy
  <2>5. QED BY <2>3, <2>4
<1>5. CASE ReadTrades(r)
  <2>1. req[r].pc = "trades" /\ UNCHANGED <<account, positions, reset, log, paperUsed>>
    BY <1>5 DEF ReadTrades
  <2>2. Leave(r) \/ (Goto(r, "payIn") /\ CoveredBy(req[r], req[r].avail))
    BY <1>5, ReadTradesFacts
  <2>3. CASE Leave(r) BY <1>a, <1>b, <2>1, <2>3 DEF Busy
  <2>4. CASE ~Leave(r)
    <3>1. OnlyOne(r) /\ SameOrder(r) /\ SameReading(r) /\ req'[r].pc = "payIn"
      BY <1>0, <2>2, <2>4, GotoFacts
    <3>2. QED BY <1>a, <2>1, <2>2, <2>4, <3>1 DEF ReadsOn, Busy, CoveredBy, SameReading
  <2>5. QED BY <2>3, <2>4
<1>6. QED BY <1>1, <1>2, <1>3, <1>4, <1>5 DEF Reads

LEMMA ChangeTypes ==
    ASSUME PaperTyped, NEW r \in Requests
    PROVE  CashChange(req[r]) \in Int /\ ShareChange(req[r]) \in Int
<1>1. req[r] \in OrderRecords BY DEF PaperTyped, CashInv
<1>2. QED BY <1>1, EntryType

\* Payment: what a buy has read less its cost, or what there is and the proceeds.
LEMMA PayFacts ==
    ASSUME PaperTyped, SidesInv, NEW r \in Requests, Pay(r) \/ PayIn(r)
    PROVE  /\ OnlyOne(r) /\ SameOrder(r) /\ SameReading(r) /\ SameMoney(r)
           /\ req[r].pc \in {"pay", "payIn"} /\ req'[r].pc = "shares"
           /\ UNCHANGED <<positions, reset, log, paperUsed>>
           /\ account'.exists = account.exists
           /\ account.exists =>
                Funds' = (IF req[r].pc = "pay" THEN req[r].cash ELSE Funds) + CashChange(req[r])
           /\ ~account.exists => Funds' = Funds
<1>1. CashInv /\ CashChange(req[r]) \in Int BY ChangeTypes DEF PaperTyped
<1>2. account \in [exists: BOOLEAN, cash: Int] /\ req[r] \in OrderRecords BY <1>1 DEF CashInv
<1>3. /\ Goto(r, "shares") /\ req[r].pc \in {"pay", "payIn"}
      /\ UNCHANGED <<positions, reset, log, paperUsed>>
  BY DEF Pay, PayIn
<1>4. /\ OnlyOne(r) /\ SameOrder(r) /\ SameReading(r) /\ SameMoney(r) /\ req'[r].pc = "shares"
  BY <1>1, <1>3, GotoFacts
<1>5. CASE Pay(r)
  <2> DEFINE cash == req[r].cash - Cost(req[r])
  <2>1. account' = IF account.exists THEN [account EXCEPT !.cash = cash] ELSE account
    BY <1>5 DEF Pay
  <2>2. req[r].pc = "pay" /\ req[r].side = "buy" BY <1>5 DEF Pay, SidesInv
  <2>3. CashChange(req[r]) = -Cost(req[r]) BY <2>2 DEF CashChange
  <2>4. Cost(req[r]) \in Int
    <3>1. req[r].price \in Int /\ req[r].qty \in Int /\ Fee \in Int
      BY <1>2, PaperConstants DEF OrderRecords
    <3>2. req[r].price * req[r].qty \in Int BY <3>1
    <3>3. QED BY <3>1, <3>2 DEF Cost
  <2>5. cash = req[r].cash + CashChange(req[r]) BY <1>2, <2>3, <2>4 DEF OrderRecords
  <2> HIDE DEF cash
  <2>6. account'.exists = account.exists /\ (account.exists => account'.cash = cash)
        /\ (~account.exists => account' = account)
    BY <1>2, <2>1
  <2>7. QED BY <1>3, <1>4, <2>2, <2>5, <2>6 DEF Funds
<1>6. CASE PayIn(r)
  <2> DEFINE cash == account.cash + Proceeds(req[r])
  <2>1. account' = IF account.exists THEN [account EXCEPT !.cash = cash] ELSE account
    BY <1>2, <1>6 DEF PayIn
  <2>2. req[r].pc = "payIn" /\ req[r].side = "sell" BY <1>6 DEF PayIn, SidesInv
  <2>3. cash = account.cash + CashChange(req[r]) BY <2>2 DEF CashChange
  <2> HIDE DEF cash
  <2>4. account'.exists = account.exists /\ (account.exists => account'.cash = cash)
        /\ (~account.exists => account' = account)
    BY <1>2, <2>1
  <2>5. QED BY <1>3, <1>4, <2>2, <2>3, <2>4 DEF Funds
<1>7. QED BY <1>5, <1>6

\* What becomes of the documents when an order writes its quantity: a new document, a
\* first document that is changed or deleted, or nothing.
LEMMA WriteFacts ==
    ASSUME PaperTyped, SidesInv, NumbersInv, NEW r \in Requests, WriteShares(r)
    PROVE  /\ OnlyOne(r) /\ SameOrder(r) /\ SameReading(r) /\ SameMoney(r)
           /\ req[r].pc = "shares" /\ req'[r].pc = "trade"
           /\ UNCHANGED <<account, reset, log, paperUsed>>
           /\ \/ /\ req[r].id = 0
                 /\ positions' = Append(positions, [id |-> req[r].n, qty |-> ShareChange(req[r])])
              \/ /\ req[r].id # 0 /\ r \notin PositionReaders
                 /\ positions' = positions
              \/ /\ r \in PositionReaders /\ req[r].held + ShareChange(req[r]) = 0
                 /\ positions' = Tail(positions)
              \/ /\ r \in PositionReaders
                 /\ positions' = [positions EXCEPT ![1] =
                         [positions[1] EXCEPT !.qty = req[r].held + ShareChange(req[r])]]
<1> DEFINE o == req[r]
           new == o.held + ShareChange(o)
<1>1. /\ CashInv /\ positions \in Seq(PositionRecords) /\ req[r] \in OrderRecords
      /\ ShareChange(o) \in Int
  BY ChangeTypes DEF PaperTyped, CashInv
<1>2. /\ req[r].pc = "shares" /\ Goto(r, "trade") /\ UNCHANGED <<account, reset, log, paperUsed>>
  BY DEF WriteShares
<1>3. /\ OnlyOne(r) /\ SameOrder(r) /\ SameReading(r) /\ SameMoney(r) /\ req'[r].pc = "trade"
  BY <1>1, <1>2, GotoFacts
<1>4. positions' = IF o.id = 0 THEN Append(positions, [id |-> o.n, qty |-> o.qty])
                   ELSE IF new = 0 THEN DeletePosition(o.id) ELSE SetQuantity(o.id, new)
  BY DEF WriteShares
<1>5. CASE o.id = 0
  <2>1. o.side = "buy" BY <1>1, <1>2, <1>5 DEF SidesInv, OrderRecords
  <2>2. ShareChange(o) = o.qty BY <2>1 DEF ShareChange
  <2>3. QED BY <1>2, <1>3, <1>4, <1>5, <2>2
<1>6. ASSUME o.id # 0, r \notin PositionReaders PROVE positions' = positions
  <2>1. \A i \in DOMAIN positions : positions[i].id # o.id
    <3>1. ASSUME NEW i \in DOMAIN positions, i # 1 PROVE positions[i].id # o.id
      BY <3>1 DEF NumbersInv
    <3>2. 1 \in DOMAIN positions => positions[1].id # o.id
      <4>1. 1 \in DOMAIN positions => positions # <<>> OBVIOUS
      <4>2. QED BY <1>2, <1>6, <4>1 DEF PositionReaders, FirstPosition
    <3>3. QED BY <3>1, <3>2
  <2>2. DeletePosition(o.id) = positions BY <2>1 DEF DeletePosition
  <2>3. SetQuantity(o.id, new) = positions
    <3>1. SetQuantity(o.id, new) = [i \in DOMAIN positions |-> positions[i]]
      BY <2>1 DEF SetQuantity
    <3>2. QED BY <1>1, <3>1
  <2>4. QED BY <1>4, <1>6, <2>2, <2>3
<1>7. ASSUME r \in PositionReaders
      PROVE  \/ new = 0 /\ positions' = Tail(positions)
             \/ positions' = [positions EXCEPT ![1] = [positions[1] EXCEPT !.qty = new]]
  <2>1. /\ positions # <<>> /\ Len(positions) \in Nat \ {0} /\ 1 \in DOMAIN positions
        /\ DOMAIN positions = 1 .. Len(positions)
        /\ o.id = positions[1].id
    BY <1>1, <1>7 DEF PositionReaders, FirstPosition
  <2>2. o.id # 0 /\ \A i \in DOMAIN positions : positions[i].id = o.id <=> i = 1
    BY <2>1 DEF NumbersInv
  <2>3. {i \in DOMAIN positions : positions[i].id = o.id} = {1} BY <2>1, <2>2
  <2>4. DeletePosition(o.id) = Tail(positions)
    <3>1. (CHOOSE i \in {1} : TRUE) = 1 OBVIOUS
    <3>2. DeletePosition(o.id) = SubSeq(positions, 1, 0) \o SubSeq(positions, 2, Len(positions))
      <4>1. ASSUME NEW id, {i \in DOMAIN positions : positions[i].id = id} = {1}
            PROVE  DeletePosition(id) = SubSeq(positions, 1, 1 - 1)
                                          \o SubSeq(positions, 1 + 1, Len(positions))
        BY <3>1, <4>1, Zenon DEF DeletePosition
      <4>2. 1 - 1 = 0 /\ 1 + 1 = 2 OBVIOUS
      <4>3. QED BY <2>3, <4>1, <4>2
    <3>3. SubSeq(positions, 1, 0) = <<>> /\ SubSeq(positions, 2, Len(positions)) = Tail(positions)
      BY <1>1, <2>1
    <3>4. Tail(positions) \in Seq(PositionRecords) BY <1>1, <2>1
    <3>5. QED BY <3>2, <3>3, <3>4
  <2>5. SetQuantity(o.id, new) = [positions EXCEPT ![1] = [positions[1] EXCEPT !.qty = new]]
    BY <2>1, <2>2 DEF SetQuantity
  <2>6. QED BY <1>4, <2>2, <2>4, <2>5
<1>8. QED BY <1>2, <1>3, <1>5, <1>6, <1>7

\* What a request leaves behind when it ends.
LEMMA EndsLog ==
    ASSUME PaperTyped, NEW r \in Requests, Ends(r)
    PROVE  /\ UNCHANGED <<account, positions, reset>> /\ paperUsed'["orders"] = paperUsed["orders"]
           /\ \/ log' = log /\ r \notin Paid
              \/ \E e \in LogRecords :
                   /\ log' = Append(log, e) /\ r \in Paid
                   /\ e.cash = CashChange(req[r])
                   /\ e.shares = IF req[r].pc = "trade" THEN ShareChange(req[r]) ELSE 0
                   /\ req[r].disturbed => e.disturbed
<1>1. req[r] \in OrderRecords /\ paperUsed \in [{"orders", "mishaps"} -> Nat]
  BY DEF PaperTyped, CashInv
<1>a. \E e \in LogRecords :
        /\ e = Entry(req[r]) /\ e.cash = CashChange(req[r])
        /\ e.shares = IF req[r].pc = "trade" THEN ShareChange(req[r]) ELSE 0
        /\ req[r].disturbed => e.disturbed
  BY <1>1, EntryType DEF Entry
<1>2. CASE NoPrice(r) BY <1>2 DEF NoPrice, Paid
<1>3. CASE RecordTrade(r)
  <2>1. /\ req[r].pc = "trade" /\ UNCHANGED <<account, positions, reset, paperUsed>>
        /\ log' = Append(log, Entry(req[r]))
    BY <1>3 DEF RecordTrade
  <2>2. QED BY <1>a, <2>1 DEF Paid
<1>4. CASE OrderFails(r)
  <2>1. /\ paperUsed' = [paperUsed EXCEPT !["mishaps"] = @ + 1]
        /\ UNCHANGED <<account, positions, reset>>
        /\ log' = IF req[r].pc \in {"shares", "trade"} THEN Append(log, Entry(req[r])) ELSE log
    BY <1>4 DEF OrderFails, Spend
  <2>2. paperUsed'["orders"] = paperUsed["orders"] BY <1>1, <2>1
  <2>3. CASE r \in Paid BY <1>a, <2>1, <2>2, <2>3 DEF Paid
  <2>4. CASE r \notin Paid BY <2>1, <2>2, <2>4 DEF Paid
  <2>5. QED BY <2>3, <2>4
<1>5. QED BY <1>2, <1>3, <1>4 DEF Ends

\* A step that moves no request and no document.
Elsewhere ==
    /\ \A x \in Requests : Stays(x)
    /\ UNCHANGED <<positions, log>> /\ paperUsed'["orders"] = paperUsed["orders"]
    /\ Funds' = Funds /\ (account.exists => account'.exists)

LEMMA BookSteps ==
    ASSUME PaperTyped, [PaperNext]_paperVars
    PROVE  \/ \E r \in Requests : \E side, qty : PlaceOrder(r, side, qty)
           \/ \E r \in Requests : Reads(r) \/ Pay(r) \/ PayIn(r) \/ WriteShares(r) \/ Ends(r)
           \/ StartReset \/ ResetPositions \/ Elsewhere
<1>1. paperUsed \in [{"orders", "mishaps"} -> Nat] BY DEF PaperTyped
<1>2. CreateAccount \/ UNCHANGED account => Funds' = Funds /\ (account.exists => account'.exists)
  BY DEF CreateAccount, Funds
<1>3. req' = req => \A x \in Requests : Stays(x) BY SameStays
<1>4. CASE ResetTrades BY <1>2, <1>3, <1>4 DEF ResetTrades, Elsewhere
<1>5. CASE ResetAccount BY <1>2, <1>3, <1>5 DEF ResetAccount, Elsewhere
<1>f. CASE ResetFails BY <1>2, <1>3, <1>f DEF ResetFails, Elsewhere
<1>6. CASE NextDay
  <2>1. UNCHANGED <<account, positions, reset, log>>
        /\ paperUsed' = [paperUsed EXCEPT !["mishaps"] = @ + 1]
    BY <1>6 DEF NextDay, Spend
  <2>2. paperUsed'["orders"] = paperUsed["orders"] BY <1>1, <2>1
  <2>3. QED BY <1>2, <1>6, <2>1, <2>2, NextDayStays DEF Elsewhere
<1>7. CASE /\ UNCHANGED <<tPlus, positions, bought, req, reset, log, today, paperUsed>>
           /\ UNCHANGED account \/ CreateAccount
  BY <1>2, <1>3, <1>7 DEF Elsewhere
<1>8. QED BY <1>4, <1>5, <1>f, <1>6, <1>7, PaperSteps DEF GoesOn, Reads

LEMMA OpenKept ==
    ASSUME PaperTyped, BooksInv, [PaperNext]_paperVars PROVE OpenInv'
<1> SUFFICES ASSUME NEW x \in Requests, Clear(x)', req'[x].pc \notin {"account", "create"}
             PROVE  account'.exists
  BY DEF OpenInv
<1>a. ASSUME Stays(x), account.exists => account'.exists PROVE account'.exists
  <2>1. Clear(x) /\ req[x].pc \notin {"account", "create"} BY <1>a DEF Clear, Busy, Stays
  <2>2. QED BY <1>a, <2>1 DEF BooksInv, OpenInv
<1>1. ASSUME NEW r \in Requests, NEW side, NEW qty, PlaceOrder(r, side, qty)
      PROVE  account'.exists
  <2>1. x # r /\ UNCHANGED account BY <1>1, PlaceFacts
  <2>2. QED BY <1>1, <1>a, <2>1, PlaceStays
<1>2. ASSUME NEW r \in Requests, Reads(r) PROVE account'.exists
  <2>1. /\ OnlyOne(r) /\ Busy(r) /\ (account.exists => account'.exists)
        /\ req'[r] = NoOrder \/ ReadsOn(r)
    BY <1>2, ReadsFacts
  <2>2. CASE x # r BY <1>a, <2>1, <2>2, OthersStay
  <2>3. CASE x = r
    <3>1. ReadsOn(r) BY <2>1, <2>3 DEF Clear, Busy, NoOrder
    <3>2. Clear(r) BY <2>1, <2>3, <3>1 DEF ReadsOn, SameOrder, Clear
    <3>3. account'.exists \/ req[r].pc \notin {"account", "create"}
      BY <2>3, <3>1 DEF ReadsOn
    <3>4. QED BY <2>1, <3>2, <3>3 DEF BooksInv, OpenInv
  <2>4. QED BY <2>2, <2>3
<1>3. ASSUME NEW r \in Requests, OnlyOne(r), account'.exists = account.exists,
             \/ ~Busy(r)'
             \/ SameOrder(r) /\ req[r].pc \notin {"idle", "account", "create"}
      PROVE  account'.exists
  <2>1. CASE x # r BY <1>3, <1>a, <2>1, OthersStay
  <2>2. CASE x = r
    <3>1. Clear(r) /\ req[r].pc \notin {"account", "create"}
      BY <1>3, <2>2 DEF Clear, Busy, SameOrder
    <3>2. QED BY <1>3, <3>1 DEF BooksInv, OpenInv
  <2>3. QED BY <2>1, <2>2
<1>4. ASSUME NEW r \in Requests, Pay(r) \/ PayIn(r) PROVE account'.exists
  <2>1. /\ OnlyOne(r) /\ SameOrder(r) /\ req[r].pc \in {"pay", "payIn"}
        /\ account'.exists = account.exists
    BY <1>4, PayFacts DEF BooksInv
  <2>2. QED BY <1>3, <2>1
<1>5. ASSUME NEW r \in Requests, WriteShares(r) PROVE account'.exists
  <2>1. OnlyOne(r) /\ SameOrder(r) /\ req[r].pc = "shares" /\ UNCHANGED account
    BY <1>5, WriteFacts DEF BooksInv
  <2>2. QED BY <1>3, <2>1
<1>6. ASSUME NEW r \in Requests, Ends(r) PROVE account'.exists
  <2>1. OnlyOne(r) /\ ~Busy(r)' /\ UNCHANGED account BY <1>6, EndsFacts, EndsLog
  <2>2. QED BY <1>3, <2>1
<1>7. CASE StartReset
  <2>1. req'[x].pc = req[x].pc /\ req'[x].disturbed = Busy(x) BY <1>7, StartResetFacts
  <2>2. QED BY <2>1 DEF Clear, Busy
<1>8. CASE ResetPositions BY <1>8, <1>a, SameStays DEF ResetPositions
<1>9. CASE Elsewhere BY <1>9, <1>a DEF Elsewhere
<1>10. QED BY <1>1, <1>2, <1>4, <1>5, <1>6, <1>7, <1>8, <1>9, BookSteps

\* What SidesInv says of one request.
SidedOrder(o) ==
    /\ o.pc = "pay" => o.side = "buy"
    /\ o.pc \in {"held", "trades", "payIn"} => o.side = "sell"
    /\ o.pc = "payIn" \/ (o.pc = "shares" /\ o.side = "sell") => o.id # 0

LEMMA SidesKept ==
    ASSUME PaperTyped, BooksInv, [PaperNext]_paperVars PROVE SidesInv'
<1> SUFFICES ASSUME NEW x \in Requests PROVE SidedOrder(req'[x])
  BY DEF SidesInv, SidedOrder
<1>0. \A y \in Requests : SidedOrder(req[y]) BY DEF BooksInv, SidesInv, SidedOrder
<1>a. ASSUME Stays(x) PROVE SidedOrder(req'[x]) BY <1>0, <1>a DEF Stays, SidedOrder
<1>b. SidedOrder(NoOrder) BY DEF SidedOrder, NoOrder
<1>1. ASSUME NEW r \in Requests, NEW side, NEW qty, PlaceOrder(r, side, qty)
      PROVE  SidedOrder(req'[x])
  <2>1. CASE x = r
    <3>1. req'[r].pc = "account" BY <1>1, PlaceFacts
    <3>2. QED BY <2>1, <3>1 DEF SidedOrder
  <2>2. CASE x # r BY <1>1, <1>a, <2>2, PlaceStays
  <2>3. QED BY <2>1, <2>2
<1>2. ASSUME NEW r \in Requests, Reads(r) PROVE SidedOrder(req'[x])
  <2>1. OnlyOne(r) /\ (req'[r] = NoOrder \/ ReadsOn(r)) BY <1>2, ReadsFacts
  <2>2. ReadsOn(r) => SidedOrder(req'[r])
    BY <1>0 DEF ReadsOn, SameOrder, SidedOrder
  <2>3. QED BY <1>a, <1>b, <2>1, <2>2, OthersStay
<1>3. ASSUME NEW r \in Requests, Pay(r) \/ PayIn(r) PROVE SidedOrder(req'[x])
  <2>1. /\ OnlyOne(r) /\ SameOrder(r) /\ SameReading(r)
        /\ req[r].pc \in {"pay", "payIn"} /\ req'[r].pc = "shares"
    BY <1>3, PayFacts DEF BooksInv
  <2>2. SidedOrder(req'[r]) BY <1>0, <2>1 DEF SidedOrder, SameOrder, SameReading
  <2>3. QED BY <1>a, <2>1, <2>2, OthersStay
<1>4. ASSUME NEW r \in Requests, WriteShares(r) PROVE SidedOrder(req'[x])
  <2>1. OnlyOne(r) /\ req'[r].pc = "trade" BY <1>4, WriteFacts DEF BooksInv
  <2>2. SidedOrder(req'[r]) BY <2>1 DEF SidedOrder
  <2>3. QED BY <1>a, <2>1, <2>2, OthersStay
<1>5. ASSUME NEW r \in Requests, Ends(r) PROVE SidedOrder(req'[x])
  <2>1. OnlyOne(r) /\ req'[r].pc = "idle" BY <1>5, EndsFacts
  <2>2. SidedOrder(req'[r]) BY <2>1 DEF SidedOrder
  <2>3. QED BY <1>a, <2>1, <2>2, OthersStay
<1>6. CASE StartReset BY <1>6, <1>a, ResetStays
<1>7. CASE ResetPositions BY <1>7, <1>a, SameStays DEF ResetPositions
<1>8. CASE Elsewhere BY <1>8, <1>a DEF Elsewhere
<1>9. QED BY <1>1, <1>2, <1>3, <1>4, <1>5, <1>6, <1>7, <1>8, BookSteps

\* A request keeps its number; it knows of no document but that it knew, or the first.
Moves(x) ==
    \/ req'[x] = NoOrder
    \/ /\ req'[x].n = req[x].n /\ (Busy(x)' <=> Busy(x))
       /\ req'[x].pc # "trade" => req[x].pc # "trade"
       /\ req'[x].id \in {req[x].id, FirstPosition.id}

LEMMA StaysMoves == ASSUME NEW x \in Requests, Stays(x) PROVE Moves(x)
  BY DEF Stays, Moves, Busy

LEMMA NumberTypes ==
    ASSUME PaperTyped
    PROVE  /\ positions \in Seq(PositionRecords) /\ DOMAIN positions = 1 .. Len(positions)
           /\ Len(positions) \in Nat
           /\ \A i \in DOMAIN positions : positions[i].id \in Nat /\ positions[i].qty \in Int
           /\ \A r \in Requests : req[r].n \in Nat /\ req[r].id \in Nat
           /\ paperUsed["orders"] \in Nat
           /\ positions # <<>> => FirstPosition = positions[1] /\ 1 \in DOMAIN positions
           /\ positions = <<>> => FirstPosition.id = 0
<1>1. positions \in Seq(PositionRecords) BY DEF PaperTyped, CashInv
<1>2. \A i \in DOMAIN positions : positions[i] \in PositionRecords BY <1>1
<1>3. \A r \in Requests : req[r].n \in Nat /\ req[r].id \in Nat BY TypedFacts
<1>4. paperUsed["orders"] \in Nat BY DEF PaperTyped
<1>5. positions # <<>> => FirstPosition = positions[1] /\ 1 \in DOMAIN positions
  BY <1>1 DEF FirstPosition
<1>6. positions = <<>> => FirstPosition.id = 0 BY DEF FirstPosition
<1>7. QED BY <1>1, <1>2, <1>3, <1>4, <1>5, <1>6 DEF PositionRecords

LEMMA NumbersMoved ==
    ASSUME PaperTyped, AloneInv, NumbersInv, \A x \in Requests : Moves(x),
           DOMAIN positions' = DOMAIN positions,
           \A i \in DOMAIN positions : positions'[i].id = positions[i].id,
           paperUsed'["orders"] = paperUsed["orders"]
    PROVE  NumbersInv'
<1> DEFINE orders == paperUsed["orders"]
<1>a. /\ orders \in Nat
      /\ \A i \in DOMAIN positions : positions[i].id \in Nat
      /\ \A r \in Requests : req[r].n \in Nat /\ req[r].id \in Nat
      /\ positions # <<>> => FirstPosition = positions[1] /\ 1 \in DOMAIN positions
      /\ positions = <<>> => FirstPosition.id = 0 /\ DOMAIN positions = {}
  BY NumberTypes
<1>b. NoOrder.n = 0 /\ NoOrder.id = 0 /\ NoOrder.pc = "idle" BY DEF NoOrder
<1>c. /\ \A r \in Requests : req[r].n <= orders /\ req[r].id <= orders
      /\ \A i \in DOMAIN positions : positions[i].id # 0 /\ positions[i].id <= orders
      /\ \A i, j \in DOMAIN positions : positions[i].id = positions[j].id => i = j
      /\ \A r, x \in Requests : Busy(r) /\ Busy(x) /\ req[r].n = req[x].n => r = x
  BY DEF NumbersInv
<1>d. /\ \A r \in Requests : Busy(r) /\ req[r].pc # "trade" =>
           /\ \A i \in DOMAIN positions : positions[i].id # req[r].n
           /\ \A x \in Requests : req[x].id # req[r].n
      /\ \A r \in Requests : \A i \in DOMAIN positions : i # 1 => req[r].id # positions[i].id
      /\ \A r \in Requests : Busy(r) => req[r].n # 0
  BY DEF NumbersInv, AloneInv
<1>1. ASSUME NEW x \in Requests
      PROVE  /\ req'[x].n <= orders /\ req'[x].id <= orders
             /\ \A i \in DOMAIN positions : i # 1 => req'[x].id # positions[i].id
             /\ Busy(x)' => Busy(x) /\ req'[x].n = req[x].n
             /\ \A r \in Requests : Busy(r) /\ req[r].pc # "trade" => req'[x].id # req[r].n
  <2>1. CASE req'[x] = NoOrder
    <3>1. req'[x].n = 0 /\ req'[x].id = 0 /\ ~Busy(x)' BY <1>b, <2>1 DEF Busy
    <3>2. QED BY <1>a, <1>c, <1>d, <3>1
  <2>2. CASE req'[x].n = req[x].n /\ req'[x].id = req[x].id /\ (Busy(x)' <=> Busy(x))
    BY <1>c, <1>d, <2>2
  <2>3. CASE /\ req'[x].n = req[x].n /\ req'[x].id = FirstPosition.id
             /\ (Busy(x)' <=> Busy(x))
    <3>1. CASE positions = <<>> BY <1>a, <1>c, <1>d, <2>3, <3>1
    <3>2. CASE positions # <<>> BY <1>a, <1>c, <1>d, <2>3, <3>2
    <3>3. QED BY <3>1, <3>2
  <2>4. QED BY <2>1, <2>2, <2>3 DEF Moves
<1>2. \A x \in Requests : Busy(x)' /\ req'[x].pc # "trade" => req[x].pc # "trade"
  BY <1>b DEF Moves, Busy
<1>3. orders' = orders OBVIOUS
<1> HIDE DEF orders
<1>4. /\ \A r \in Requests : req'[r].n <= orders' /\ req'[r].id <= orders'
      /\ \A i \in DOMAIN positions' : positions'[i].id # 0 /\ positions'[i].id <= orders'
      /\ \A i, j \in DOMAIN positions' : positions'[i].id = positions'[j].id => i = j
      /\ \A r, x \in Requests : Busy(r)' /\ Busy(x)' /\ req'[r].n = req'[x].n => r = x
  BY <1>1, <1>3, <1>c
<1>5. \A r \in Requests : Busy(r)' /\ req'[r].pc # "trade" =>
           /\ \A i \in DOMAIN positions' : positions'[i].id # req'[r].n
           /\ \A x \in Requests : req'[x].id # req'[r].n
  BY <1>1, <1>2, <1>d
<1>6. \A r \in Requests : \A i \in DOMAIN positions' : i # 1 => req'[r].id # positions'[i].id
  BY <1>1
<1>7. QED BY <1>4, <1>5, <1>6 DEF NumbersInv, orders

LEMMA NumbersKept ==
    ASSUME PaperTyped, SettledInv, BooksInv, [PaperNext]_paperVars PROVE NumbersInv'
<1> DEFINE orders == paperUsed["orders"]
<1>a. /\ orders \in Nat /\ positions \in Seq(PositionRecords)
      /\ DOMAIN positions = 1 .. Len(positions) /\ Len(positions) \in Nat
      /\ \A i \in DOMAIN positions : positions[i].id \in Nat
      /\ \A r \in Requests : req[r].n \in Nat /\ req[r].id \in Nat
      /\ positions # <<>> => FirstPosition = positions[1] /\ 1 \in DOMAIN positions
  BY NumberTypes
<1>b. AloneInv /\ NumbersInv /\ SidesInv BY DEF SettledInv, BooksInv
<1>c. /\ \A r \in Requests : req[r].n <= orders /\ req[r].id <= orders
      /\ \A i \in DOMAIN positions : positions[i].id # 0 /\ positions[i].id <= orders
      /\ \A i, j \in DOMAIN positions : positions[i].id = positions[j].id => i = j
      /\ \A r, x \in Requests : Busy(r) /\ Busy(x) /\ req[r].n = req[x].n => r = x
  BY <1>b DEF NumbersInv
<1>d. /\ \A r \in Requests : Busy(r) /\ req[r].pc # "trade" =>
           /\ \A i \in DOMAIN positions : positions[i].id # req[r].n
           /\ \A x \in Requests : req[x].id # req[r].n
      /\ \A r \in Requests : \A i \in DOMAIN positions : i # 1 => req[r].id # positions[i].id
      /\ \A r \in Requests : Busy(r) => req[r].n # 0
  BY <1>b DEF NumbersInv, AloneInv
<1>e. ASSUME NEW r \in Requests, OnlyOne(r), Moves(r), positions' = positions,
             paperUsed'["orders"] = paperUsed["orders"]
      PROVE  NumbersInv'
  <2>1. \A x \in Requests : Moves(x) BY <1>e, OthersStay, StaysMoves
  <2>2. QED BY <1>b, <1>e, <2>1, NumbersMoved
<1>1. ASSUME NEW r \in Requests, NEW side, NEW qty, PlaceOrder(r, side, qty)
      PROVE  NumbersInv'
  <2>1. /\ ~Busy(r) /\ positions' = positions
        /\ \A x \in Requests : x # r => /\ req'[x].pc = req[x].pc /\ req'[x].n = req[x].n
                                        /\ req'[x].id = req[x].id
    BY <1>1, PlaceFacts, PlaceStays DEF Stays
  <2>2. orders' = orders + 1 /\ req'[r].n = orders' /\ req'[r].id = 0
    <3>1. paperUsed \in [{"orders", "mishaps"} -> Nat] BY DEF PaperTyped
    <3>2. paperUsed' = [paperUsed EXCEPT !["orders"] = @ + 1] BY <1>1 DEF PlaceOrder, Spend
    <3> DEFINE n == paperUsed'["orders"]
               d == ~AtRest
    <3>3. req'[r] = [NoOrder EXCEPT !.n = n, !.pc = "account", !.side = side, !.qty = qty,
                                    !.disturbed = d]
      BY <1>1 DEF PlaceOrder
    <3> HIDE DEF d, n
    <3>4. req'[r].n = n /\ req'[r].id = 0 BY <3>3 DEF NoOrder
    <3>5. QED BY <3>1, <3>2, <3>4 DEF n
  <2> HIDE DEF orders
  <2>3. \A x \in Requests : x # r => (Busy(x)' <=> Busy(x)) BY <2>1 DEF Busy
  <2>4. \A x \in Requests : req'[x].n <= orders' /\ req'[x].id <= orders'
    BY <1>a, <1>c, <2>1, <2>2
  <2>5. \A i \in DOMAIN positions' : positions'[i].id # 0 /\ positions'[i].id <= orders'
    BY <1>a, <1>c, <2>1, <2>2
  <2>6. \A y, x \in Requests : Busy(y)' /\ Busy(x)' /\ req'[y].n = req'[x].n => y = x
    BY <1>a, <1>c, <2>1, <2>2, <2>3
  <2>7. ASSUME NEW y \in Requests, Busy(y)', req'[y].pc # "trade"
        PROVE  /\ \A i \in DOMAIN positions' : positions'[i].id # req'[y].n
               /\ \A x \in Requests : req'[x].id # req'[y].n
    <3>1. CASE y = r BY <1>a, <1>c, <2>1, <2>2, <3>1
    <3>2. CASE y # r BY <1>a, <1>d, <2>1, <2>2, <2>3, <2>7, <3>2
    <3>3. QED BY <3>1, <3>2
  <2>8. \A y \in Requests : \A i \in DOMAIN positions' : i # 1 => req'[y].id # positions'[i].id
    BY <1>c, <1>d, <2>1, <2>2
  <2>9. \A i, j \in DOMAIN positions' : positions'[i].id = positions'[j].id => i = j
    BY <1>c, <2>1
  <2>10. QED BY <2>4, <2>5, <2>6, <2>7, <2>8, <2>9 DEF NumbersInv, orders
<1>2. ASSUME NEW r \in Requests, Reads(r) PROVE NumbersInv'
  <2>1. /\ OnlyOne(r) /\ Busy(r) /\ req[r].pc # "trade"
        /\ req'[r] = NoOrder \/ ReadsOn(r)
        /\ UNCHANGED <<positions, paperUsed>>
    BY <1>2, ReadsFacts
  <2>2. Moves(r) BY <2>1 DEF ReadsOn, Moves, SameOrder, Busy
  <2>3. QED BY <1>e, <2>1, <2>2
<1>3. ASSUME NEW r \in Requests, Pay(r) \/ PayIn(r) PROVE NumbersInv'
  <2>1. /\ OnlyOne(r) /\ SameOrder(r) /\ SameReading(r)
        /\ req[r].pc \in {"pay", "payIn"} /\ req'[r].pc = "shares"
        /\ UNCHANGED <<positions, paperUsed>>
    BY <1>3, <1>b, PayFacts
  <2>2. Moves(r) BY <2>1 DEF Moves, SameOrder, SameReading, Busy
  <2>3. QED BY <1>e, <2>1, <2>2
<1>4. ASSUME NEW r \in Requests, WriteShares(r) PROVE NumbersInv'
  <2>1. /\ OnlyOne(r) /\ SameOrder(r) /\ SameReading(r)
        /\ req[r].pc = "shares" /\ req'[r].pc = "trade" /\ UNCHANGED <<paperUsed>>
    BY <1>4, <1>b, WriteFacts
  <2>2. Moves(r) BY <2>1 DEF Moves, SameOrder, SameReading, Busy
  <2>3. \A x \in Requests : /\ req'[x].n = req[x].n /\ req'[x].id = req[x].id
                            /\ Busy(x)' <=> Busy(x)
                            /\ x # r => req'[x].pc = req[x].pc
    BY <2>1 DEF OnlyOne, SameOrder, SameReading, Busy
  <2>4. orders' = orders BY <2>1
  <2>5. Busy(r) /\ req[r].pc # "trade" BY <2>1 DEF Busy
  <2> HIDE DEF orders
  <2>6. /\ \A x \in Requests : req'[x].n <= orders' /\ req'[x].id <= orders'
        /\ \A y, x \in Requests : Busy(y)' /\ Busy(x)' /\ req'[y].n = req'[x].n => y = x
    BY <1>c, <2>3, <2>4
  <2>7. ASSUME \A i \in DOMAIN positions' : positions'[i].id # 0 /\ positions'[i].id <= orders',
               \A i, j \in DOMAIN positions' : positions'[i].id = positions'[j].id => i = j,
               \A y \in Requests : Busy(y) /\ req[y].pc # "trade" /\ y # r =>
                   \A i \in DOMAIN positions' : positions'[i].id # req[y].n,
               \A y \in Requests : \A i \in DOMAIN positions' :
                   i # 1 => req[y].id # positions'[i].id
        PROVE  NumbersInv'
    <3>1. \A y \in Requests : Busy(y)' /\ req'[y].pc # "trade" =>
           /\ \A i \in DOMAIN positions' : positions'[i].id # req'[y].n
           /\ \A x \in Requests : req'[x].id # req'[y].n
      BY <1>d, <2>1, <2>3, <2>7
    <3>2. QED BY <2>3, <2>6, <2>7, <3>1 DEF NumbersInv, orders
  <2>8. CASE positions' = Append(positions, [id |-> req[r].n, qty |-> ShareChange(req[r])])
    <3> DEFINE e == [id |-> req[r].n, qty |-> ShareChange(req[r])]
    <3>1. e.id = req[r].n OBVIOUS
    <3> HIDE DEF e
    <3>2. positions' = Append(positions, e) BY <2>8 DEF e
    <3>3. /\ DOMAIN positions' = DOMAIN positions \cup {Len(positions) + 1}
          /\ Len(positions) + 1 \notin DOMAIN positions
          /\ \A i \in DOMAIN positions : positions'[i].id = positions[i].id
          /\ positions'[Len(positions) + 1].id = req[r].n
      BY <1>a, <3>1, <3>2
    <3>4. /\ req[r].n # 0 /\ req[r].n <= orders /\ \A y \in Requests : req[y].id # req[r].n
          /\ \A i \in DOMAIN positions : positions[i].id # req[r].n
          /\ \A y \in Requests : Busy(y) /\ y # r => req[y].n # req[r].n
      BY <1>c, <1>d, <2>5
    <3>5. \A i \in DOMAIN positions' : positions'[i].id # 0 /\ positions'[i].id <= orders'
      BY <1>c, <2>4, <3>3, <3>4
    <3>6. \A i, j \in DOMAIN positions' : positions'[i].id = positions'[j].id => i = j
      BY <1>c, <3>3, <3>4
    <3>7. \A y \in Requests : Busy(y) /\ req[y].pc # "trade" /\ y # r =>
                   \A i \in DOMAIN positions' : positions'[i].id # req[y].n
      BY <1>d, <3>3, <3>4
    <3>8. \A y \in Requests : \A i \in DOMAIN positions' : i # 1 => req[y].id # positions'[i].id
      BY <1>d, <3>3, <3>4
    <3>9. QED BY <2>7, <3>5, <3>6, <3>7, <3>8
  <2>9. CASE positions' = positions BY <1>e, <2>1, <2>2, <2>9
  <2>10. CASE r \in PositionReaders /\ positions' = Tail(positions)
    <3>1. positions # <<>> BY <2>10 DEF PositionReaders
    <3>2. /\ DOMAIN positions' = 1 .. Len(positions) - 1
          /\ \A i \in DOMAIN positions' :
               /\ i + 1 \in DOMAIN positions /\ i + 1 # 1
               /\ positions'[i].id = positions[i + 1].id
      BY <1>a, <2>10, <3>1
    <3>3. \A i, j \in DOMAIN positions' : positions'[i].id = positions'[j].id => i = j
      <4>1. ASSUME NEW i \in DOMAIN positions', NEW j \in DOMAIN positions',
                   positions'[i].id = positions'[j].id
            PROVE  i = j
        <5>1. i + 1 = j + 1 BY <1>c, <3>2, <4>1
        <5>2. i \in Int /\ j \in Int BY <3>2
        <5>3. QED BY <5>1, <5>2
      <4>2. QED BY <4>1
    <3>4. \A i \in DOMAIN positions' : positions'[i].id # 0 /\ positions'[i].id <= orders'
      BY <1>c, <2>4, <3>2
    <3>5. \A y \in Requests : Busy(y) /\ req[y].pc # "trade" /\ y # r =>
                   \A i \in DOMAIN positions' : positions'[i].id # req[y].n
      BY <1>d, <3>2
    <3>6. \A y \in Requests : \A i \in DOMAIN positions' : i # 1 => req[y].id # positions'[i].id
      BY <1>d, <3>2
    <3>7. QED BY <2>7, <3>3, <3>4, <3>5, <3>6
  <2>11. ASSUME r \in PositionReaders, NEW qty, positions' = [positions EXCEPT ![1] =
                                          [positions[1] EXCEPT !.qty = qty]]
         PROVE  NumbersInv'
    <3>1. positions # <<>> BY <2>11 DEF PositionReaders
    <3>2. positions[1] \in PositionRecords BY <1>a, <3>1
    <3>3. [positions[1] EXCEPT !.qty = qty].id = positions[1].id BY <3>2 DEF PositionRecords
    <3>4. /\ DOMAIN positions' = DOMAIN positions
          /\ \A i \in DOMAIN positions : positions'[i].id = positions[i].id
      BY <1>a, <2>11, <3>3
    <3>5. \A x \in Requests : Moves(x) BY <2>1, <2>2, OthersStay, StaysMoves
    <3>6. QED BY <1>b, <2>1, <3>4, <3>5, NumbersMoved
  <2>12. QED BY <1>4, <1>b, <2>8, <2>9, <2>10, <2>11, WriteFacts
<1>5. ASSUME NEW r \in Requests, Ends(r) PROVE NumbersInv'
  <2>1. OnlyOne(r) /\ req'[r] = NoOrder /\ positions' = positions
    BY <1>5, EndsFacts, LeaveFacts DEF PaperTyped
  <2>2. paperUsed'["orders"] = paperUsed["orders"] BY <1>5, EndsLog
  <2>3. QED BY <1>e, <2>1, <2>2 DEF Moves
<1>6. CASE StartReset
  <2>1. \A x \in Requests : Moves(x) BY <1>6, ResetStays, StaysMoves
  <2>2. positions' = positions /\ paperUsed' = [paperUsed EXCEPT !["mishaps"] = @ + 1]
    BY <1>6 DEF StartReset, Spend
  <2>3. paperUsed'["orders"] = paperUsed["orders"] BY <2>2 DEF PaperTyped
  <2>4. QED BY <1>b, <2>1, <2>2, <2>3, NumbersMoved
<1>7. CASE ResetPositions
  <2>1. DOMAIN positions' = {} /\ req' = req /\ paperUsed' = paperUsed
    <3>1. positions' = <<>> /\ UNCHANGED <<req, paperUsed>> BY <1>7, Zenon DEF ResetPositions
    <3>2. QED BY <3>1
  <2>2. QED BY <1>b, <2>1 DEF NumbersInv, Busy
<1>8. CASE Elsewhere
  <2>1. /\ \A x \in Requests : Moves(x)
        /\ positions' = positions /\ paperUsed'["orders"] = paperUsed["orders"]
    BY <1>8, StaysMoves DEF Elsewhere
  <2>2. QED BY <1>b, <2>1, NumbersMoved
<1>9. QED BY <1>1, <1>2, <1>3, <1>4, <1>5, <1>6, <1>7, <1>8, BookSteps

-----------------------------------------------------------------------------
\* The terms are integers, and there are finitely many.
LEMMA BooksTypes ==
    ASSUME PaperTyped
    PROVE  /\ log \in Seq(LogRecords) /\ IsFiniteSet(DOMAIN log) /\ Excused \subseteq DOMAIN log
           /\ DOMAIN log = 1 .. Len(log) /\ Len(log) \in Nat
           /\ DOMAIN CashTerms = DOMAIN log /\ DOMAIN ShareTerms = DOMAIN log
           /\ \A i \in DOMAIN log : CashTerms[i] = log[i].cash /\ CashTerms[i] \in Int
           /\ \A i \in DOMAIN log : ShareTerms[i] = log[i].shares /\ ShareTerms[i] \in Int
           /\ \A r \in Requests : CashOrders[r] = CashChange(req[r]) /\ CashOrders[r] \in Int
           /\ \A r \in Requests : ShareOrders[r] = ShareChange(req[r]) /\ ShareOrders[r] \in Int
           /\ IsFiniteSet(Paid) /\ IsFiniteSet(Written)
           /\ Paid \subseteq Requests /\ Written \subseteq Requests
           /\ InitialCash \in Int
<1>1. log \in Seq(LogRecords) BY DEF PaperTyped, PaperRest
<1>2. DOMAIN log = 1 .. Len(log) /\ Len(log) \in Nat BY <1>1
<1>3. IsFiniteSet(DOMAIN log) BY <1>2, FS_Interval
<1>4. \A i \in DOMAIN log : log[i] \in LogRecords BY <1>1
<1>5. \A i \in DOMAIN log : log[i].cash \in Int /\ log[i].shares \in Int
  BY <1>4 DEF LogRecords
<1>6. IsFiniteSet(Requests) /\ InitialCash \in Int BY PaperConstants
<1>7. Paid \subseteq Requests /\ Written \subseteq Requests BY DEF Paid, Written
<1>8. IsFiniteSet(Paid) /\ IsFiniteSet(Written) BY <1>6, <1>7, FS_Subset
<1>9. /\ \A r \in Requests : CashOrders[r] = CashChange(req[r]) /\ CashOrders[r] \in Int
      /\ \A r \in Requests : ShareOrders[r] = ShareChange(req[r]) /\ ShareOrders[r] \in Int
  BY ChangeTypes DEF CashOrders, ShareOrders
<1>10. /\ DOMAIN CashTerms = DOMAIN log /\ DOMAIN ShareTerms = DOMAIN log
       /\ \A i \in DOMAIN log : CashTerms[i] = log[i].cash /\ ShareTerms[i] = log[i].shares
  BY DEF CashTerms, ShareTerms
<1>11. Excused \subseteq DOMAIN log BY DEF Excused
<1>12. QED BY <1>1, <1>2, <1>3, <1>5, <1>6, <1>7, <1>8, <1>9, <1>10, <1>11

\* An order's effects, and that it was disturbed, stay.
SameEffects(x) ==
    /\ CashChange(req'[x]) = CashChange(req[x]) /\ ShareChange(req'[x]) = ShareChange(req[x])
    /\ Busy(x) /\ req[x].disturbed => req'[x].disturbed

LEMMA StaysEffects ==
    ASSUME NEW x \in Requests, Stays(x) PROVE SameEffects(x)
  BY DEF Stays, SameEffects, CashChange, ShareChange, Cost, Proceeds

LEMMA MoneyEffects ==
    ASSUME NEW r \in Requests, SameOrder(r), SameMoney(r) PROVE SameEffects(r)
  BY DEF SameOrder, SameMoney, SameEffects, CashChange, ShareChange, Cost, Proceeds

\* The orders among P stay among Q, which only disturbed ones join.
StillOpen(P, Q) ==
    /\ \A x \in P : x \in Q /\ SameEffects(x)
    /\ \A x \in Q : x \in P \/ req'[x].disturbed

\* The log keeps what is in it.
SharesLogged == ShareTerms' = ShareTerms /\ Excused \subseteq Excused'
StillLogged == CashTerms' = CashTerms /\ SharesLogged

LEMMA SameLog == ASSUME log' = log PROVE StillLogged
  BY DEF StillLogged, SharesLogged, CashTerms, ShareTerms, Excused

LEMMA CashQuiet ==
    ASSUME PaperTyped, NEW v, CashBooks(v), StillLogged, NEW Q, Q = Paid', StillOpen(Paid, Q)
    PROVE  CashBooks(v)'
<1>1. /\ IsFiniteSet(Paid) /\ Paid \subseteq Requests
      /\ \A r \in Requests : CashOrders[r] = CashChange(req[r]) /\ CashOrders[r] \in Int
  BY BooksTypes
<1>2. \A x \in Paid : CashOrders'[x] = CashOrders[x]
  BY <1>1 DEF StillOpen, SameEffects, CashOrders
<1>3. Paid \subseteq Q BY DEF StillOpen
<1>4. Plain(Paid)' \subseteq Plain(Paid)
  <2>1. \A x \in Q : \/ x \in Paid /\ (req[x].disturbed => req'[x].disturbed)
                    \/ req'[x].disturbed
    BY DEF StillOpen, SameEffects, Busy, Paid
  <2>2. QED BY <2>1 DEF Plain
<1> DEFINE c == v - InitialCash
<1>5. Covers(c, CashTerms, Excused, CashOrders, Paid, Plain(Paid)) BY DEF CashBooks
<1>6. Excused \subseteq Excused' /\ CashTerms' = CashTerms BY DEF StillLogged, SharesLogged
<1>7. \A x \in Paid : CashOrders[x] \in Int BY <1>1
<1> HIDE DEF c
<1>8. Covers(c, CashTerms, Excused', CashOrders', Q, Plain(Paid)')
  BY <1>1, <1>2, <1>3, <1>4, <1>5, <1>6, <1>7, CoversKept
<1>9. QED BY <1>6, <1>8 DEF CashBooks, c

LEMMA SharesQuiet ==
    ASSUME PaperTyped, NEW v, ShareBooks(v), SharesLogged,
           NEW Q, Q = Written', StillOpen(Written, Q)
    PROVE  ShareBooks(v)'
<1>1. /\ IsFiniteSet(Written) /\ Written \subseteq Requests
      /\ \A r \in Requests : ShareOrders[r] = ShareChange(req[r]) /\ ShareOrders[r] \in Int
  BY BooksTypes
<1>2. \A x \in Written : ShareOrders'[x] = ShareOrders[x]
  BY <1>1 DEF StillOpen, SameEffects, ShareOrders
<1>3. Written \subseteq Q BY DEF StillOpen
<1>4. Plain(Written)' \subseteq Plain(Written)
  <2>1. \A x \in Q : \/ x \in Written /\ (req[x].disturbed => req'[x].disturbed)
                    \/ req'[x].disturbed
    BY DEF StillOpen, SameEffects, Busy, Written
  <2>2. QED BY <2>1 DEF Plain
<1>5. Covers(v, ShareTerms, Excused, ShareOrders, Written, Plain(Written)) BY DEF ShareBooks
<1>6. Excused \subseteq Excused' /\ ShareTerms' = ShareTerms BY DEF SharesLogged
<1>7. \A x \in Written : ShareOrders[x] \in Int BY <1>1
<1>8. Covers(v, ShareTerms, Excused', ShareOrders', Q, Plain(Written)')
  BY <1>1, <1>2, <1>3, <1>4, <1>5, <1>6, <1>7, CoversKept
<1>9. QED BY <1>6, <1>8 DEF ShareBooks

\* An order pays.
LEMMA CashMore ==
    ASSUME PaperTyped, NEW v \in Int, CashBooks(v), NEW r \in Requests,
           OnlyOne(r), SameOrder(r), SameMoney(r), log' = log,
           r \notin Paid, req'[r].pc = "shares", NEW w, w = v + CashChange(req[r])
    PROVE  CashBooks(w)'
<1>1. /\ IsFiniteSet(DOMAIN log) /\ DOMAIN CashTerms = DOMAIN log
      /\ \A i \in DOMAIN log : CashTerms[i] \in Int
      /\ \A x \in Requests : CashOrders[x] = CashChange(req[x]) /\ CashOrders[x] \in Int
      /\ IsFiniteSet(Paid) /\ Paid \subseteq Requests /\ InitialCash \in Int
  BY BooksTypes
<1>2. \A x \in Requests : CashOrders'[x] = CashOrders[x]
  <2>1. \A x \in Requests : SameEffects(x)
    BY MoneyEffects, OthersStay, StaysEffects
  <2>2. QED BY <1>1, <2>1 DEF CashOrders, SameEffects
<1>3. Paid' = Paid \cup {r}
  <2>1. \A x \in Requests : x # r => req'[x].pc = req[x].pc BY DEF OnlyOne
  <2>2. QED BY <2>1 DEF Paid
<1>4. Plain(Paid)' \subseteq Plain(Paid) \cup {r} BY <1>1, <1>3 DEF Plain, OnlyOne
<1>5. CashTerms' = CashTerms /\ Excused' = Excused BY DEF CashTerms, Excused
<1> DEFINE c == v - InitialCash
<1>6. c \in Int /\ Covers(c, CashTerms, Excused, CashOrders, Paid, Plain(Paid))
  BY <1>1 DEF CashBooks
<1> HIDE DEF c
<1>7. /\ \A y \in Paid : CashOrders[y] \in Int /\ CashOrders'[y] = CashOrders[y]
      /\ CashOrders'[r] = CashChange(req[r]) /\ CashOrders'[r] \in Int
  BY <1>1, <1>2
<1>8. Covers(c + CashOrders'[r], CashTerms, Excused, CashOrders', Paid \cup {r}, Plain(Paid)')
  BY <1>1, <1>4, <1>6, <1>7, CoversMore
<1>9. w - InitialCash = c + CashOrders'[r] BY <1>1, <1>7 DEF c
<1>10. QED BY <1>3, <1>5, <1>8, <1>9 DEF CashBooks

\* One more entry.
LEMMA LogMore ==
    ASSUME PaperTyped, NEW e \in LogRecords, log' = Append(log, e), NEW k, k = Len(log) + 1
    PROVE  /\ k \notin DOMAIN log /\ DOMAIN log' = DOMAIN log \cup {k}
           /\ DOMAIN CashTerms' = DOMAIN log \cup {k} /\ DOMAIN ShareTerms' = DOMAIN log \cup {k}
           /\ CashTerms'[k] = e.cash /\ ShareTerms'[k] = e.shares
           /\ \A i \in DOMAIN log : CashTerms'[i] = CashTerms[i] /\ ShareTerms'[i] = ShareTerms[i]
           /\ Excused \subseteq Excused' /\ (e.disturbed => k \in Excused')
<1>1. log \in Seq(LogRecords) /\ DOMAIN log = 1 .. Len(log) /\ Len(log) \in Nat BY BooksTypes
<1>2. k \notin DOMAIN log /\ DOMAIN log' = DOMAIN log \cup {k} /\ log'[k] = e
      /\ \A i \in DOMAIN log : log'[i] = log[i]
  BY <1>1
<1>3. /\ DOMAIN CashTerms' = DOMAIN log' /\ DOMAIN ShareTerms' = DOMAIN log'
      /\ \A i \in DOMAIN log' : CashTerms'[i] = log'[i].cash /\ ShareTerms'[i] = log'[i].shares
      /\ \A i \in DOMAIN log : CashTerms[i] = log[i].cash /\ ShareTerms[i] = log[i].shares
  BY DEF CashTerms, ShareTerms
<1>4. Excused \subseteq Excused' /\ (e.disturbed => k \in Excused') BY <1>2 DEF Excused
<1>5. QED BY <1>2, <1>3, <1>4

\* An order that has paid ends.
LEMMA CashEnded ==
    ASSUME PaperTyped, NEW v \in Int, CashBooks(v), NEW r \in Requests,
           OnlyOne(r), req'[r] = NoOrder, r \in Paid,
           NEW e \in LogRecords, log' = Append(log, e), e.cash = CashChange(req[r]),
           req[r].disturbed => e.disturbed
    PROVE  CashBooks(v)'
<1> DEFINE c == v - InitialCash
           k == Len(log) + 1
<1>1. /\ IsFiniteSet(DOMAIN log) /\ DOMAIN CashTerms = DOMAIN log
      /\ \A i \in DOMAIN log : CashTerms[i] \in Int
      /\ \A x \in Requests : CashOrders[x] = CashChange(req[x]) /\ CashOrders[x] \in Int
      /\ IsFiniteSet(Paid) /\ Paid \subseteq Requests /\ InitialCash \in Int
      /\ Excused \subseteq DOMAIN log
  BY BooksTypes
<1>2. /\ k \notin DOMAIN log /\ DOMAIN CashTerms' = DOMAIN log \cup {k}
      /\ CashTerms'[k] = e.cash /\ \A i \in DOMAIN log : CashTerms'[i] = CashTerms[i]
      /\ Excused \subseteq Excused' /\ (e.disturbed => k \in Excused')
  BY LogMore
<1>3. \A x \in Requests \ {r} : CashOrders'[x] = CashOrders[x]
  BY <1>1 DEF CashOrders, OnlyOne
<1>4. Paid' = Paid \ {r}
  <2>1. req'[r].pc = "idle" /\ \A x \in Requests : x # r => req'[x].pc = req[x].pc
    BY DEF OnlyOne, NoOrder
  <2>2. QED BY <2>1 DEF Paid
<1>5. Plain(Paid)' \subseteq Plain(Paid) \ {r} BY <1>1, <1>4 DEF Plain, OnlyOne
<1>6. c \in Int /\ Covers(c, CashTerms, Excused, CashOrders, Paid, Plain(Paid))
  BY <1>1 DEF CashBooks
<1>7. r \in Plain(Paid) \/ k \in Excused' BY <1>2 DEF Plain
<1>8. CashTerms'[k] = CashOrders[r] BY <1>1, <1>2
<1> HIDE DEF c, k
<1>9. \A y \in Paid \ {r} : CashOrders'[y] = CashOrders[y] BY <1>1, <1>3
<1>10. \A y \in Paid : CashOrders[y] \in Int BY <1>1
<1>11. Covers(c, CashTerms', Excused', CashOrders', Paid \ {r}, Plain(Paid)')
  <2>1. Closes(CashTerms, Excused, CashOrders, Paid, Plain(Paid), r, k, CashTerms', Excused')
    BY <1>1, <1>2, <1>7, <1>8 DEF Closes
  <2>2. QED BY <1>1, <1>5, <1>6, <1>9, <1>10, <2>1, CoversEnded
<1>12. QED BY <1>4, <1>11 DEF CashBooks, c

LEMMA SharesEnded ==
    ASSUME PaperTyped, NEW v \in Int, ShareBooks(v), NEW r \in Requests,
           OnlyOne(r), req'[r] = NoOrder,
           NEW e \in LogRecords, log' = Append(log, e),
           e.shares = IF req[r].pc = "trade" THEN ShareChange(req[r]) ELSE 0,
           req[r].disturbed => e.disturbed
    PROVE  ShareBooks(v)'
<1> DEFINE k == Len(log) + 1
<1>1. /\ IsFiniteSet(DOMAIN log) /\ DOMAIN ShareTerms = DOMAIN log
      /\ \A i \in DOMAIN log : ShareTerms[i] \in Int
      /\ \A x \in Requests : ShareOrders[x] = ShareChange(req[x]) /\ ShareOrders[x] \in Int
      /\ IsFiniteSet(Written) /\ Written \subseteq Requests
      /\ Excused \subseteq DOMAIN log
  BY BooksTypes
<1>2. /\ k \notin DOMAIN log /\ DOMAIN ShareTerms' = DOMAIN log \cup {k}
      /\ ShareTerms'[k] = e.shares /\ \A i \in DOMAIN log : ShareTerms'[i] = ShareTerms[i]
      /\ Excused \subseteq Excused' /\ (e.disturbed => k \in Excused')
  BY LogMore
<1>3. \A x \in Requests \ {r} : ShareOrders'[x] = ShareOrders[x]
  BY <1>1 DEF ShareOrders, OnlyOne
<1>4. Written' = Written \ {r}
  <2>1. req'[r].pc = "idle" /\ \A x \in Requests : x # r => req'[x].pc = req[x].pc
    BY DEF OnlyOne, NoOrder
  <2>2. QED BY <2>1 DEF Written
<1>5. Plain(Written)' \subseteq Plain(Written) \ {r} BY <1>1, <1>4 DEF Plain, OnlyOne
<1>6. Covers(v, ShareTerms, Excused, ShareOrders, Written, Plain(Written)) BY DEF ShareBooks
<1>7. r \in Plain(Written) \/ k \in Excused' \/ ShareTerms'[k] = 0
  BY <1>2 DEF Plain, Written
<1>8. r \in Written => ShareTerms'[k] = ShareOrders[r] BY <1>1, <1>2 DEF Written
<1> HIDE DEF k
<1>9. \A y \in Written \ {r} : ShareOrders'[y] = ShareOrders[y] BY <1>1, <1>3
<1>10. \A y \in Written : ShareOrders[y] \in Int BY <1>1
<1>11. Covers(v, ShareTerms', Excused', ShareOrders', Written \ {r}, Plain(Written)')
  <2>1. Closes(ShareTerms, Excused, ShareOrders, Written, Plain(Written), r, k, ShareTerms', Excused')
    BY <1>1, <1>2, <1>7, <1>8 DEF Closes
  <2>2. QED BY <1>1, <1>5, <1>6, <1>9, <1>10, <2>1, CoversEnded
<1>12. QED BY <1>4, <1>11 DEF ShareBooks

\* An order writes its shares.
LEMMA SharesMore ==
    ASSUME PaperTyped, NEW v \in Int, ShareBooks(v), NEW r \in Requests,
           OnlyOne(r), SameOrder(r), SameMoney(r), log' = log,
           r \notin Written, req'[r].pc = "trade", NEW w, w = v + ShareChange(req[r])
    PROVE  ShareBooks(w)'
<1>1. /\ IsFiniteSet(DOMAIN log) /\ DOMAIN ShareTerms = DOMAIN log
      /\ \A i \in DOMAIN log : ShareTerms[i] \in Int
      /\ \A x \in Requests : ShareOrders[x] = ShareChange(req[x]) /\ ShareOrders[x] \in Int
      /\ IsFiniteSet(Written) /\ Written \subseteq Requests
  BY BooksTypes
<1>2. \A x \in Requests : ShareOrders'[x] = ShareOrders[x]
  <2>1. \A x \in Requests : SameEffects(x)
    BY MoneyEffects, OthersStay, StaysEffects
  <2>2. QED BY <1>1, <2>1 DEF ShareOrders, SameEffects
<1>3. Written' = Written \cup {r}
  <2>1. \A x \in Requests : x # r => req'[x].pc = req[x].pc BY DEF OnlyOne
  <2>2. QED BY <2>1 DEF Written
<1>4. Plain(Written)' \subseteq Plain(Written) \cup {r} BY <1>1, <1>3 DEF Plain, OnlyOne
<1>5. ShareTerms' = ShareTerms /\ Excused' = Excused BY DEF ShareTerms, Excused
<1>6. Covers(v, ShareTerms, Excused, ShareOrders, Written, Plain(Written)) BY DEF ShareBooks
<1>7. /\ \A y \in Written : ShareOrders[y] \in Int /\ ShareOrders'[y] = ShareOrders[y]
      /\ ShareOrders'[r] = ShareChange(req[r]) /\ ShareOrders'[r] \in Int
  BY <1>1, <1>2
<1>8. Covers(v + ShareOrders'[r], ShareTerms, Excused, ShareOrders', Written \cup {r},
             Plain(Written)')
  BY <1>1, <1>4, <1>6, <1>7, CoversMore
<1>9. w = v + ShareOrders'[r] BY <1>7
<1>10. QED BY <1>3, <1>5, <1>8, <1>9 DEF ShareBooks

\* A reset takes every effect on the balance, or leaves no entry that may not be
\* lost; the shares stay.
LEMMA ResetLogs ==
    ASSUME PaperTyped, StartReset
    PROVE  /\ DOMAIN log' = DOMAIN log /\ SharesLogged
           /\ AtRest => \A i \in DOMAIN CashTerms' : CashTerms'[i] = 0
           /\ ~AtRest => StillLogged /\ Excused' = DOMAIN log'
<1>1. log \in Seq(LogRecords) /\ \A i \in DOMAIN log : log[i] \in LogRecords
  BY BooksTypes
<1>2. /\ DOMAIN log' = DOMAIN log
      /\ \A i \in DOMAIN log :
           log'[i] = IF AtRest THEN Reopened(log[i]) ELSE Disturbed(log[i])
  BY <1>1, StartedLog
<1>3. ASSUME NEW i \in DOMAIN log
      PROVE  /\ log'[i].shares = log[i].shares
             /\ log[i].disturbed => log'[i].disturbed
             /\ AtRest => log'[i].cash = 0
             /\ ~AtRest => log'[i].cash = log[i].cash /\ log'[i].disturbed
  <2>1. PICK e \in LogRecords : e = log[i] BY <1>1
  <2>2. CASE AtRest
    <3>1. log'[i] = Reopened(e) BY <1>2, <2>1, <2>2
    <3>2. /\ Reopened(e).cash = 0 /\ Reopened(e).shares = e.shares
          /\ Reopened(e).disturbed = e.disturbed
      BY ResetEntries
    <3>3. QED BY <2>1, <2>2, <3>1, <3>2
  <2>3. CASE ~AtRest
    <3>1. log'[i] = Disturbed(e) BY <1>2, <2>1, <2>3
    <3>2. /\ Disturbed(e).cash = e.cash /\ Disturbed(e).shares = e.shares
          /\ Disturbed(e).disturbed = TRUE
      BY ResetEntries
    <3>3. QED BY <2>1, <2>3, <3>1, <3>2
  <2>4. QED BY <2>2, <2>3
<1>4. SharesLogged BY <1>2, <1>3 DEF SharesLogged, ShareTerms, Excused
<1>5. AtRest => \A i \in DOMAIN CashTerms' : CashTerms'[i] = 0
  BY <1>2, <1>3 DEF CashTerms
<1>6. ~AtRest => CashTerms' = CashTerms /\ Excused' = DOMAIN log'
  BY <1>2, <1>3 DEF CashTerms, Excused
<1>7. QED BY <1>2, <1>4, <1>5, <1>6 DEF StillLogged

\* The positions go with every effect on the shares; on the balance nothing changes.
LEMMA EmptiedBooks ==
    ASSUME PaperTyped, ResetPositions
    PROVE  /\ DOMAIN log' = DOMAIN log /\ CashTerms' = CashTerms
           /\ \A i \in DOMAIN ShareTerms' : ShareTerms'[i] = 0
           /\ \A i \in Excused : i \notin Excused' => CashTerms[i] = 0
<1>1. log \in Seq(LogRecords) /\ \A i \in DOMAIN log : log[i] \in LogRecords
  BY BooksTypes
<1>2. DOMAIN log' = DOMAIN log /\ \A i \in DOMAIN log : log'[i] = Emptied(log[i])
  BY <1>1, EmptiedLog
<1>3. ASSUME NEW i \in DOMAIN log
      PROVE  /\ log'[i].cash = log[i].cash /\ log'[i].shares = 0
             /\ log'[i].disturbed = (log[i].disturbed /\ log[i].cash # 0)
  <2>1. PICK e \in LogRecords : e = log[i] BY <1>1
  <2>2. log'[i] = Emptied(e) BY <1>2, <2>1
  <2>3. /\ Emptied(e).cash = e.cash /\ Emptied(e).shares = 0
        /\ Emptied(e).disturbed = (e.disturbed /\ e.cash # 0)
    BY ResetEntries
  <2>4. QED BY <2>1, <2>2, <2>3
<1>4. CashTerms' = CashTerms BY <1>2, <1>3 DEF CashTerms
<1>5. \A i \in DOMAIN ShareTerms' : ShareTerms'[i] = 0 BY <1>2, <1>3 DEF ShareTerms
<1>6. \A i \in Excused : i \notin Excused' => CashTerms[i] = 0
  BY <1>2, <1>3 DEF Excused, CashTerms
<1>7. QED BY <1>2, <1>4, <1>5, <1>6

LEMMA CashEmptied ==
    ASSUME PaperTyped, ResetPositions, NEW v, CashBooks(v) PROVE CashBooks(v)'
<1> DEFINE c == v - InitialCash
<1>1. IsFiniteSet(DOMAIN CashTerms) /\ \A i \in DOMAIN CashTerms : CashTerms[i] \in Int
  BY BooksTypes
<1>2. CashTerms' = CashTerms /\ \A i \in Excused : i \notin Excused' => CashTerms[i] = 0
  BY EmptiedBooks
<1>3. Covers(c, CashTerms, Excused, CashOrders, Paid, Plain(Paid)) BY DEF CashBooks
<1> HIDE DEF c
<1>4. Covers(c, CashTerms, Excused', CashOrders, Paid, Plain(Paid))
  BY <1>1, <1>2, <1>3, CoversThinned
<1>5. req' = req BY DEF ResetPositions
<1>6. CashOrders' = CashOrders /\ Paid' = Paid /\ Plain(Paid)' = Plain(Paid)
  BY <1>5 DEF CashOrders, Paid, Plain, CashChange, Cost, Proceeds
<1>7. QED BY <1>2, <1>4, <1>6 DEF CashBooks, c

\* Who has paid, or written\* Who has paid, or written the shares, where one request at most moves.
LEMMA AllStay ==
    ASSUME \A x \in Requests : Stays(x)
    PROVE  StillOpen(Paid, Paid') /\ StillOpen(Written, Written')
<1>1. \A x \in Requests : SameEffects(x) BY StaysEffects
<1>2. \A x \in Requests : req'[x].pc = req[x].pc BY DEF Stays
<1>3. \A x : (x \in Paid => x \in Requests) /\ (x \in Written => x \in Requests)
  BY DEF Paid, Written
<1>4. Paid' = Paid /\ Written' = Written BY <1>2 DEF Paid, Written
<1>5. QED BY <1>1, <1>3, <1>4 DEF StillOpen

LEMMA OneUnpaid ==
    ASSUME NEW r \in Requests, \A x \in Requests : x # r => Stays(x),
           req[r].pc \notin {"shares", "trade"}, req'[r].pc \notin {"shares", "trade"}
    PROVE  StillOpen(Paid, Paid') /\ StillOpen(Written, Written')
<1>1. \A x \in Requests : x # r => SameEffects(x) BY StaysEffects
<1>2. \A x \in Requests : x # r => req'[x].pc = req[x].pc BY DEF Stays
<1>3. /\ r \notin Paid /\ r \notin Written
      /\ \A x : (x \in Paid => x \in Requests) /\ (x \in Written => x \in Requests)
  BY DEF Paid, Written
<1>4. Paid' = Paid /\ Written' = Written BY <1>2 DEF Paid, Written
<1>5. QED BY <1>1, <1>3, <1>4 DEF StillOpen

\* No balance is new.
LEMMA CashFrom ==
    ASSUME PaperTyped, CashInBooks, StillLogged, StillOpen(Paid, Paid'), Funds' = Funds,
           \A x \in Requests : req'[x].pc \in {"create", "position", "pay"} =>
               \/ req'[x].cash = Funds
               \/ req[x].pc \in {"create", "position", "pay"} /\ req'[x].cash = req[x].cash
    PROVE  CashInBooks'
<1>1. ASSUME NEW v, CashBooks(v) PROVE CashBooks(v)'
  BY <1>1, CashQuiet
<1>2. CashBooks(Funds)'
  <2>1. PICK v : v = Funds OBVIOUS
  <2>2. CashBooks(v)' /\ v = Funds' BY <1>1, <2>1 DEF CashInBooks
  <2>3. QED BY <2>2 DEF CashBooks
<1>3. ASSUME NEW x \in Requests, req'[x].pc \in {"create", "position", "pay"}
      PROVE  CashBooks(req[x].cash)'
  <2>1. CASE req'[x].cash = Funds
    <3>1. req'[x].cash = Funds' BY <2>1
    <3>2. QED BY <1>2, <3>1 DEF CashBooks
  <2>2. CASE req[x].pc \in {"create", "position", "pay"} /\ req'[x].cash = req[x].cash
    <3>1. x \in BalanceReaders BY <2>2 DEF BalanceReaders
    <3>2. PICK v : v = req[x].cash OBVIOUS
    <3>3. CashBooks(v)' /\ v = req'[x].cash BY <1>1, <2>2, <3>1, <3>2 DEF CashInBooks
    <3>4. QED BY <3>3 DEF CashBooks
  <2>3. QED BY <1>3, <2>1, <2>2
<1>4. QED BY <1>2, <1>3 DEF CashInBooks, BalanceReaders

LEMMA CashBooksKept ==
    ASSUME PaperTyped, SettledInv, BooksInv, [PaperNext]_paperVars PROVE CashInBooks'
<1>a. AloneInv /\ OpenInv /\ SidesInv /\ NumbersInv /\ CashInBooks
  BY DEF SettledInv, BooksInv
<1>b. \A x \in Requests : Stays(x) => req'[x].pc = req[x].pc /\ req'[x].cash = req[x].cash
  BY DEF Stays
<1>c. account' = account => Funds' = Funds BY DEF Funds
<1>1. ASSUME NEW r \in Requests, NEW side, NEW qty, PlaceOrder(r, side, qty)
      PROVE  CashInBooks'
  <2>1. /\ req[r].pc = "idle" /\ req'[r].pc = "account" /\ UNCHANGED <<account, log>>
        /\ \A x \in Requests : x # r => Stays(x)
    BY <1>1, PlaceFacts, PlaceStays DEF Busy
  <2>2. StillOpen(Paid, Paid') /\ StillLogged BY <2>1, OneUnpaid, SameLog
  <2>3. QED BY <1>a, <1>b, <1>c, <2>1, <2>2, CashFrom
<1>2. ASSUME NEW r \in Requests, Reads(r) PROVE CashInBooks'
  <2>1. /\ OnlyOne(r) /\ req[r].pc \notin {"shares", "trade"} /\ log' = log /\ Funds' = Funds
        /\ req'[r] = NoOrder \/ ReadsOn(r)
    BY <1>2, ReadsFacts
  <2>2. \A x \in Requests : x # r => Stays(x) BY <2>1, OthersStay
  <2>3. req'[r].pc \notin {"shares", "trade"} BY <2>1 DEF ReadsOn, NoOrder
  <2>4. StillOpen(Paid, Paid') /\ StillLogged BY <2>1, <2>2, <2>3, OneUnpaid, SameLog
  <2>5. req'[r].pc \in {"create", "position", "pay"} =>
               \/ req'[r].cash = Funds
               \/ req[r].pc \in {"create", "position", "pay"} /\ req'[r].cash = req[r].cash
    BY <2>1 DEF ReadsOn, NoOrder
  <2>6. QED BY <1>a, <1>b, <2>1, <2>2, <2>4, <2>5, CashFrom
<1>3. ASSUME NEW r \in Requests, Pay(r) \/ PayIn(r) PROVE CashInBooks'
  <2>1. /\ OnlyOne(r) /\ SameOrder(r) /\ SameMoney(r)
        /\ req[r].pc \in {"pay", "payIn"} /\ req'[r].pc = "shares" /\ log' = log
        /\ account.exists =>
                Funds' = (IF req[r].pc = "pay" THEN req[r].cash ELSE Funds) + CashChange(req[r])
        /\ ~account.exists => Funds' = Funds
    BY <1>3, <1>a, PayFacts
  <2>2. \A x \in Requests : x # r => Stays(x) BY <2>1, OthersStay
  <2>3. ASSUME req[r].disturbed PROVE StillOpen(Paid, Paid')
    <3>1. \A x \in Requests : SameEffects(x) BY <2>1, <2>2, StaysEffects, MoneyEffects
    <3>2. \A x \in Requests : x # r => req'[x].pc = req[x].pc BY <2>2 DEF Stays
    <3>3. req'[r].disturbed BY <2>1, <2>3 DEF SameOrder
    <3>4. Paid \subseteq Requests /\ Paid' = Paid \cup {r}
      BY <2>1, <3>2 DEF Paid
    <3>5. QED BY <3>1, <3>3, <3>4 DEF StillOpen
  <2>4. StillLogged BY <2>1, SameLog
  <2>5. CASE ~account.exists
    <3>1. req[r].disturbed BY <1>a, <2>1, <2>5 DEF OpenInv, Clear, Busy
    <3>2. QED BY <1>a, <1>b, <2>1, <2>2, <2>3, <2>4, <2>5, <3>1, CashFrom
  <2>6. CASE account.exists
    <3>1. PICK u : u = IF req[r].pc = "pay" THEN req[r].cash ELSE Funds OBVIOUS
    <3>2. CashBooks(u)
      <4>1. req[r].pc = "pay" => r \in BalanceReaders BY DEF BalanceReaders
      <4>2. QED BY <1>a, <3>1, <4>1 DEF CashInBooks
    <3>3. u \in Int
      <4>1. account \in [exists: BOOLEAN, cash: Int] /\ req[r] \in OrderRecords
        BY DEF PaperTyped, CashInv
      <4>2. QED BY <3>1, <4>1, PaperConstants DEF OrderRecords, Funds
    <3>4. PICK w : w = u + CashChange(req[r]) OBVIOUS
    <3>5. r \notin Paid BY <2>1 DEF Paid
    <3>6. CashBooks(w)' BY <2>1, <3>2, <3>3, <3>4, <3>5, CashMore
    <3>7. w = Funds' BY <2>1, <2>6, <3>1, <3>4
    <3>8. CashBooks(Funds)' BY <3>6, <3>7 DEF CashBooks
    <3>9. ASSUME NEW x \in Requests, req'[x].pc \in {"create", "position", "pay"}
          PROVE  CashBooks(req[x].cash)'
      <4>1. x # r /\ req[x].pc = req'[x].pc /\ req[x].cash = req'[x].cash
        BY <1>b, <2>1, <2>2, <3>9
      <4>2. x \in BalanceReaders /\ Busy(x) /\ Busy(r)
        BY <2>1, <3>9, <4>1 DEF BalanceReaders, Busy
      <4>3. req[r].disturbed BY <1>a, <4>1, <4>2 DEF AloneInv, Clear
      <4>4. PICK v : v = req[x].cash OBVIOUS
      <4>5. CashBooks(v) BY <1>a, <4>2, <4>4 DEF CashInBooks
      <4>6. CashBooks(v)' BY <2>3, <2>4, <4>3, <4>5, CashQuiet
      <4>7. QED BY <4>1, <4>4, <4>6 DEF CashBooks
    <3>10. QED BY <3>8, <3>9 DEF CashInBooks, BalanceReaders
  <2>7. QED BY <2>5, <2>6
<1>4. ASSUME NEW r \in Requests, WriteShares(r) PROVE CashInBooks'
  <2>1. /\ OnlyOne(r) /\ SameOrder(r) /\ SameMoney(r)
        /\ req[r].pc = "shares" /\ req'[r].pc = "trade" /\ UNCHANGED <<account, log>>
    BY <1>4, <1>a, WriteFacts
  <2>2. \A x \in Requests : x # r => Stays(x) BY <2>1, OthersStay
  <2>3. StillOpen(Paid, Paid')
    <3>1. \A x \in Requests : SameEffects(x) BY <2>1, <2>2, StaysEffects, MoneyEffects
    <3>2. \A x \in Requests : x # r => req'[x].pc = req[x].pc BY <2>2 DEF Stays
    <3>3. Paid \subseteq Requests /\ Paid' = Paid BY <2>1, <3>2 DEF Paid
    <3>4. QED BY <3>1, <3>3 DEF StillOpen
  <2>4. QED BY <1>a, <1>b, <1>c, <2>1, <2>2, <2>3, SameLog, CashFrom
<1>5. ASSUME NEW r \in Requests, Ends(r) PROVE CashInBooks'
  <2>1. OnlyOne(r) /\ req'[r] = NoOrder /\ req'[r].pc = "idle" /\ account' = account
    BY <1>5, EndsFacts, EndsLog, LeaveFacts DEF PaperTyped
  <2>2. \A x \in Requests : x # r => Stays(x) BY <2>1, OthersStay
  <2>3. CASE log' = log /\ r \notin Paid
    <3>1. req[r].pc \notin {"shares", "trade"} BY <2>3 DEF Paid
    <3>2. StillOpen(Paid, Paid') BY <2>1, <2>2, <3>1, OneUnpaid
    <3>3. QED BY <1>a, <1>b, <1>c, <2>1, <2>2, <2>3, <3>2, SameLog, CashFrom
  <2>4. ASSUME NEW e \in LogRecords, log' = Append(log, e), r \in Paid,
               e.cash = CashChange(req[r]), req[r].disturbed => e.disturbed
        PROVE  CashInBooks'
    <3>1. ASSUME NEW v \in Int, CashBooks(v) PROVE CashBooks(v)'
      BY <2>1, <2>4, <3>1, CashEnded
    <3>2. account \in [exists: BOOLEAN, cash: Int] /\ \A x \in Requests : req[x].cash \in Int
      BY DEF PaperTyped, CashInv, OrderRecords
    <3>3. CashBooks(Funds)'
      <4>1. PICK v \in Int : v = Funds BY <3>2, PaperConstants DEF Funds
      <4>2. CashBooks(v)' /\ v = Funds' BY <1>a, <1>c, <2>1, <3>1, <4>1 DEF CashInBooks
      <4>3. QED BY <4>2 DEF CashBooks
    <3>4. ASSUME NEW x \in Requests, req'[x].pc \in {"create", "position", "pay"}
          PROVE  CashBooks(req[x].cash)'
      <4>1. req[x].pc = req'[x].pc /\ req[x].cash = req'[x].cash BY <1>b, <2>1, <2>2, <3>4
      <4>2. x \in BalanceReaders BY <3>4, <4>1 DEF BalanceReaders
      <4>3. PICK v \in Int : v = req[x].cash BY <3>2
      <4>4. CashBooks(v)' BY <1>a, <3>1, <4>2, <4>3 DEF CashInBooks
      <4>5. QED BY <4>1, <4>3, <4>4 DEF CashBooks
    <3>5. QED BY <3>3, <3>4 DEF CashInBooks, BalanceReaders
  <2>5. QED BY <1>5, <2>3, <2>4, EndsLog
<1>6. CASE StartReset
  <2>1. \A x \in Requests : Stays(x) /\ req'[x].disturbed = Busy(x)
    BY <1>6, ResetStays, StartResetFacts
  <2>2. Funds' = InitialCash BY <1>6 DEF StartReset, Funds
  <2>3. Plain(Paid)' = {}
    <3>1. \A x \in Requests : req'[x].pc \in {"shares", "trade"} => req'[x].disturbed
      BY <1>b, <2>1 DEF Busy
    <3>2. QED BY <3>1 DEF Plain, Paid
  <2>4. /\ DOMAIN log' = DOMAIN log
        /\ AtRest => \A i \in DOMAIN CashTerms' : CashTerms'[i] = 0
        /\ ~AtRest => StillLogged /\ Excused' = DOMAIN log'
    BY <1>6, ResetLogs
  <2>5. CashBooks(Funds)'
    <3>1. DOMAIN CashTerms' = DOMAIN log' BY DEF CashTerms
    <3>2. Covers(0, CashTerms', DOMAIN CashTerms', CashOrders', Paid', {}) BY CoversNone
    <3>3. Funds' - InitialCash = 0 BY <2>2, PaperConstants
    <3>4. CASE ~AtRest BY <2>3, <2>4, <3>1, <3>2, <3>3, <3>4 DEF CashBooks
    <3>5. CASE AtRest
      <4>1. IsFiniteSet(DOMAIN CashTerms') BY <2>4, <3>1, BooksTypes
      <4>2. \A i \in DOMAIN CashTerms' : CashTerms'[i] = 0 BY <2>4, <3>5
      <4>3. Covers(0, CashTerms', Excused', CashOrders', Paid', {})
        BY <4>1, <4>2, CoversZeros
      <4>4. QED BY <2>3, <3>3, <4>3 DEF CashBooks
    <3>6. QED BY <3>4, <3>5
  <2>6. ASSUME NEW x \in Requests, req'[x].pc \in {"create", "position", "pay"}
        PROVE  CashBooks(req[x].cash)'
    <3>1. req[x].pc = req'[x].pc /\ req[x].cash = req'[x].cash BY <1>b, <2>1
    <3>2. x \in BalanceReaders /\ ~AtRest BY <2>6, <3>1 DEF BalanceReaders, AtRest, Busy
    <3>3. PICK v : v = req[x].cash OBVIOUS
    <3>4. CashBooks(v) BY <1>a, <3>2, <3>3 DEF CashInBooks
    <3>5. StillLogged /\ StillOpen(Paid, Paid') BY <2>1, <2>4, <3>2, AllStay
    <3>6. CashBooks(v)' BY <3>4, <3>5, CashQuiet
    <3>7. QED BY <3>1, <3>3, <3>6 DEF CashBooks
  <2>7. QED BY <2>5, <2>6 DEF CashInBooks, BalanceReaders
<1>7. ASSUME \A x \in Requests : Stays(x), log' = log, Funds' = Funds PROVE CashInBooks'
  <2>1. StillLogged /\ StillOpen(Paid, Paid') BY <1>7, SameLog, AllStay
  <2>2. QED BY <1>a, <1>b, <1>7, <2>1, CashFrom
<1>8. CASE ResetPositions
  <2>1. req' = req /\ account' = account BY <1>8 DEF ResetPositions
  <2>2. CashBooks(Funds)'
    <3>1. PICK v : v = Funds OBVIOUS
    <3>2. CashBooks(v)' /\ v = Funds' BY <1>a, <1>c, <1>8, <2>1, <3>1, CashEmptied DEF CashInBooks
    <3>3. QED BY <3>2 DEF CashBooks
  <2>3. ASSUME NEW x \in Requests, req'[x].pc \in {"create", "position", "pay"}
        PROVE  CashBooks(req[x].cash)'
    <3>1. x \in BalanceReaders /\ req'[x].cash = req[x].cash
      BY <2>1, <2>3 DEF BalanceReaders
    <3>2. PICK v : v = req[x].cash OBVIOUS
    <3>3. CashBooks(v)' BY <1>a, <1>8, <3>1, <3>2, CashEmptied DEF CashInBooks
    <3>4. QED BY <3>1, <3>2, <3>3 DEF CashBooks
  <2>4. QED BY <2>2, <2>3 DEF CashInBooks, BalanceReaders
<1>9. CASE Elsewhere BY <1>7, <1>9 DEF Elsewhere
<1>10. QED BY <1>1, <1>2, <1>3, <1>4, <1>5, <1>6, <1>8, <1>9, BookSteps

-----------------------------------------------------------------------------
\* The quantities of some documents, and their sum.
QuantityOf(p) == [i \in DOMAIN p |-> p[i].qty]
Total(p) == SumFunctionOnSet(QuantityOf(p), DOMAIN p)

LEMMA SharesTotal == Shares = Total(positions) /\ Shares' = Total(positions')
<1>1. ASSUME NEW p PROVE SumFunction([i \in DOMAIN p |-> p[i].qty]) = Total(p)
  <2>1. DOMAIN QuantityOf(p) = DOMAIN p BY DEF QuantityOf
  <2>2. SumFunction(QuantityOf(p)) = SumFunctionOnSet(QuantityOf(p), DOMAIN QuantityOf(p))
    BY DEF SumFunction
  <2>3. SumFunction(QuantityOf(p)) = Total(p) BY <2>1, <2>2 DEF Total
  <2>4. QED BY <2>3 DEF QuantityOf
<1>2. Shares = Total(positions) BY <1>1 DEF Shares
<1>3. Shares' = Total(positions') BY <1>1 DEF Shares
<1>4. QED BY <1>2, <1>3

LEMMA QuantityTypes ==
    ASSUME NEW p \in Seq(PositionRecords)
    PROVE  /\ DOMAIN p = 1 .. Len(p) /\ Len(p) \in Nat /\ IsFiniteSet(DOMAIN p)
           /\ \A i \in DOMAIN p : QuantityOf(p)[i] = p[i].qty /\ QuantityOf(p)[i] \in Int
           /\ Total(p) \in Int
<1>1. DOMAIN p = 1 .. Len(p) /\ Len(p) \in Nat /\ \A i \in DOMAIN p : p[i] \in PositionRecords
  OBVIOUS
<1>2. IsFiniteSet(DOMAIN p) BY <1>1, FS_Interval
<1>3. \A i \in DOMAIN p : QuantityOf(p)[i] = p[i].qty /\ QuantityOf(p)[i] \in Int
  BY <1>1 DEF QuantityOf, PositionRecords
<1>4. Total(p) \in Int BY <1>2, <1>3, SumTypes DEF Total
<1>5. QED BY <1>1, <1>2, <1>3, <1>4

\* What a new document, the loss of the first or its change does to the sum.
LEMMA TotalAppend ==
    ASSUME NEW p \in Seq(PositionRecords), NEW e \in PositionRecords
    PROVE  Total(Append(p, e)) = Total(p) + e.qty
<1> DEFINE q == Append(p, e)
           k == Len(p) + 1
<1>1. q \in Seq(PositionRecords) OBVIOUS
<1>2. /\ DOMAIN q = DOMAIN p \cup {k} /\ k \notin DOMAIN p /\ q[k] = e
      /\ \A i \in DOMAIN p : q[i] = p[i]
  BY QuantityTypes
<1> HIDE DEF q, k
<1>3. /\ IsFiniteSet(DOMAIN p) /\ \A i \in DOMAIN p \cup {k} : QuantityOf(q)[i] \in Int
      /\ \A i \in DOMAIN p : QuantityOf(q)[i] = QuantityOf(p)[i] /\ QuantityOf(p)[i] \in Int
      /\ QuantityOf(q)[k] = e.qty /\ Total(p) \in Int
  <2>1. /\ \A i \in DOMAIN p : QuantityOf(p)[i] = p[i].qty /\ QuantityOf(p)[i] \in Int
        /\ IsFiniteSet(DOMAIN p) /\ Total(p) \in Int
    BY QuantityTypes
  <2>2. \A i \in DOMAIN q : QuantityOf(q)[i] = q[i].qty /\ QuantityOf(q)[i] \in Int
    BY <1>1, QuantityTypes
  <2>3. QED BY <1>2, <2>1, <2>2
<1>4. SumFunctionOnSet(QuantityOf(q), DOMAIN p \cup {k})
        = QuantityOf(q)[k] + SumFunctionOnSet(QuantityOf(q), DOMAIN p)
  BY <1>2, <1>3, SumOfMore
<1>5. SumFunctionOnSet(QuantityOf(p), DOMAIN p) = SumFunctionOnSet(QuantityOf(q), DOMAIN p)
  BY <1>3, SumOfSame
<1>6. Total(q) = e.qty + Total(p) BY <1>2, <1>3, <1>4, <1>5 DEF Total
<1>7. e.qty \in Int BY DEF PositionRecords
<1>8. QED BY <1>3, <1>6, <1>7 DEF q

LEMMA TotalTail ==
    ASSUME NEW p \in Seq(PositionRecords), p # <<>>
    PROVE  Total(Tail(p)) = Total(p) - p[1].qty
<1> DEFINE q == Tail(p)
           h == [i \in DOMAIN q |-> i + 1]
           f == QuantityOf(p)
           g == QuantityOf(q)
           rest == DOMAIN p \ {1}
<1>1. q \in Seq(PositionRecords) OBVIOUS
<1>2. /\ 1 \in DOMAIN p /\ DOMAIN p = 1 .. Len(p) /\ Len(p) \in Nat \ {0}
      /\ DOMAIN q = 1 .. Len(p) - 1 /\ \A i \in DOMAIN q : q[i] = p[i + 1]
  BY QuantityTypes
<1>3. /\ IsFiniteSet(DOMAIN p) /\ \A i \in DOMAIN p : f[i] = p[i].qty /\ f[i] \in Int
      /\ IsFiniteSet(DOMAIN q) /\ \A i \in DOMAIN q : g[i] = q[i].qty /\ g[i] \in Int
  BY <1>1, QuantityTypes
<1>4. Renames(h, DOMAIN q, rest)
  <2>1. \A x \in DOMAIN q : h[x] = x + 1 /\ x \in Int /\ x + 1 \in rest BY <1>2
  <2>2. \A y \in rest : y - 1 \in DOMAIN q /\ y = h[y - 1]
    <3>1. ASSUME NEW y \in rest PROVE y - 1 \in DOMAIN q /\ (y - 1) + 1 = y
      BY <1>2
    <3>2. QED BY <3>1
  <2> HIDE DEF h, rest, q
  <2>3. \A x, y \in DOMAIN q : h[x] = h[y] => x = y BY <2>1
  <2>4. QED BY <2>1, <2>2, <2>3 DEF Renames
<1>5. \A x \in DOMAIN q : f[h[x]] = g[x]
  <2>1. \A x \in DOMAIN q : h[x] = x + 1 /\ x + 1 \in DOMAIN p BY <1>2
  <2> HIDE DEF h, f, g, q
  <2>2. ASSUME NEW x \in DOMAIN q PROVE f[h[x]] = g[x]
    <3>1. f[h[x]] = p[x + 1].qty BY <1>3, <2>1
    <3>2. g[x] = p[x + 1].qty BY <1>2, <1>3
    <3>3. QED BY <3>1, <3>2
  <2>3. QED BY <2>2
<1> HIDE DEF h, f, g, q, rest
<1>6. IsFiniteSet(rest)
  <2>1. rest \in SUBSET DOMAIN p BY DEF rest
  <2>2. QED BY <1>3, <2>1, FS_Subset
<1>7. SumFunctionOnSet(g, DOMAIN q) = SumFunctionOnSet(f, rest)
  BY <1>3, <1>4, <1>5, <1>6, SumOfImage
<1>8. SumFunctionOnSet(f, DOMAIN p) = f[1] + SumFunctionOnSet(f, rest)
  <2>1. PICK one \in DOMAIN p : one = 1 BY <1>2
  <2>2. SumFunctionOnSet(f, DOMAIN p) = f[one] + SumFunctionOnSet(f, DOMAIN p \ {one})
    BY <1>3, SumSplits
  <2>3. QED BY <2>1, <2>2 DEF rest
<1>9. SumFunctionOnSet(f, rest) \in Int BY <1>3, <1>6, SumTypes DEF rest
<1>10. Total(q) = SumFunctionOnSet(f, rest) /\ Total(p) = p[1].qty + SumFunctionOnSet(f, rest)
       /\ p[1].qty \in Int
  BY <1>2, <1>3, <1>7, <1>8 DEF Total, f, g
<1>11. QED BY <1>9, <1>10 DEF q

LEMMA TotalSet ==
    ASSUME NEW p \in Seq(PositionRecords), p # <<>>, NEW n \in Int
    PROVE  Total([p EXCEPT ![1] = [p[1] EXCEPT !.qty = n]]) = Total(p) - p[1].qty + n
<1> DEFINE e == [p[1] EXCEPT !.qty = n]
           q == [p EXCEPT ![1] = e]
           f == QuantityOf(p)
           g == QuantityOf(q)
           rest == DOMAIN p \ {1}
<1>1. p[1] \in PositionRecords OBVIOUS
<1>2. e \in PositionRecords /\ e.qty = n BY <1>1 DEF PositionRecords
<1> HIDE DEF e
<1>3. q \in Seq(PositionRecords) BY <1>2
<1>4. /\ 1 \in DOMAIN p /\ DOMAIN q = DOMAIN p /\ q[1] = e
      /\ \A i \in DOMAIN p : i # 1 => q[i] = p[i]
  OBVIOUS
<1>5. /\ IsFiniteSet(DOMAIN p) /\ \A i \in DOMAIN p : f[i] = p[i].qty /\ f[i] \in Int
      /\ IsFiniteSet(DOMAIN q) /\ \A i \in DOMAIN q : g[i] = q[i].qty /\ g[i] \in Int
  BY <1>3, QuantityTypes
<1> HIDE DEF f, g, q
<1>6. IsFiniteSet(rest) /\ \A i \in rest : f[i] \in Int /\ g[i] = f[i]
  <2>1. rest \in SUBSET DOMAIN p OBVIOUS
  <2>2. \A i \in rest : f[i] \in Int /\ g[i] = f[i] BY <1>4, <1>5
  <2> HIDE DEF rest
  <2>3. QED BY <1>5, <2>1, <2>2, FS_Subset
<1>7. /\ SumFunctionOnSet(f, DOMAIN p) = f[1] + SumFunctionOnSet(f, rest)
      /\ SumFunctionOnSet(g, DOMAIN p) = g[1] + SumFunctionOnSet(g, rest)
  <2>1. PICK one \in DOMAIN p : one = 1 BY <1>4
  <2>2. IsFiniteSet(DOMAIN p) /\ \A i \in DOMAIN p : f[i] \in Int /\ g[i] \in Int
    BY <1>4, <1>5
  <2>3. /\ SumFunctionOnSet(f, DOMAIN p) = f[one] + SumFunctionOnSet(f, DOMAIN p \ {one})
        /\ SumFunctionOnSet(g, DOMAIN p) = g[one] + SumFunctionOnSet(g, DOMAIN p \ {one})
    BY <2>2, SumSplits
  <2>4. QED BY <2>1, <2>3
<1> HIDE DEF rest
<1>8. SumFunctionOnSet(f, rest) = SumFunctionOnSet(g, rest) BY <1>6, SumOfSame
<1>9. SumFunctionOnSet(f, rest) \in Int BY <1>6, SumTypes
<1>10. f[1] = p[1].qty /\ g[1] = n /\ f[1] \in Int BY <1>2, <1>4, <1>5
<1>11. Total(p) = SumFunctionOnSet(f, DOMAIN p) /\ Total(q) = SumFunctionOnSet(g, DOMAIN p)
  BY <1>4 DEF Total, f, g
<1>12. Total(q) = Total(p) - p[1].qty + n BY <1>7, <1>8, <1>9, <1>10, <1>11
<1>13. QED BY <1>12 DEF q, e

\* No quantity that may be written back is new.
LEMMA SharesFrom ==
    ASSUME PaperTyped, SharesInBooks, SharesLogged, StillOpen(Written, Written'),
           positions' = positions,
           \A x \in Requests : x \in PositionReaders' =>
               \/ req'[x].held = FirstPosition.qty
               \/ x \in PositionReaders /\ req'[x].held = req[x].held
    PROVE  SharesInBooks'
<1>1. ASSUME NEW v, ShareBooks(v) PROVE ShareBooks(v)'
  BY <1>1, SharesQuiet
<1>2. FirstPosition' = FirstPosition /\ Shares' = Shares
  BY SamePositions, SharesTotal
<1>3. Shares \in Int /\ FirstPosition.qty \in Int
  <2>1. CashInv /\ positions \in Seq(PositionRecords) BY DEF PaperTyped, CashInv
  <2>2. QED BY <2>1, QuantityTypes, SharesTotal, FirstPositionTypes
<1>4. ShareBooks(Shares)'
  <2>1. PICK v : v = Shares OBVIOUS
  <2>2. ShareBooks(v)' /\ v = Shares' BY <1>1, <1>2, <2>1 DEF SharesInBooks
  <2>3. QED BY <2>2 DEF ShareBooks
<1>5. ASSUME NEW x \in Requests, x \in PositionReaders'
      PROVE  ShareBooks(Shares - FirstPosition.qty + req[x].held)'
  <2>1. CASE req'[x].held = FirstPosition.qty
    <3>1. Shares' - FirstPosition'.qty + req'[x].held = Shares' BY <1>2, <1>3, <2>1
    <3>2. QED BY <1>4, <3>1 DEF ShareBooks
  <2>2. CASE x \in PositionReaders /\ req'[x].held = req[x].held
    <3>1. PICK v : v = Shares - FirstPosition.qty + req[x].held OBVIOUS
    <3>2. ShareBooks(v)' BY <1>1, <2>2, <3>1 DEF SharesInBooks
    <3>3. v = Shares' - FirstPosition'.qty + req'[x].held BY <1>2, <2>2, <3>1
    <3>4. QED BY <3>2, <3>3 DEF ShareBooks
  <2>3. QED BY <1>5, <2>1, <2>2
<1>6. \A x \in PositionReaders' : x \in Requests BY DEF PositionReaders
<1>7. QED BY <1>4, <1>5, <1>6 DEF SharesInBooks

\* A reader of the position that is found stays one, and keeps its quantity.
LEMMA ReaderStays ==
    ASSUME positions' = positions, NEW x \in Requests, Stays(x), x \in PositionReaders'
    PROVE  x \in PositionReaders /\ req'[x].held = req[x].held
<1>1. FirstPosition' = FirstPosition BY SamePositions
<1>2. QED BY <1>1 DEF PositionReaders, Stays

\* An order that has written its shares or lost them: the quantities in the books.
LEMMA OneWritten ==
    ASSUME PaperTyped, NEW r \in Requests, OnlyOne(r), SameOrder(r), SameMoney(r),
           req[r].pc = "shares", req'[r].pc = "trade", req[r].disturbed
    PROVE  StillOpen(Written, Written')
<1>1. \A x \in Requests : SameEffects(x) BY OthersStay, StaysEffects, MoneyEffects
<1>2. \A x \in Requests : x # r => req'[x].pc = req[x].pc BY DEF OnlyOne
<1>3. req'[r].disturbed BY DEF SameOrder
<1>4. Written \subseteq Requests /\ Written' = Written \cup {r} BY <1>2 DEF Written
<1>5. QED BY <1>1, <1>3, <1>4 DEF StillOpen

LEMMA WriteKept ==
    ASSUME PaperTyped, SettledInv, BooksInv, NEW r \in Requests, WriteShares(r)
    PROVE  SharesInBooks'
<1> DEFINE change == ShareChange(req[r])
<1>a. AloneInv /\ ReadInv /\ SidesInv /\ NumbersInv /\ SharesInBooks
  BY DEF SettledInv, BooksInv
<1>1. /\ OnlyOne(r) /\ SameOrder(r) /\ SameReading(r) /\ SameMoney(r)
      /\ req[r].pc = "shares" /\ req'[r].pc = "trade"
      /\ UNCHANGED <<account, reset, log, paperUsed>>
  BY <1>a, WriteFacts
<1>2. /\ \A x \in Requests : x # r => Stays(x)
      /\ SharesLogged /\ r \notin PositionReaders'
      /\ r \notin Written
  BY <1>1, OthersStay, SameLog DEF StillLogged, PositionReaders, Written
<1>3. /\ positions \in Seq(PositionRecords) /\ CashInv
      /\ Shares = Total(positions) /\ Shares' = Total(positions')
      /\ change \in Int /\ Shares \in Int
      /\ positions # <<>> => /\ positions[1] \in PositionRecords /\ positions[1].qty \in Int
                             /\ FirstPosition = positions[1]
      /\ \A x \in Requests : req[x].held \in Int
  <2>1. positions \in Seq(PositionRecords) /\ CashInv BY DEF PaperTyped, CashInv
  <2>2. positions # <<>> => positions[1] \in PositionRecords BY <2>1
  <2>3. QED BY <2>1, <2>2, ChangeTypes, SharesTotal, QuantityTypes, TypedFacts
        DEF PositionRecords, FirstPosition
<1>4. ASSUME NEW v \in Int, ShareBooks(v), NEW w, w = v + change PROVE ShareBooks(w)'
  BY <1>1, <1>2, <1>4, SharesMore
<1>5. ASSUME NEW x \in Requests, x # r, Busy(x) PROVE req[r].disturbed
  BY <1>a, <1>1, <1>5 DEF AloneInv, Clear, Busy
<1>6. ASSUME NEW x \in Requests, x \in PositionReaders'
      PROVE  /\ x # r /\ Stays(x) /\ Busy(x)
             /\ positions' # <<>> /\ req[x].id = positions'[1].id
  BY <1>2, <1>6 DEF PositionReaders, Stays, Busy, FirstPosition
<1>7. ASSUME ShareBooks(Shares)',
             \A x \in Requests : x \in PositionReaders' =>
                 ShareBooks(Shares - FirstPosition.qty + req[x].held)'
      PROVE  SharesInBooks'
  <2>1. \A x \in PositionReaders' : x \in Requests BY DEF PositionReaders
  <2>2. QED BY <1>2, <1>7, <2>1 DEF SharesInBooks
<1> HIDE DEF change
<1>8. ASSUME req[r].id = 0,
             positions' = Append(positions, [id |-> req[r].n, qty |-> change])
      PROVE  SharesInBooks'
  <2> DEFINE e == [id |-> req[r].n, qty |-> change]
  <2>1. e \in PositionRecords /\ e.qty = change /\ e.id = req[r].n
    BY <1>3, TypedFacts DEF PositionRecords
  <2> HIDE DEF e
  <2>2. positions' = Append(positions, e) BY <1>8 DEF e
  <2>3. Shares' = Shares + change BY <1>3, <2>1, <2>2, TotalAppend
  <2>4. ShareBooks(Shares)'
    <3>1. PICK v \in Int : v = Shares BY <1>3
    <3>2. PICK w : w = v + change OBVIOUS
    <3>3. ShareBooks(v) BY <1>a, <1>1, <3>1 DEF SharesInBooks
    <3>4. ShareBooks(w)' /\ w = Shares' BY <1>4, <2>3, <3>1, <3>2, <3>3
    <3>5. QED BY <3>4 DEF ShareBooks
  <2>5. ASSUME NEW x \in Requests, x \in PositionReaders'
        PROVE  ShareBooks(Shares - FirstPosition.qty + req[x].held)'
    <3>1. x # r /\ Stays(x) /\ req[x].id = positions'[1].id BY <1>6, <2>5
    <3>2. positions # <<>>
      <4>1. req[x].id # req[r].n BY <1>a, <1>1 DEF NumbersInv, Busy
      <4>2. positions = <<>> => positions'[1].id = req[r].n BY <2>1, <2>2
      <4>3. QED BY <3>1, <4>1, <4>2
    <3>3. positions'[1] = positions[1] /\ positions' # <<>>
      BY <1>3, <2>1, <2>2, <3>2
    <3>4. FirstPosition' = FirstPosition BY <3>2, <3>3 DEF FirstPosition
    <3>5. x \in PositionReaders /\ req'[x].held = req[x].held
      BY <2>5, <3>1, <3>2, <3>4 DEF PositionReaders, Stays
    <3>6. PICK v \in Int : v = Shares - FirstPosition.qty + req[x].held BY <1>3, <3>2
    <3>7. PICK w : w = v + change OBVIOUS
    <3>8. ShareBooks(v) BY <1>a, <1>1, <3>5, <3>6 DEF SharesInBooks
    <3>9. w = Shares' - FirstPosition'.qty + req'[x].held
      <4>1. FirstPosition'.qty = FirstPosition.qty /\ req'[x].held = req[x].held
        BY <3>4, <3>5
      <4>2. /\ Shares \in Int /\ change \in Int /\ req[x].held \in Int
            /\ FirstPosition.qty \in Int
        BY <1>3, <3>2
      <4>3. QED BY <2>3, <3>6, <3>7, <4>1, <4>2
    <3>10. ShareBooks(w)' BY <1>4, <3>7, <3>8
    <3>11. QED BY <3>9, <3>10 DEF ShareBooks
  <2>6. QED BY <1>7, <2>4, <2>5
<1>9. ASSUME req[r].id # 0, r \notin PositionReaders, positions' = positions
      PROVE  SharesInBooks'
  <2>1. req[r].disturbed
    <3>1. SUFFICES ASSUME Clear(r) PROVE FALSE BY <1>1 DEF Clear, Busy
    <3>2. req[r].id = FirstPosition.id BY <1>a, <1>1, <3>1 DEF ReadInv
    <3>3. positions # <<>> BY <1>9, <3>2 DEF FirstPosition
    <3>4. QED BY <1>1, <1>9, <3>2, <3>3 DEF PositionReaders
  <2>2. StillOpen(Written, Written') BY <1>1, <2>1, OneWritten
  <2>3. \A x \in Requests : x \in PositionReaders' =>
               x \in PositionReaders /\ req'[x].held = req[x].held
    BY <1>6, <1>9, ReaderStays
  <2>4. QED BY <1>a, <1>1, <1>2, <1>9, <2>2, <2>3, SharesFrom
<1>10. ASSUME r \in PositionReaders, NEW v, v = Shares - FirstPosition.qty + req[r].held,
              Shares' = v + change
       PROVE  ShareBooks(Shares)'
  <2>1. positions # <<>> BY <1>10 DEF PositionReaders
  <2>2. v \in Int BY <1>3, <1>10, <2>1
  <2>3. ShareBooks(v) BY <1>a, <1>1, <1>10 DEF SharesInBooks
  <2>4. PICK w : w = v + change OBVIOUS
  <2>5. ShareBooks(w)' /\ w = Shares' BY <1>4, <1>10, <2>2, <2>3, <2>4
  <2>6. QED BY <2>5 DEF ShareBooks
<1>11. ASSUME r \in PositionReaders, req[r].held + change = 0, positions' = Tail(positions)
       PROVE  SharesInBooks'
  <2>1. positions # <<>> BY <1>11 DEF PositionReaders
  <2>2. PICK v : v = Shares - FirstPosition.qty + req[r].held OBVIOUS
  <2>3. Shares' = Shares - FirstPosition.qty BY <1>3, <1>11, <2>1, TotalTail
  <2>4. Shares' = v + change
    <3>1. /\ req[r].held \in Int /\ FirstPosition.qty \in Int /\ change \in Int
          /\ Shares \in Int
      BY <1>3, <2>1
    <3>2. req[r].held + change = 0 BY <1>11
    <3>3. QED BY <2>2, <2>3, <3>1, <3>2
  <2>5. ASSUME NEW x \in Requests, x \in PositionReaders' PROVE FALSE
    <3>1. positions' # <<>> /\ req[x].id = positions'[1].id BY <1>6, <2>5
    <3>2. 2 \in DOMAIN positions /\ positions'[1] = positions[2] BY <1>3, <1>11, <2>1, <3>1
    <3>3. QED BY <1>a, <3>1, <3>2 DEF NumbersInv
  <2>6. QED BY <1>7, <1>10, <1>11, <2>2, <2>4, <2>5
<1>12. ASSUME r \in PositionReaders, NEW n, n = req[r].held + change,
              positions' = [positions EXCEPT ![1] = [positions[1] EXCEPT !.qty = n]]
       PROVE  SharesInBooks'
  <2>1. positions # <<>> /\ n \in Int BY <1>3, <1>12 DEF PositionReaders
  <2>2. PICK v : v = Shares - FirstPosition.qty + req[r].held OBVIOUS
  <2>3. Shares' = Shares - FirstPosition.qty + n BY <1>3, <1>12, <2>1, TotalSet
  <2>4. Shares' = v + change BY <1>3, <1>12, <2>1, <2>2, <2>3
  <2>5. ASSUME NEW x \in Requests, x \in PositionReaders'
        PROVE  ShareBooks(Shares - FirstPosition.qty + req[x].held)'
    <3>1. x # r /\ Stays(x) /\ Busy(x) /\ positions' # <<>> /\ req[x].id = positions'[1].id
      BY <1>6, <2>5
    <3>2. positions'[1].id = positions[1].id /\ positions'[1].qty = n
      <4>1. positions'[1] = [positions[1] EXCEPT !.qty = n] BY <1>3, <1>12, <2>1
      <4>2. QED BY <1>3, <2>1, <4>1 DEF PositionRecords
    <3>3. FirstPosition'.qty = n /\ FirstPosition.id = req[x].id
      BY <1>3, <2>1, <3>1, <3>2 DEF FirstPosition
    <3>4. x \in PositionReaders /\ req'[x].held = req[x].held
      BY <2>1, <2>5, <3>1, <3>3 DEF PositionReaders, Stays
    <3>5. PICK u : u = Shares - FirstPosition.qty + req[x].held OBVIOUS
    <3>6. ShareBooks(u) BY <1>a, <1>1, <3>4, <3>5 DEF SharesInBooks
    <3>7. StillOpen(Written, Written') BY <1>1, <1>5, <3>1, OneWritten
    <3>8. ShareBooks(u)' BY <1>2, <3>6, <3>7, SharesQuiet
    <3>9. u = Shares' - FirstPosition'.qty + req'[x].held
      BY <1>3, <2>1, <2>3, <3>3, <3>4, <3>5
    <3>10. QED BY <3>8, <3>9 DEF ShareBooks
  <2>6. QED BY <1>7, <1>10, <1>12, <2>2, <2>4, <2>5
<1>13. QED BY <1>a, <1>8, <1>9, <1>11, <1>12, WriteFacts DEF change

\* A day, an account or a request elsewhere leaves the shares in the books.
LEMMA SharesQuietStep ==
    ASSUME PaperTyped, BooksInv, positions' = positions, log' = log,
           StillOpen(Written, Written'),
           \A x \in Requests : x \in PositionReaders' =>
               \/ req'[x].held = FirstPosition.qty
               \/ x \in PositionReaders /\ req'[x].held = req[x].held
    PROVE  SharesInBooks'
<1>1. SharesInBooks /\ SharesLogged BY SameLog DEF BooksInv, StillLogged
<1>2. QED BY <1>1, SharesFrom

LEMMA ShareBooksKept ==
    ASSUME PaperTyped, SettledInv, BooksInv, [PaperNext]_paperVars PROVE SharesInBooks'
<1>a. AloneInv /\ SidesInv /\ NumbersInv /\ SharesInBooks
  BY DEF SettledInv, BooksInv
<1>b. ASSUME positions' = positions, NEW r \in Requests, \A x \in Requests : x # r => Stays(x),
             r \in PositionReaders' =>
               \/ req'[r].held = FirstPosition.qty
               \/ r \in PositionReaders /\ req'[r].held = req[r].held
      PROVE  \A x \in Requests : x \in PositionReaders' =>
               \/ req'[x].held = FirstPosition.qty
               \/ x \in PositionReaders /\ req'[x].held = req[x].held
  BY <1>b, ReaderStays
<1>1. ASSUME NEW r \in Requests, NEW side, NEW qty, PlaceOrder(r, side, qty)
      PROVE  SharesInBooks'
  <2>1. /\ req[r].pc = "idle" /\ req'[r].pc = "account" /\ UNCHANGED <<positions, log, reset>>
        /\ \A x \in Requests : x # r => Stays(x)
    BY <1>1, PlaceFacts, PlaceStays DEF Busy
  <2>2. StillOpen(Written, Written') BY <2>1, OneUnpaid
  <2>3. r \notin PositionReaders' BY <2>1 DEF PositionReaders
  <2>4. QED BY <1>b, <2>1, <2>2, <2>3, SharesQuietStep
<1>2. ASSUME NEW r \in Requests, Reads(r) PROVE SharesInBooks'
  <2>1. /\ OnlyOne(r) /\ req[r].pc \notin {"shares", "trade"}
        /\ UNCHANGED <<positions, log, reset>>
        /\ req'[r] = NoOrder \/ ReadsOn(r)
    BY <1>2, ReadsFacts
  <2>2. \A x \in Requests : x # r => Stays(x) BY <2>1, OthersStay
  <2>3. req'[r].pc \notin {"shares", "trade"} BY <2>1 DEF ReadsOn, NoOrder
  <2>4. StillOpen(Written, Written') BY <2>1, <2>2, <2>3, OneUnpaid
  <2>5. r \in PositionReaders' =>
               \/ req'[r].held = FirstPosition.qty
               \/ r \in PositionReaders /\ req'[r].held = req[r].held
    <3>1. FirstPosition' = FirstPosition BY <2>1, SamePositions
    <3>2. QED BY <2>1, <3>1 DEF PositionReaders, ReadsOn, NoOrder
  <2>6. QED BY <1>b, <2>1, <2>2, <2>4, <2>5, SharesQuietStep
<1>3. ASSUME NEW r \in Requests, Pay(r) \/ PayIn(r) PROVE SharesInBooks'
  <2>1. /\ OnlyOne(r) /\ SameOrder(r) /\ SameReading(r) /\ SameMoney(r)
        /\ req[r].pc \in {"pay", "payIn"} /\ req'[r].pc = "shares"
        /\ UNCHANGED <<positions, log, reset>>
    BY <1>3, <1>a, PayFacts
  <2>2. \A x \in Requests : x # r => Stays(x) BY <2>1, OthersStay
  <2>3. StillOpen(Written, Written')
    <3>1. \A x \in Requests : SameEffects(x) BY <2>1, <2>2, StaysEffects, MoneyEffects
    <3>2. \A x \in Requests : x # r => req'[x].pc = req[x].pc BY <2>2 DEF Stays
    <3>3. Written \subseteq Requests /\ Written' = Written BY <2>1, <3>2 DEF Written
    <3>4. QED BY <3>1, <3>3 DEF StillOpen
  <2>4. r \in PositionReaders' => r \in PositionReaders /\ req'[r].held = req[r].held
    <3>1. FirstPosition' = FirstPosition BY <2>1, SamePositions
    <3>2. QED BY <2>1, <3>1 DEF PositionReaders, SameReading
  <2>5. QED BY <1>b, <2>1, <2>2, <2>3, <2>4, SharesQuietStep
<1>4. ASSUME NEW r \in Requests, WriteShares(r) PROVE SharesInBooks' BY <1>4, WriteKept
<1>5. ASSUME NEW r \in Requests, Ends(r) PROVE SharesInBooks'
  <2>1. /\ OnlyOne(r) /\ req'[r] = NoOrder /\ req'[r].pc = "idle" /\ Busy(r)
        /\ UNCHANGED <<positions, reset>>
    BY <1>5, EndsFacts, EndsLog, LeaveFacts DEF PaperTyped
  <2>2. \A x \in Requests : x # r => Stays(x) BY <2>1, OthersStay
  <2>3. r \notin PositionReaders' BY <2>1 DEF PositionReaders
  <2>4. CASE log' = log /\ r \notin Paid
    <3>1. req[r].pc \notin {"shares", "trade"} BY <2>4 DEF Paid
    <3>2. StillOpen(Written, Written') BY <2>1, <2>2, <3>1, OneUnpaid
    <3>3. QED BY <1>b, <2>1, <2>2, <2>3, <2>4, <3>2, SharesQuietStep
  <2>5. ASSUME NEW e \in LogRecords, log' = Append(log, e),
               e.shares = IF req[r].pc = "trade" THEN ShareChange(req[r]) ELSE 0,
               req[r].disturbed => e.disturbed
        PROVE  SharesInBooks'
    <3>1. ASSUME NEW v \in Int, ShareBooks(v) PROVE ShareBooks(v)'
      BY <2>1, <2>5, <3>1, SharesEnded
    <3>2. FirstPosition' = FirstPosition /\ Shares' = Shares
      BY <2>1, SamePositions, SharesTotal
    <3>3. Shares \in Int /\ FirstPosition.qty \in Int /\ \A x \in Requests : req[x].held \in Int
      <4>1. CashInv /\ positions \in Seq(PositionRecords) BY DEF PaperTyped, CashInv
      <4>2. QED BY <4>1, QuantityTypes, SharesTotal, FirstPositionTypes, TypedFacts
    <3>4. ShareBooks(Shares)'
      <4>1. PICK v \in Int : v = Shares BY <3>3
      <4>2. ShareBooks(v)' /\ v = Shares' BY <1>a, <3>2, <3>1, <3>2, <4>1 DEF SharesInBooks
      <4>3. QED BY <4>2 DEF ShareBooks
    <3>5. ASSUME NEW x \in Requests, x \in PositionReaders'
          PROVE  ShareBooks(Shares - FirstPosition.qty + req[x].held)'
      <4>1. x \in PositionReaders /\ req'[x].held = req[x].held
        BY <2>1, <2>2, <2>3, <3>5, ReaderStays
      <4>2. PICK v \in Int : v = Shares - FirstPosition.qty + req[x].held BY <3>3
      <4>3. ShareBooks(v)' BY <1>a, <3>2, <3>1, <4>1, <4>2 DEF SharesInBooks
      <4>4. v = Shares' - FirstPosition'.qty + req'[x].held BY <3>2, <4>1, <4>2
      <4>5. QED BY <4>3, <4>4 DEF ShareBooks
    <3>6. \A x \in PositionReaders' : x \in Requests BY DEF PositionReaders
    <3>7. QED BY <2>1, <3>2, <3>4, <3>5, <3>6 DEF SharesInBooks
  <2>6. QED BY <1>5, <2>4, <2>5, EndsLog
<1>6. CASE StartReset
  <2>1. positions' = positions /\ SharesLogged /\ \A x \in Requests : Stays(x)
    BY <1>6, ResetLogs, ResetStays DEF StartReset
  <2>2. StillOpen(Written, Written') BY <2>1, AllStay
  <2>3. \A x \in Requests : x \in PositionReaders' =>
               x \in PositionReaders /\ req'[x].held = req[x].held
    BY <2>1, ReaderStays
  <2>4. QED BY <1>a, <2>1, <2>2, <2>3, SharesFrom
<1>7. CASE ResetPositions
  <2>1. reset = "positions" /\ positions' = <<>> /\ req' = req
    BY <1>7 DEF ResetPositions
  <2>2. PositionReaders' = {} BY <2>1 DEF PositionReaders
  <2>3. /\ DOMAIN log' = DOMAIN log
        /\ \A i \in DOMAIN ShareTerms' : ShareTerms'[i] = 0
    BY <1>7, EmptiedBooks
  <2>4. Plain(Written)' = {}
    <3>1. \A x \in Requests : req'[x].pc = "trade" => req'[x].disturbed
      BY <1>a, <2>1 DEF AloneInv, Clear, Busy
    <3>2. QED BY <3>1 DEF Plain, Written
  <2>5. Shares' = 0
    <3>1. DOMAIN positions' = {} BY <2>1
    <3>2. Total(positions') = 0 BY <3>1, SumOfNone DEF Total
    <3>3. QED BY <3>2, SharesTotal
  <2>6. ShareBooks(Shares)'
    <3>1. DOMAIN ShareTerms' = DOMAIN log' BY DEF ShareTerms
    <3>2. IsFiniteSet(DOMAIN ShareTerms') BY <2>3, <3>1, BooksTypes
    <3>3. Covers(0, ShareTerms', Excused', ShareOrders', Written', {})
      BY <2>3, <3>2, CoversZeros
    <3>4. QED BY <2>4, <2>5, <3>3 DEF ShareBooks
  <2>7. QED BY <2>2, <2>6 DEF SharesInBooks
<1>8. CASE Elsewhere
  <2>1. /\ \A x \in Requests : Stays(x)
        /\ UNCHANGED <<positions, log>>
    BY <1>8 DEF Elsewhere
  <2>2. StillOpen(Written, Written') BY <2>1, AllStay
  <2>3. \A x \in Requests : x \in PositionReaders' =>
               x \in PositionReaders /\ req'[x].held = req[x].held
    BY <2>1, ReaderStays
  <2>4. \A x \in Requests : x \in PositionReaders' =>
               \/ req'[x].held = FirstPosition.qty
               \/ x \in PositionReaders /\ req'[x].held = req[x].held
    BY <2>3
  <2>5. QED BY <2>1, <2>2, <2>4, SharesQuietStep
<1>9. QED BY <1>1, <1>2, <1>3, <1>4, <1>5, <1>6, <1>7, <1>8, BookSteps

-----------------------------------------------------------------------------
LEMMA BooksInit == PaperInit => BooksInv
<1> SUFFICES ASSUME PaperInit PROVE BooksInv OBVIOUS
<1>1. /\ account = [exists |-> FALSE, cash |-> 0] /\ positions = <<>> /\ log = <<>>
      /\ \A r \in Requests : req[r] = NoOrder
      /\ reset = "idle" /\ paperUsed["orders"] = 0
  BY DEF PaperInit
<1>2. \A r \in Requests : /\ ~Busy(r) /\ req[r].pc = "idle" /\ req[r].n = 0 /\ req[r].id = 0
  BY <1>1 DEF NoOrder, Busy
<1>3. DOMAIN log = {} /\ DOMAIN positions = {} BY <1>1
<1>4. OpenInv /\ SidesInv BY <1>2 DEF OpenInv, SidesInv, Clear
<1>5. NumbersInv BY <1>1, <1>2, <1>3 DEF NumbersInv
<1>6. /\ Excused = {} /\ Plain(Paid) = {} /\ Plain(Written) = {}
      /\ BalanceReaders = {} /\ PositionReaders = {}
  BY <1>2, <1>3 DEF Excused, Plain, Paid, Written, BalanceReaders, PositionReaders
<1>7. CashInBooks
  <2>1. DOMAIN CashTerms = {} BY <1>3 DEF CashTerms
  <2>2. Covers(0, CashTerms, DOMAIN CashTerms, CashOrders, Paid, {}) BY CoversNone
  <2>3. Funds - InitialCash = 0 BY <1>1, PaperConstants DEF Funds
  <2>4. CashBooks(Funds) BY <1>6, <2>1, <2>2, <2>3 DEF CashBooks
  <2>5. QED BY <1>6, <2>4 DEF CashInBooks
<1>8. SharesInBooks
  <2>1. DOMAIN ShareTerms = {} BY <1>3 DEF ShareTerms
  <2>2. Covers(0, ShareTerms, DOMAIN ShareTerms, ShareOrders, Written, {}) BY CoversNone
  <2>3. Shares = 0 BY <1>3, SharesTotal, SumOfNone DEF Total
  <2>4. ShareBooks(Shares) BY <1>6, <2>1, <2>2, <2>3 DEF ShareBooks
  <2>5. QED BY <1>1, <1>6, <2>4 DEF SharesInBooks
<1>9. QED BY <1>4, <1>5, <1>7, <1>8 DEF BooksInv

\* Books that balance at rest.
LEMMA BooksAtRest ==
    ASSUME PaperTyped, BooksInv
    PROVE  OrdersAccountedFor
<1> SUFFICES ASSUME AtRest
             PROVE  /\ account.exists => \E lost \in SUBSET Excused :
                         account.cash = InitialCash
                             + SumFunctionOnSet(CashTerms, DOMAIN log \ lost)
                    /\ \E lost \in SUBSET Excused :
                         Shares = 0 + SumFunctionOnSet(ShareTerms, DOMAIN log \ lost)
  BY DEF OrdersAccountedFor, Excused, CashTerms, ShareTerms
<1>1. /\ IsFiniteSet(DOMAIN log) /\ DOMAIN CashTerms = DOMAIN log
      /\ DOMAIN ShareTerms = DOMAIN log /\ InitialCash \in Int
      /\ \A i \in DOMAIN log : CashTerms[i] \in Int /\ ShareTerms[i] \in Int
  BY BooksTypes
<1>2. Paid = {} /\ Written = {} /\ reset = "idle" BY DEF AtRest, Busy, Paid, Written
<1>3. ASSUME NEW lost \in SUBSET Excused
      PROVE  /\ SumFunctionOnSet(CashTerms, DOMAIN log \ lost) \in Int
             /\ SumFunctionOnSet(ShareTerms, DOMAIN log \ lost) \in Int
  <2>1. IsFiniteSet(DOMAIN log \ lost) BY <1>1, FS_Subset
  <2>2. QED BY <1>1, <2>1, SumTypes
<1>4. ASSUME account.exists
      PROVE  \E lost \in SUBSET Excused :
                 account.cash = InitialCash + SumFunctionOnSet(CashTerms, DOMAIN log \ lost)
  <2>1. Covers(account.cash - InitialCash, CashTerms, Excused, CashOrders, {}, Plain(Paid))
    BY <1>2, <1>4 DEF BooksInv, CashInBooks, CashBooks, Funds
  <2>2. PICK lost \in SUBSET Excused :
          account.cash - InitialCash
            = SumFunctionOnSet(CashTerms, DOMAIN log \ lost) + SumFunctionOnSet(CashOrders, {})
    <3>1. PICK lost \in SUBSET Excused, part \in SUBSET {} :
            account.cash - InitialCash
              = SumFunctionOnSet(CashTerms, DOMAIN log \ lost)
                  + SumFunctionOnSet(CashOrders, part)
      BY <1>1, <2>1 DEF Covers
    <3>2. part = {} OBVIOUS
    <3>3. QED BY <3>1, <3>2
  <2>3. SumFunctionOnSet(CashOrders, {}) = 0 BY SumOfNone
  <2>4. SumFunctionOnSet(CashTerms, DOMAIN log \ lost) \in Int BY <1>3
  <2>5. account.cash \in Int BY DEF PaperTyped, CashInv
  <2>6. account.cash = InitialCash + SumFunctionOnSet(CashTerms, DOMAIN log \ lost)
    BY <1>1, <2>2, <2>3, <2>4, <2>5
  <2>7. QED BY <2>6
<1>5. \E lost \in SUBSET Excused :
          Shares = 0 + SumFunctionOnSet(ShareTerms, DOMAIN log \ lost)
  <2>1. Covers(Shares, ShareTerms, Excused, ShareOrders, {}, Plain(Written))
    BY <1>2 DEF BooksInv, SharesInBooks, ShareBooks
  <2>2. PICK lost \in SUBSET Excused :
          Shares = SumFunctionOnSet(ShareTerms, DOMAIN log \ lost)
                     + SumFunctionOnSet(ShareOrders, {})
    <3>1. PICK lost \in SUBSET Excused, part \in SUBSET {} :
            Shares = SumFunctionOnSet(ShareTerms, DOMAIN log \ lost)
                       + SumFunctionOnSet(ShareOrders, part)
      BY <1>1, <2>1 DEF Covers
    <3>2. part = {} OBVIOUS
    <3>3. QED BY <3>1, <3>2
  <2>3. SumFunctionOnSet(ShareOrders, {}) = 0 BY SumOfNone
  <2>4. SumFunctionOnSet(ShareTerms, DOMAIN log \ lost) \in Int BY <1>3
  <2>5. Shares = 0 + SumFunctionOnSet(ShareTerms, DOMAIN log \ lost) BY <2>2, <2>3, <2>4
  <2>6. QED BY <2>5
<1>6. QED BY <1>4, <1>5

\* When nothing is in progress, the balance and the shares are what the ended orders
\* have written, a failed one what it had written by then; a reset that fails takes
\* the effects on what it has deleted and leaves the others; only overlap can lose an
\* effect (place_order, reset_account).
THEOREM OrdersAreAccountedFor == PaperSpec => []OrdersAccountedFor
<1>1. PaperInit => BooksInv BY BooksInit
<1>2. PaperTyped /\ SettledInv /\ BooksInv /\ [PaperNext]_paperVars => BooksInv'
  BY OpenKept, SidesKept, NumbersKept, CashBooksKept, ShareBooksKept DEF BooksInv
<1>3. PaperTyped /\ BooksInv => OrdersAccountedFor BY BooksAtRest
<1>4. QED BY <1>1, <1>2, <1>3, PaperTypes, SettledKept, PTL DEF PaperSpec
=============================================================================
