----------------------------- MODULE FiniteSums -----------------------------
(***************************************************************************)
(* Sums of naturals over a finite set, as the community modules define     *)
(* them: a recursive function that takes out one element after the other.  *)
(* What the definition promises is proved here: the sum exists, it is a    *)
(* natural, and it does not matter which element is taken out first.       *)
(*                                                                         *)
(* The proofs are by induction on finite sets, stated about a set of sets  *)
(* (FiniteInduction) so that no operator has to be instantiated.           *)
(***************************************************************************)
EXTENDS Integers, FiniteSets, Functions, FiniteSetTheorems, WellFoundedInduction, TLAPS

(* A family of subsets that holds a set as soon as it holds all smaller    *)
(* ones holds every subset.                                                *)
LEMMA FiniteInduction ==
  ASSUME NEW U, IsFiniteSet(U), NEW T,
         \A s \in SUBSET U : (\A r \in SUBSET s : r # s => r \in T) => s \in T
  PROVE  SUBSET U \subseteq T
<1> DEFINE Bad == (SUBSET U) \ T
<1> SUFFICES ASSUME Bad # {} PROVE FALSE
  OBVIOUS
<1>1. IsWellFoundedOn(StrictSubsetOrdering(U), FiniteSubsetsOf(U))
  BY FS_StrictSubsetOrderingWellFounded
<1>2. Bad \subseteq FiniteSubsetsOf(U)
  BY FS_Subset DEF FiniteSubsetsOf
<1> HIDE DEF Bad
<1>3. PICK s \in Bad : \A r \in Bad : ~ (<<r, s>> \in StrictSubsetOrdering(U))
  <2>1. \E s \in Bad : \A r \in Bad : ~ (<<r, s>> \in StrictSubsetOrdering(U))
    BY <1>1, <1>2, WFMin
  <2>2. QED
    BY <2>1
<1>4. \A r \in SUBSET s : r # s => r \in T
  <2> SUFFICES ASSUME NEW r \in SUBSET s, r # s, r \notin T PROVE FALSE
    OBVIOUS
  <2>1. s \in SUBSET U /\ r \in Bad
    BY <1>3 DEF Bad
  <2>2. <<r, s>> \in StrictSubsetOrdering(U)
    BY <2>1 DEF Bad, StrictSubsetOrdering
  <2>3. QED
    BY <1>3, <2>1, <2>2
<1>5. QED
  BY <1>3, <1>4 DEF Bad

-----------------------------------------------------------------------------

(* The equation of the recursive function that sums f over the subsets of  *)
(* a set.                                                                  *)
First(s) == CHOOSE x \in s : TRUE

Summed(f, g, s) == IF s = {} THEN 0 ELSE f[First(s)] + g[s \ {First(s)}]

IsSum(g, f, S) == g = [s \in SUBSET S |-> Summed(f, g, s)]

LEMMA FirstIsIn == \A s : s # {} => First(s) \in s
  BY DEF First

(* Two functions that satisfy the equation give the same sums.             *)
LEMMA SumUnique ==
  ASSUME NEW U, IsFiniteSet(U), NEW V, IsFiniteSet(V), NEW f, NEW g, NEW h,
         IsSum(g, f, U), IsSum(h, f, V), V \subseteq U
  PROVE  \A s \in SUBSET V : g[s] = h[s]
<1> DEFINE T == {s \in SUBSET V : g[s] = h[s]}
<1>1. ASSUME NEW s \in SUBSET V, \A r \in SUBSET s : r # s => r \in T
      PROVE  s \in T
  <2>1. g[s] = Summed(f, g, s) /\ h[s] = Summed(f, h, s)
    BY DEF IsSum
  <2>2. CASE s = {}
    BY <2>1, <2>2 DEF Summed
  <2>3. CASE s # {}
    <3>1. s \ {First(s)} \in T
      BY <1>1, <2>3, FirstIsIn
    <3>2. QED
      BY <2>1, <2>3, <3>1 DEF Summed
  <2>4. QED
    BY <2>2, <2>3
<1> HIDE DEF T
<1>2. SUBSET V \subseteq T
  BY <1>1, FiniteInduction
<1>3. QED
  BY <1>2 DEF T

Solution(f, s) == CHOOSE h : IsSum(h, f, s)

(* A finite set has such a function: the one that gives every subset the   *)
(* sum of its own.                                                         *)
LEMMA SumExists ==
  ASSUME NEW U, IsFiniteSet(U), NEW f
  PROVE  IsSum(Solution(f, U), f, U)
<1> DEFINE T == {V \in SUBSET U : \E g : IsSum(g, f, V)}
<1>1. ASSUME NEW s \in SUBSET U, \A r \in SUBSET s : r # s => r \in T
      PROVE  s \in T
  <2> DEFINE part == [r \in SUBSET s |-> Solution(f, r)[r]]
             g == [r \in SUBSET s |-> Summed(f, part, r)]
  <2>1. ASSUME NEW r \in SUBSET s, r # s
        PROVE  part[r] = Summed(f, part, r)
    <3>1. IsSum(Solution(f, r), f, r)
      BY <1>1, <2>1 DEF Solution
    <3>2. part[r] = Summed(f, Solution(f, r), r)
      BY <3>1 DEF IsSum
    <3>3. CASE r = {}
      BY <3>2, <3>3 DEF Summed
    <3>4. CASE r # {}
      <4> DEFINE q == r \ {First(r)}
      <4>1. q \in SUBSET r /\ q \in SUBSET s /\ q # s /\ r \in SUBSET U /\ q \in SUBSET U
        BY <2>1, <3>4, FirstIsIn
      <4>2. IsSum(Solution(f, q), f, q)
        BY <1>1, <4>1 DEF Solution
      <4>3. IsFiniteSet(r) /\ IsFiniteSet(q)
        BY <4>1, FS_Subset
      <4>4. Solution(f, q)[q] = Solution(f, r)[q]
        BY <3>1, <4>1, <4>2, <4>3, SumUnique
      <4>5. QED
        BY <3>2, <3>4, <4>1, <4>4 DEF Summed
    <3>5. QED
      BY <3>3, <3>4
  <2>2. ASSUME NEW r \in SUBSET s
        PROVE  g[r] = Summed(f, g, r)
    <3>1. g[r] = Summed(f, part, r)
      OBVIOUS
    <3>2. CASE r = {}
      BY <3>1, <3>2 DEF Summed
    <3>3. CASE r # {}
      <4> DEFINE q == r \ {First(r)}
      <4>1. q \in SUBSET s /\ q # s
        BY <3>3, FirstIsIn
      <4>2. g[q] = part[q]
        BY <2>1, <4>1
      <4>3. QED
        BY <3>1, <3>3, <4>2 DEF Summed
    <3>4. QED
      BY <3>2, <3>3
  <2>3. IsSum(g, f, s)
    <3>1. g = [r \in SUBSET s |-> g[r]]
      OBVIOUS
    <3> HIDE DEF g, part
    <3>2. [r \in SUBSET s |-> g[r]] = [r \in SUBSET s |-> Summed(f, g, r)]
      BY <2>2
    <3>3. QED
      BY <3>1, <3>2 DEF IsSum
  <2> HIDE DEF g
  <2>4. QED
    BY <2>3
<1> HIDE DEF T
<1>2. SUBSET U \subseteq T
  BY <1>1, FiniteInduction
<1>3. QED
  BY <1>2 DEF T, Solution

(* The sum over s, of which a larger set's function is a solution, too.    *)
LEMMA SumIsSolution ==
  ASSUME NEW U, IsFiniteSet(U), NEW f, NEW s \in SUBSET U
  PROVE  SumFunctionOnSet(f, s) = Solution(f, U)[s]
<1>1. IsFiniteSet(s)
  BY FS_Subset
<1>2. SumFunctionOnSet(f, s) = Solution(f, s)[s]
  <2>1. SumFunctionOnSet(f, s)
          = (CHOOSE g : g = [t \in SUBSET s |->
               IF t = {} THEN 0
               ELSE LET x == CHOOSE x \in t : TRUE IN f[x] + g[t \ {x}]])[s]
    BY DEF SumFunctionOnSet, FoldFunctionOnSet, MapThenFoldSet
  <2>2. Solution(f, s)
          = CHOOSE g : g = [t \in SUBSET s |->
               IF t = {} THEN 0
               ELSE LET x == CHOOSE x \in t : TRUE IN f[x] + g[t \ {x}]]
    BY DEF Solution, IsSum, Summed, First
  <2>3. QED
    BY <2>1, <2>2
<1>3. Solution(f, s)[s] = Solution(f, U)[s]
  BY <1>1, SumExists, SumUnique
<1>4. QED
  BY <1>2, <1>3

-----------------------------------------------------------------------------
(* What the recursion promises.                                            *)

LEMMA SumEmpty == ASSUME NEW f PROVE SumFunctionOnSet(f, {}) = 0
<1>1. IsFiniteSet({})
  BY FS_EmptySet
<1>2. SumFunctionOnSet(f, {}) = Solution(f, {})[{}] /\ IsSum(Solution(f, {}), f, {})
  BY <1>1, SumIsSolution, SumExists
<1>3. QED
  BY <1>2 DEF IsSum, Summed

(* The first element taken out.                                            *)
LEMMA SumFirst ==
  ASSUME NEW U, IsFiniteSet(U), NEW f, NEW s \in SUBSET U, s # {}
  PROVE  SumFunctionOnSet(f, s) = f[First(s)] + SumFunctionOnSet(f, s \ {First(s)})
<1>1. IsSum(Solution(f, U), f, U)
  BY SumExists
<1>2. Solution(f, U)[s] = f[First(s)] + Solution(f, U)[s \ {First(s)}]
  BY <1>1 DEF IsSum, Summed
<1>3. s \ {First(s)} \in SUBSET U
  OBVIOUS
<1>4. QED
  BY <1>2, <1>3, SumIsSolution

LEMMA SumIsNat ==
  ASSUME NEW S, IsFiniteSet(S), NEW f, \A x \in S : f[x] \in Nat
  PROVE  SumFunctionOnSet(f, S) \in Nat
<1> DEFINE T == {s \in SUBSET S : SumFunctionOnSet(f, s) \in Nat}
<1>1. ASSUME NEW s \in SUBSET S, \A r \in SUBSET s : r # s => r \in T
      PROVE  s \in T
  <2>1. CASE s = {}
    BY <2>1, SumEmpty
  <2>2. CASE s # {}
    <3>1. SumFunctionOnSet(f, s \ {First(s)}) \in Nat /\ f[First(s)] \in Nat
      BY <1>1, <2>2, FirstIsIn
    <3>2. QED
      BY <2>2, <3>1, SumFirst
  <2>3. QED
    BY <2>1, <2>2
<1> HIDE DEF T
<1>2. SUBSET S \subseteq T
  BY <1>1, FiniteInduction
<1>3. QED
  BY <1>2 DEF T

(* Any element may be taken out first.                                     *)
LEMMA SumTakeOut ==
  ASSUME NEW S, IsFiniteSet(S), NEW f, \A x \in S : f[x] \in Nat, NEW e \in S
  PROVE  SumFunctionOnSet(f, S) = f[e] + SumFunctionOnSet(f, S \ {e})
<1> DEFINE Sum(s) == SumFunctionOnSet(f, s)
           T == {s \in SUBSET S : \A x \in s : Sum(s) = f[x] + Sum(s \ {x})}
<1>1. ASSUME NEW s \in SUBSET S, \A r \in SUBSET s : r # s => r \in T
      PROVE  s \in T
  <2> SUFFICES ASSUME NEW x \in s PROVE Sum(s) = f[x] + Sum(s \ {x})
    OBVIOUS
  <2> DEFINE y == First(s)
             rest == s \ {x, y}
  <2>1. y \in s /\ Sum(s) = f[y] + Sum(s \ {y})
    BY FirstIsIn, SumFirst
  <2>2. CASE x = y
    BY <2>1, <2>2
  <2>3. CASE x # y
    <3>1. s \ {y} \in T /\ s \ {x} \in T
      BY <1>1, <2>1
    <3>2. /\ x \in s \ {y} /\ (s \ {y}) \ {x} = rest
          /\ y \in s \ {x} /\ (s \ {x}) \ {y} = rest
      BY <2>1, <2>3
    <3>3. Sum(s \ {y}) = f[x] + Sum(rest) /\ Sum(s \ {x}) = f[y] + Sum(rest)
      BY <3>1, <3>2
    <3>4. f[x] \in Nat /\ f[y] \in Nat /\ Sum(rest) \in Nat
      <4>1. IsFiniteSet(rest) /\ rest \in SUBSET S
        BY FS_Subset
      <4>2. QED
        BY <2>1, <4>1, SumIsNat
    <3> HIDE DEF Sum
    <3>5. QED
      BY <2>1, <3>3, <3>4
  <2>4. QED
    BY <2>2, <2>3
<1> HIDE DEF T
<1>2. SUBSET S \subseteq T
  BY <1>1, FiniteInduction
<1>3. QED
  BY <1>2 DEF T

LEMMA SumPutIn ==
  ASSUME NEW S, IsFiniteSet(S), NEW e, e \notin S, NEW f, \A x \in S \union {e} : f[x] \in Nat
  PROVE  SumFunctionOnSet(f, S \union {e}) = f[e] + SumFunctionOnSet(f, S)
<1>1. IsFiniteSet(S \union {e}) /\ (S \union {e}) \ {e} = S /\ e \in S \union {e}
  BY FS_AddElement
<1>2. SumFunctionOnSet(f, S \union {e}) = f[e] + SumFunctionOnSet(f, (S \union {e}) \ {e})
  BY <1>1, SumTakeOut
<1>3. QED
  BY <1>1, <1>2

(* The sum depends on the values on the set only.                          *)
LEMMA SumSame ==
  ASSUME NEW S, IsFiniteSet(S), NEW f, NEW g, \A x \in S : f[x] = g[x]
  PROVE  SumFunctionOnSet(f, S) = SumFunctionOnSet(g, S)
<1> DEFINE T == {s \in SUBSET S : SumFunctionOnSet(f, s) = SumFunctionOnSet(g, s)}
<1>1. ASSUME NEW s \in SUBSET S, \A r \in SUBSET s : r # s => r \in T
      PROVE  s \in T
  <2>1. CASE s = {}
    BY <2>1, SumEmpty
  <2>2. CASE s # {}
    <3>1. /\ First(s) \in s
          /\ SumFunctionOnSet(f, s \ {First(s)}) = SumFunctionOnSet(g, s \ {First(s)})
      BY <1>1, <2>2, FirstIsIn
    <3>2. /\ SumFunctionOnSet(f, s) = f[First(s)] + SumFunctionOnSet(f, s \ {First(s)})
          /\ SumFunctionOnSet(g, s) = g[First(s)] + SumFunctionOnSet(g, s \ {First(s)})
      BY <2>2, SumFirst
    <3>3. QED
      BY <3>1, <3>2
  <2>3. QED
    BY <2>1, <2>2
<1> HIDE DEF T
<1>2. SUBSET S \subseteq T
  BY <1>1, FiniteInduction
<1>3. QED
  BY <1>2 DEF T

LEMMA SumOfZeros ==
  ASSUME NEW S, IsFiniteSet(S), NEW f, \A x \in S : f[x] = 0
  PROVE  SumFunctionOnSet(f, S) = 0
<1> DEFINE T == {s \in SUBSET S : SumFunctionOnSet(f, s) = 0}
<1>1. ASSUME NEW s \in SUBSET S, \A r \in SUBSET s : r # s => r \in T
      PROVE  s \in T
  <2>1. CASE s = {}
    BY <2>1, SumEmpty
  <2>2. CASE s # {}
    <3>1. SumFunctionOnSet(f, s \ {First(s)}) = 0 /\ f[First(s)] = 0
      BY <1>1, <2>2, FirstIsIn
    <3>2. QED
      BY <2>2, <3>1, SumFirst
  <2>3. QED
    BY <2>1, <2>2
<1> HIDE DEF T
<1>2. SUBSET S \subseteq T
  BY <1>1, FiniteInduction
<1>3. QED
  BY <1>2 DEF T

(* One value changes.                                                      *)
LEMMA SumUpdate ==
  ASSUME NEW S, IsFiniteSet(S), NEW e \in S, NEW f, NEW g,
         \A x \in S : f[x] \in Nat /\ g[x] \in Nat,
         \A x \in S \ {e} : g[x] = f[x]
  PROVE  SumFunctionOnSet(g, S) + f[e] = SumFunctionOnSet(f, S) + g[e]
<1>1. IsFiniteSet(S \ {e})
  BY FS_RemoveElement
<1>2. /\ SumFunctionOnSet(f, S) = f[e] + SumFunctionOnSet(f, S \ {e})
      /\ SumFunctionOnSet(g, S) = g[e] + SumFunctionOnSet(g, S \ {e})
  BY SumTakeOut
<1>3. SumFunctionOnSet(f, S \ {e}) = SumFunctionOnSet(g, S \ {e})
  BY <1>1, SumSame
<1>4. SumFunctionOnSet(f, S \ {e}) \in Nat
  BY <1>1, SumIsNat
<1>5. QED
  BY <1>2, <1>3, <1>4
=============================================================================
