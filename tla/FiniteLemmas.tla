---------------------------- MODULE FiniteLemmas ----------------------------
(***************************************************************************)
(* Facts about finite sets that the proofs of the models share: induction,  *)
(* least and greatest members, and sums.                                    *)
(*                                                                          *)
(* SumFunctionOnSet of the community modules is defined by recursion over   *)
(* the subsets of the set.  The library's theorems about recursion and      *)
(* induction take operators as parameters, so they are replaced here by     *)
(* facts about sets: FiniteInduction, from the well-foundedness of strict   *)
(* inclusion, and SolutionExists, that the recursion has a solution.        *)
(***************************************************************************)
EXTENDS Integers, FiniteSets, FiniteSetsExt, FiniteSetTheorems,
        WellFoundedInduction, TLAPS

\* Induction over the subsets of a finite set: a set G that has the empty set,
\* and each T whose subsets with one element less it has, has them all.
LEMMA FiniteInduction ==
  ASSUME NEW S, IsFiniteSet(S), NEW G, {} \in G,
         \A T \in SUBSET S : (T # {} /\ \A x \in T : T \ {x} \in G) => T \in G
  PROVE  \A T \in SUBSET S : T \in G
<1> DEFINE Bad == { T \in SUBSET S : T \notin G }
<1>1. SUFFICES ASSUME Bad # {} PROVE FALSE
  OBVIOUS
<1>2. \A T \in SUBSET S : IsFiniteSet(T)
  BY FS_Subset
<1>3. Bad \subseteq FiniteSubsetsOf(S)
  BY <1>2 DEF FiniteSubsetsOf
<1>4. IsWellFoundedOn(StrictSubsetOrdering(S), FiniteSubsetsOf(S))
  BY FS_StrictSubsetOrderingWellFounded
<1> HIDE DEF Bad
<1>5. PICK T \in Bad : \A U \in Bad : << U, T >> \notin StrictSubsetOrdering(S)
  BY <1>1, <1>3, <1>4, WFMin
<1>6. T \in SUBSET S /\ T \notin G
  BY <1>5 DEF Bad
<1>7. ASSUME NEW x \in T PROVE T \ {x} \in G
  <2>1. << T \ {x}, T >> \in StrictSubsetOrdering(S)
    BY <1>6, <1>7 DEF StrictSubsetOrdering
  <2> QED
    BY <2>1, <1>5, <1>6 DEF Bad
<1> QED
  BY <1>6, <1>7

\* A finite set of integers that is not empty has a least and a greatest member.
LEMMA Extremes ==
  ASSUME NEW S, IsFiniteSet(S), S \subseteq Int, S # {}
  PROVE  /\ \E x \in S : \A y \in S : x <= y
         /\ \E x \in S : \A y \in S : y <= x
<1> DEFINE G == { T \in SUBSET S : T # {} => /\ \E x \in T : \A y \in T : x <= y
                                           /\ \E x \in T : \A y \in T : y <= x }
<1>1. {} \in G
  OBVIOUS
<1>2. ASSUME NEW T \in SUBSET S, T # {}, \A x \in T : T \ {x} \in G
      PROVE  T \in G
  <2>1. PICK z \in T : TRUE
    BY <1>2
  <2>2. CASE T \ {z} = {}
    BY <1>2, <2>1, <2>2
  <2>3. CASE T \ {z} # {}
    <3>1. PICK lo \in T \ {z} : \A y \in T \ {z} : lo <= y
      BY <1>2, <2>1, <2>3
    <3>2. PICK hi \in T \ {z} : \A y \in T \ {z} : y <= hi
      BY <1>2, <2>1, <2>3
    <3>3. \E x \in T : \A y \in T : x <= y
      BY <1>2, <2>1, <3>1
    <3>4. \E x \in T : \A y \in T : y <= x
      BY <1>2, <2>1, <3>2
    <3> QED
      BY <3>3, <3>4
  <2> QED
    BY <2>2, <2>3
<1> HIDE DEF G
<1>3. \A T \in SUBSET S : T \in G
  BY <1>1, <1>2, FiniteInduction
<1>4. S \in G
  BY <1>3
<1> QED
  BY <1>4 DEF G

-----------------------------------------------------------------------------
(* The recursion.                                                          *)

\* The element the recursion takes next.
First(T) == CHOOSE x \in T : TRUE

\* What the recursion makes of T when g is what it makes of smaller sets.
Unfolded(f, g, T) == IF T = {} THEN 0 ELSE f[First(T)] + g[T \ {First(T)}]

\* g solves the recursion on the subsets of S.
Solves(f, S, g) == g = [T \in SUBSET S |-> Unfolded(f, g, T)]

LEMMA FirstIsThere == \A T : T # {} => First(T) \in T
  BY DEF First

LEMMA SolutionUnfolds ==
  ASSUME NEW f, NEW S, NEW g, Solves(f, S, g), NEW T \in SUBSET S
  PROVE  g[T] = Unfolded(f, g, T)
<1> DEFINE h == [U \in SUBSET S |-> Unfolded(f, g, U)]
<1>1. g = h
  BY DEF Solves
<1>2. h[T] = Unfolded(f, g, T)
  OBVIOUS
<1> HIDE DEF h
<1> QED
  BY <1>1, <1>2

\* Two solutions agree where both are solutions.
LEMMA SolutionsAgree ==
  ASSUME NEW f, NEW S, NEW R, NEW g, NEW h, Solves(f, S, g), Solves(f, R, h),
         IsFiniteSet(S \cap R)
  PROVE  \A T \in SUBSET (S \cap R) : g[T] = h[T]
<1> DEFINE G == { T \in SUBSET (S \cap R) : g[T] = h[T] }
<1>1. {} \in G
  <2>1. g[{}] = 0 /\ h[{}] = 0
    BY SolutionUnfolds DEF Unfolded
  <2> QED
    BY <2>1
<1>2. ASSUME NEW T \in SUBSET (S \cap R), T # {}, \A x \in T : T \ {x} \in G
      PROVE  T \in G
  <2>1. g[T \ {First(T)}] = h[T \ {First(T)}]
    BY <1>2, FirstIsThere
  <2>2. g[T] = f[First(T)] + g[T \ {First(T)}]
    BY <1>2, SolutionUnfolds DEF Unfolded
  <2>3. h[T] = f[First(T)] + h[T \ {First(T)}]
    BY <1>2, SolutionUnfolds DEF Unfolded
  <2> QED
    BY <1>2, <2>1, <2>2, <2>3
<1> HIDE DEF G
<1>3. \A T \in SUBSET (S \cap R) : T \in G
  BY <1>1, <1>2, FiniteInduction, ZenonT(30)
<1> QED
  BY <1>3 DEF G

\* The recursion has a solution on the subsets of any finite set.
LEMMA SolutionExists ==
  ASSUME NEW f, NEW S, IsFiniteSet(S)
  PROVE  \E g : Solves(f, S, g)
<1> DEFINE G == { T \in SUBSET S : \E g : Solves(f, T, g) }
<1>1. {} \in G
  <2> DEFINE g == [T \in SUBSET {} |-> 0]
  <2>1. \A h : \A T \in SUBSET {} : Unfolded(f, h, T) = 0
    BY DEF Unfolded
  <2>2. [T \in SUBSET {} |-> Unfolded(f, g, T)] = g
    BY <2>1
  <2>3. Solves(f, {}, g)
    BY <2>2 DEF Solves
  <2> QED
    BY <2>3
<1>2. ASSUME NEW T \in SUBSET S, T # {}, \A x \in T : T \ {x} \in G
      PROVE  T \in G
  <2> DEFINE Of(x) == CHOOSE h : Solves(f, T \ {x}, h)
             g == [U \in SUBSET T |-> IF U = T THEN Unfolded(f, Of(First(T)), T)
                                      ELSE Of(First(T \ U))[U]]
  <2>1. \A x \in T : Solves(f, T \ {x}, Of(x))
    BY <1>2
  <2>fin. \A U \in SUBSET S : IsFiniteSet(U)
    BY FS_Subset
  <2> HIDE DEF Of
  <2>2. \A U \in SUBSET T : \A x \in T \ U : g[U] = Of(x)[U]
    <3> TAKE U \in SUBSET T
    <3> TAKE x \in T \ U
    <3>1. First(T \ U) \in T \ U
      BY FirstIsThere
    <3>2. g[U] = Of(First(T \ U))[U]
      OBVIOUS
    <3> DEFINE y == First(T \ U)
    <3>3. Solves(f, T \ {x}, Of(x)) /\ Solves(f, T \ {y}, Of(y))
      BY <2>1, <3>1
    <3>4. IsFiniteSet((T \ {x}) \cap (T \ {y}))
      BY <1>2, <2>fin
    <3> HIDE DEF y
    <3>5. \A V \in SUBSET ((T \ {x}) \cap (T \ {y})) : Of(x)[V] = Of(y)[V]
      BY <3>3, <3>4, SolutionsAgree
    <3>6. U \in SUBSET ((T \ {x}) \cap (T \ {y}))
      BY <3>1 DEF y
    <3> QED
      BY <3>2, <3>5, <3>6 DEF y
  <2>3. ASSUME NEW U \in SUBSET T PROVE g[U] = Unfolded(f, g, U)
    <3>1. CASE U = T
      <4>1. g[U] = f[First(T)] + Of(First(T))[T \ {First(T)}]
        BY <3>1, <1>2 DEF Unfolded
      <4>2. First(T) \in T \ (T \ {First(T)})
        BY <1>2, FirstIsThere
      <4>3. g[T \ {First(T)}] = Of(First(T))[T \ {First(T)}]
        BY <2>2, <4>2
      <4> HIDE DEF g
      <4> QED
        BY <3>1, <1>2, <4>1, <4>3 DEF Unfolded
    <3>2. CASE U # T
      <4>1. PICK x \in T : x \notin U
        BY <3>2
      <4>2. g[U] = Of(x)[U]
        BY <2>2, <4>1
      <4>3. \A y : g[U \ {y}] = Of(x)[U \ {y}]
        BY <2>2, <4>1
      <4>4. U \in SUBSET (T \ {x})
        BY <4>1
      <4>5. Of(x)[U] = Unfolded(f, Of(x), U)
        <5> DEFINE R == T \ {x}
                   h == Of(x)
        <5>1. Solves(f, R, h) /\ U \in SUBSET R
          BY <2>1, <4>1, <4>4
        <5> HIDE DEF R, h
        <5>2. h[U] = Unfolded(f, h, U)
          BY <5>1, SolutionUnfolds
        <5> QED
          BY <5>2 DEF h
      <4> HIDE DEF g
      <4> QED
        BY <4>2, <4>3, <4>5 DEF Unfolded
    <3> QED
      BY <3>1, <3>2
  <2>4. g = [U \in SUBSET T |-> Unfolded(f, g, U)]
    <3> DEFINE k == [U \in SUBSET T |-> Unfolded(f, g, U)]
    <3>1. DOMAIN g = SUBSET T /\ DOMAIN k = SUBSET T
      OBVIOUS
    <3>2. \A U \in SUBSET T : k[U] = Unfolded(f, g, U)
      OBVIOUS
    <3>3. g = [U \in SUBSET T |-> g[U]] /\ k = [U \in SUBSET T |-> k[U]]
      OBVIOUS
    <3> HIDE DEF g, k
    <3>4. \A U \in SUBSET T : g[U] = k[U]
      BY <2>3, <3>2
    <3>5. g = k
      BY <3>3, <3>4
    <3> QED
      BY <3>5 DEF k
  <2> HIDE DEF g
  <2>5. Solves(f, T, g)
    BY <2>4 DEF Solves
  <2> QED
    BY <1>2, <2>5
<1> HIDE DEF G
<1>3. \A T \in SUBSET S : T \in G
  BY <1>1, <1>2, FiniteInduction
<1> QED
  BY <1>3 DEF G

-----------------------------------------------------------------------------
(* Sums.                                                                   *)

Sum(f, S) == SumFunctionOnSet(f, S)

Solution(f, S) == CHOOSE g : Solves(f, S, g)

LEMMA SumIsSolution ==
  ASSUME NEW f, NEW S
  PROVE  Sum(f, S) = Solution(f, S)[S]
  BY DEF Sum, Solution, Solves, Unfolded, First, SumFunctionOnSet, FoldFunctionOnSet,
         MapThenFoldSet

\* The sum over a finite set is that of any solution.
LEMMA SumOfSolution ==
  ASSUME NEW f, NEW S, IsFiniteSet(S), NEW g, Solves(f, S, g)
  PROVE  \A T \in SUBSET S : Sum(f, T) = g[T]
<1> TAKE T \in SUBSET S
<1>1. IsFiniteSet(T)
  BY FS_Subset
<1>2. \E h : Solves(f, T, h)
  BY <1>1, SolutionExists
<1> DEFINE h == Solution(f, T)
<1>3. Solves(f, T, h)
  BY <1>2 DEF Solution
<1>4. IsFiniteSet(T \cap S)
  BY <1>1, FS_Intersection
<1> HIDE DEF h
<1>5. \A U \in SUBSET (T \cap S) : h[U] = g[U]
  BY <1>3, <1>4, SolutionsAgree
<1>6. h[T] = g[T]
  BY <1>5
<1> QED
  BY <1>6, SumIsSolution DEF h

LEMMA SumUnfolds ==
  ASSUME NEW f, NEW S, IsFiniteSet(S)
  PROVE  /\ Sum(f, {}) = 0
         /\ \A T \in SUBSET S : T # {} => Sum(f, T) = f[First(T)] + Sum(f, T \ {First(T)})
<1>1. PICK g : Solves(f, S, g)
  BY SolutionExists
<1>2. \A T \in SUBSET S : Sum(f, T) = g[T]
  BY <1>1, SumOfSolution
<1>3. \A T \in SUBSET S : g[T] = Unfolded(f, g, T)
  BY <1>1, SolutionUnfolds
<1> QED
  BY <1>2, <1>3 DEF Unfolded

LEMMA SumEmpty == ASSUME NEW f PROVE Sum(f, {}) = 0
  BY SumUnfolds, FS_EmptySet

\* The sum of integers is an integer, of natural numbers a natural number.
LEMMA SumType ==
  ASSUME NEW S, IsFiniteSet(S), NEW f, \A x \in S : f[x] \in Int
  PROVE  /\ Sum(f, S) \in Int
         /\ (\A x \in S : f[x] >= 0) => Sum(f, S) >= 0
<1> DEFINE G == { T \in SUBSET S : /\ Sum(f, T) \in Int
                                   /\ (\A x \in S : f[x] >= 0) => Sum(f, T) >= 0 }
<1>1. {} \in G
  BY SumEmpty
<1>2. ASSUME NEW T \in SUBSET S, T # {}, \A x \in T : T \ {x} \in G
      PROVE  T \in G
  <2>1. Sum(f, T) = f[First(T)] + Sum(f, T \ {First(T)})
    BY <1>2, SumUnfolds
  <2>2. First(T) \in T
    BY <1>2, FirstIsThere
  <2> QED
    BY <1>2, <2>1, <2>2
<1> HIDE DEF G
<1>3. \A T \in SUBSET S : T \in G
  BY <1>1, <1>2, FiniteInduction
<1> QED
  BY <1>3 DEF G

LEMMA SumZero ==
  ASSUME NEW S, IsFiniteSet(S), NEW f, \A x \in S : f[x] = 0
  PROVE  Sum(f, S) = 0
<1> DEFINE G == { T \in SUBSET S : Sum(f, T) = 0 }
<1>1. {} \in G
  BY SumEmpty
<1>2. ASSUME NEW T \in SUBSET S, T # {}, \A x \in T : T \ {x} \in G
      PROVE  T \in G
  <2>1. First(T) \in T /\ Sum(f, T) = f[First(T)] + Sum(f, T \ {First(T)})
    BY <1>2, SumUnfolds, FirstIsThere
  <2> QED
    BY <1>2, <2>1
<1> HIDE DEF G
<1>3. \A T \in SUBSET S : T \in G
  BY <1>1, <1>2, FiniteInduction
<1> QED
  BY <1>3 DEF G

\* Any element may be taken first.
LEMMA SumRemove ==
  ASSUME NEW S, IsFiniteSet(S), NEW f, \A x \in S : f[x] \in Int
  PROVE  \A x \in S : Sum(f, S) = f[x] + Sum(f, S \ {x})
<1> DEFINE G == { T \in SUBSET S : \A x \in T : Sum(f, T) = f[x] + Sum(f, T \ {x}) }
<1>fin. \A T \in SUBSET S : IsFiniteSet(T)
  BY FS_Subset
<1>type. \A T \in SUBSET S : Sum(f, T) \in Int
  BY <1>fin, SumType
<1>1. {} \in G
  OBVIOUS
<1>2. ASSUME NEW T \in SUBSET S, T # {}, \A x \in T : T \ {x} \in G
      PROVE  T \in G
  <2> DEFINE p == First(T)
  <2>1. p \in T /\ Sum(f, T) = f[p] + Sum(f, T \ {p})
    BY <1>2, SumUnfolds, FirstIsThere
  <2> HIDE DEF p
  <2>2. ASSUME NEW x \in T, x # p PROVE Sum(f, T) = f[x] + Sum(f, T \ {x})
    <3>1. Sum(f, T \ {p}) = f[x] + Sum(f, (T \ {p}) \ {x})
      BY <1>2, <2>1, <2>2
    <3>2. Sum(f, T \ {x}) = f[p] + Sum(f, (T \ {x}) \ {p})
      BY <1>2, <2>1, <2>2
    <3>3. (T \ {p}) \ {x} = (T \ {x}) \ {p}
      OBVIOUS
    <3> DEFINE rest == Sum(f, (T \ {x}) \ {p})
    <3>4. f[x] \in Int /\ f[p] \in Int /\ rest \in Int
      BY <2>1, <1>type
    <3>5. Sum(f, T) = f[p] + (f[x] + rest) /\ Sum(f, T \ {x}) = f[p] + rest
      BY <2>1, <3>1, <3>2, <3>3
    <3> HIDE DEF rest
    <3> QED
      BY <3>4, <3>5
  <2> QED
    BY <2>1, <2>2
<1> HIDE DEF G
<1>3. \A T \in SUBSET S : T \in G
  BY <1>1, <1>2, FiniteInduction
<1> QED
  BY <1>3 DEF G

LEMMA SumAdd ==
  ASSUME NEW S, IsFiniteSet(S), NEW f, NEW x, x \notin S,
         \A y \in S \cup {x} : f[y] \in Int
  PROVE  Sum(f, S \cup {x}) = f[x] + Sum(f, S)
<1>1. IsFiniteSet(S \cup {x})
  BY FS_AddElement
<1>2. (S \cup {x}) \ {x} = S
  OBVIOUS
<1> QED
  BY <1>1, <1>2, SumRemove

\* Only the values on the set count.
LEMMA SumAgree ==
  ASSUME NEW S, IsFiniteSet(S), NEW f, NEW g, \A x \in S : f[x] = g[x]
  PROVE  Sum(f, S) = Sum(g, S)
<1> DEFINE G == { T \in SUBSET S : Sum(f, T) = Sum(g, T) }
<1>1. {} \in G
  BY SumEmpty
<1>2. ASSUME NEW T \in SUBSET S, T # {}, \A x \in T : T \ {x} \in G
      PROVE  T \in G
  <2>1. First(T) \in T
    BY <1>2, FirstIsThere
  <2>2. /\ Sum(f, T) = f[First(T)] + Sum(f, T \ {First(T)})
        /\ Sum(g, T) = g[First(T)] + Sum(g, T \ {First(T)})
    BY <1>2, SumUnfolds
  <2> QED
    BY <1>2, <2>1, <2>2
<1> HIDE DEF G
<1>3. \A T \in SUBSET S : T \in G
  BY <1>1, <1>2, FiniteInduction
<1> QED
  BY <1>3 DEF G

\* One value changes.
LEMMA SumChange ==
  ASSUME NEW S, IsFiniteSet(S), NEW f, NEW g, NEW x \in S,
         \A y \in S : f[y] \in Int, g[x] \in Int,
         \A y \in S \ {x} : g[y] = f[y]
  PROVE  Sum(g, S) = Sum(f, S) - f[x] + g[x]
<1>1. IsFiniteSet(S \ {x})
  BY FS_RemoveElement
<1>2. \A y \in S : g[y] \in Int
  OBVIOUS
<1>3. Sum(f, S) = f[x] + Sum(f, S \ {x}) /\ Sum(g, S) = g[x] + Sum(g, S \ {x})
  BY <1>2, SumRemove
<1>4. Sum(f, S \ {x}) = Sum(g, S \ {x})
  BY <1>1, SumAgree
<1>5. Sum(f, S \ {x}) \in Int
  BY <1>1, SumType
<1> QED
  BY <1>3, <1>4, <1>5

\* A sum of sums.
LEMMA SumPlus ==
  ASSUME NEW S, IsFiniteSet(S), NEW f, NEW g, NEW h,
         \A x \in S : f[x] \in Int /\ g[x] \in Int /\ h[x] = f[x] + g[x]
  PROVE  Sum(h, S) = Sum(f, S) + Sum(g, S)
<1> DEFINE G == { T \in SUBSET S : Sum(h, T) = Sum(f, T) + Sum(g, T) }
<1>1. {} \in G
  BY SumEmpty
<1>2. ASSUME NEW T \in SUBSET S, T # {}, \A x \in T : T \ {x} \in G
      PROVE  T \in G
  <2>1. First(T) \in T
    BY <1>2, FirstIsThere
  <2>2. /\ Sum(f, T) = f[First(T)] + Sum(f, T \ {First(T)})
        /\ Sum(g, T) = g[First(T)] + Sum(g, T \ {First(T)})
        /\ Sum(h, T) = h[First(T)] + Sum(h, T \ {First(T)})
    BY <1>2, SumUnfolds
  <2>3. IsFiniteSet(T \ {First(T)})
    BY FS_Subset
  <2>4. Sum(f, T \ {First(T)}) \in Int /\ Sum(g, T \ {First(T)}) \in Int
    BY <2>3, SumType
  <2>5. Sum(h, T \ {First(T)}) = Sum(f, T \ {First(T)}) + Sum(g, T \ {First(T)})
    BY <1>2, <2>1
  <2> QED
    BY <2>1, <2>2, <2>4, <2>5
<1> HIDE DEF G
<1>3. \A T \in SUBSET S : T \in G
  BY <1>1, <1>2, FiniteInduction
<1> QED
  BY <1>3 DEF G

\* A smaller set of natural numbers has a smaller sum.
LEMMA SumMonotone ==
  ASSUME NEW S, IsFiniteSet(S), NEW f, \A x \in S : f[x] \in Nat
  PROVE  \A T \in SUBSET S : Sum(f, T) <= Sum(f, S)
<1> TAKE T \in SUBSET S
<1> DEFINE G == { R \in SUBSET (S \ T) : Sum(f, T) <= Sum(f, T \cup R) }
<1>fin. IsFiniteSet(S \ T) /\ \A R \in SUBSET S : IsFiniteSet(R)
  BY FS_Subset, FS_Difference
<1>type. \A R \in SUBSET S : Sum(f, R) \in Int
  BY <1>fin, SumType
<1>1. {} \in G
  <2>1. T \cup {} = T
    OBVIOUS
  <2> QED
    BY <2>1, <1>type
<1>2. ASSUME NEW R \in SUBSET (S \ T), R # {}, \A x \in R : R \ {x} \in G
      PROVE  R \in G
  <2>1. PICK x \in R : TRUE
    BY <1>2
  <2>2. (T \cup R) \ {x} = T \cup (R \ {x})
    BY <2>1
  <2>3. IsFiniteSet(T \cup R) /\ \A y \in T \cup R : f[y] \in Int
    BY <1>fin
  <2>4. Sum(f, T \cup R) = f[x] + Sum(f, (T \cup R) \ {x})
    BY <2>1, <2>3, SumRemove
  <2>5. Sum(f, T) <= Sum(f, T \cup (R \ {x}))
    BY <1>2, <2>1
  <2>6. Sum(f, T) \in Int /\ Sum(f, T \cup (R \ {x})) \in Int /\ f[x] \in Nat
    BY <1>type, <2>1
  <2> QED
    BY <2>2, <2>4, <2>5, <2>6
<1> HIDE DEF G
<1>3. \A R \in SUBSET (S \ T) : R \in G
  <2> DEFINE D == S \ T
  <2>1. IsFiniteSet(D)
    BY <1>fin
  <2>2. \A R \in SUBSET D : (R # {} /\ \A x \in R : R \ {x} \in G) => R \in G
    BY <1>2
  <2> HIDE DEF D
  <2>3. \A R \in SUBSET D : R \in G
    BY <1>1, <2>1, <2>2, FiniteInduction
  <2> QED
    BY <2>3 DEF D
<1>4. S \ T \in G
  BY <1>3
<1>5. T \cup (S \ T) = S
  OBVIOUS
<1> QED
  BY <1>4, <1>5 DEF G

\* One summand changes, comes or goes.
LEMMA SumMove ==
  ASSUME NEW S, NEW T, IsFiniteSet(S), IsFiniteSet(T), NEW f, NEW g, NEW x,
         S \ {x} = T \ {x}, \A y \in S : f[y] \in Int, \A y \in T : g[y] \in Int,
         \A y \in S \ {x} : g[y] = f[y]
  PROVE  Sum(g, T) = Sum(f, S) - (IF x \in S THEN f[x] ELSE 0) + (IF x \in T THEN g[x] ELSE 0)
<1> DEFINE R == S \ {x}
<1>1. IsFiniteSet(R)
  BY FS_RemoveElement
<1>2. Sum(g, R) = Sum(f, R)
  BY <1>1, SumAgree
<1>3. Sum(f, R) \in Int /\ Sum(f, S) \in Int
  BY <1>1, SumType
<1>4. Sum(f, S) = (IF x \in S THEN f[x] ELSE 0) + Sum(f, R)
  <2>1. CASE x \in S
    <3>1. Sum(f, S) = f[x] + Sum(f, R)
      BY <2>1, SumRemove
    <3>2. (IF x \in S THEN f[x] ELSE 0) = f[x]
      BY <2>1
    <3> QED
      BY <3>1, <3>2
  <2>2. CASE x \notin S
    <3>1. R = S
      BY <2>2
    <3>2. Sum(f, R) = Sum(f, S)
      BY <3>1
    <3>3. (IF x \in S THEN f[x] ELSE 0) = 0
      BY <2>2
    <3> QED
      BY <1>3, <3>2, <3>3
  <2> QED
    BY <2>1, <2>2
<1>5. Sum(g, T) = (IF x \in T THEN g[x] ELSE 0) + Sum(g, R)
  <2>1. CASE x \in T
    <3>1. Sum(g, T) = g[x] + Sum(g, T \ {x})
      BY <2>1, SumRemove
    <3>2. (IF x \in T THEN g[x] ELSE 0) = g[x]
      BY <2>1
    <3> QED
      BY <3>1, <3>2
  <2>2. CASE x \notin T
    <3>1. R = T
      BY <2>2
    <3>2. Sum(g, R) = Sum(g, T)
      BY <3>1
    <3>3. (IF x \in T THEN g[x] ELSE 0) = 0
      BY <2>2
    <3> QED
      BY <1>2, <1>3, <3>2, <3>3
  <2> QED
    BY <2>1, <2>2
<1>6. /\ x \in S => f[x] \in Int
      /\ x \in T => g[x] \in Int
  OBVIOUS
<1> QED
  BY <1>2, <1>3, <1>4, <1>5, <1>6

\* A set whose members are all the same has one at most.
LEMMA OneAtMost ==
  ASSUME NEW S, \A a, b \in S : a = b
  PROVE  IsFiniteSet(S) /\ Cardinality(S) <= 1
<1>1. CASE S = {}
  BY <1>1, FS_EmptySet
<1>2. CASE S # {}
  <2>1. PICK a : a \in S
    BY <1>2
  <2>2. S = { a }
    BY <2>1
  <2>3. IsFiniteSet({ a }) /\ Cardinality({ a }) = 1
    BY FS_Singleton
  <2> QED
    BY <2>2, <2>3
<1> QED
  BY <1>1, <1>2

=============================================================================
