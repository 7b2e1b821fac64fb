------------------------------ MODULE SumTheorems ------------------------------
(***************************************************************************)
(* Facts about the sum of a function over a finite set (SumFunction and    *)
(* SumFunctionOnSet of the community module Functions), for the counters   *)
(* of the other modules.  A fold over a set is a recursive function on its *)
(* subsets.  What it does is shown on a smallest counterexample, since     *)
(* strict inclusion is well founded on the subsets of a finite set.        *)
(***************************************************************************)
EXTENDS Naturals, FiniteSets, Functions, FiniteSetTheorems, WellFoundedInduction, TLAPS

\* The element a fold takes first.
Picked(s) == CHOOSE x \in s : TRUE

\* The rest of a set.
AllButPicked(s) == s \ {Picked(s)}

\* The function meets the recursive definition of the sums of f over subsets of S.
Unfolds(g, f, S) ==
    g = [s \in SUBSET S |-> IF s = {} THEN 0 ELSE f[Picked(s)] + g[AllButPicked(s)]]

LEMMA PickedType == ASSUME NEW S, S # {} PROVE Picked(S) \in S
  BY DEF Picked

\* Of some subsets of a finite set, one has none of the others inside.
LEMMA SmallestSubset ==
    ASSUME NEW S, IsFiniteSet(S), NEW B \in SUBSET (SUBSET S), B # {}
    PROVE  \E T \in B : \A U \in B : U \subseteq T => U = T
  <1> DEFINE R == StrictSubsetOrdering(S)
  <1>1. FiniteSubsetsOf(S) = SUBSET S
    BY FS_FiniteSubsetsOfFinite
  <1>2. IsWellFoundedOn(R, SUBSET S)
    BY <1>1, FS_StrictSubsetOrderingWellFounded
  <1> HIDE DEF R
  <1>3. PICK T \in B : \A U \in B : ~ (<<U, T>> \in R)
    BY <1>2, WFMin
  <1>4. \A U \in B : U \subseteq T => U = T
    BY <1>3 DEF R, StrictSubsetOrdering
  <1> QED
    BY <1>4

\* Two such functions agree wherever both are defined.
LEMMA UnfoldsAgree ==
    ASSUME NEW f, NEW S, NEW T, IsFiniteSet(S), NEW g, Unfolds(g, f, S), NEW h, Unfolds(h, f, T),
           NEW s, s \subseteq S, s \subseteq T
    PROVE  g[s] = h[s]
  <1> DEFINE B == {r \in SUBSET s : g[r] # h[r]}
  <1>1. SUFFICES ASSUME B # {} PROVE FALSE
    OBVIOUS
  <1>2. IsFiniteSet(s)
    BY FS_Subset
  <1>3. PICK r \in B : \A q \in B : q \subseteq r => q = r
    <2>1. B \in SUBSET (SUBSET s)
      OBVIOUS
    <2> HIDE DEF B
    <2> QED
      BY <1>1, <1>2, <2>1, SmallestSubset
  <1>4. r \in SUBSET S /\ r \in SUBSET T /\ r \in SUBSET s
    BY <1>3
  <1>5. g[r] = IF r = {} THEN 0 ELSE f[Picked(r)] + g[AllButPicked(r)]
    BY <1>4 DEF Unfolds
  <1>6. h[r] = IF r = {} THEN 0 ELSE f[Picked(r)] + h[AllButPicked(r)]
    BY <1>4 DEF Unfolds
  <1>7. r # {} => AllButPicked(r) \subseteq r /\ AllButPicked(r) # r
    BY PickedType DEF AllButPicked
  <1>8. r # {} => g[AllButPicked(r)] = h[AllButPicked(r)]
    BY <1>3, <1>4, <1>7
  <1> QED
    BY <1>3, <1>5, <1>6, <1>8

\* There is such a function.
LEMMA UnfoldsExists ==
    ASSUME NEW f, NEW S, IsFiniteSet(S)
    PROVE  \E g : Unfolds(g, f, S)
  <1> DEFINE B == {T \in SUBSET S : ~ \E g : Unfolds(g, f, T)}
  <1>1. SUFFICES ASSUME B # {} PROVE FALSE
    OBVIOUS
  <1>2. PICK T \in B : \A U \in B : U \subseteq T => U = T
    <2>1. B \in SUBSET (SUBSET S)
      OBVIOUS
    <2> HIDE DEF B
    <2> QED
      BY <1>1, <2>1, SmallestSubset
  <1> DEFINE sol(U) == CHOOSE g : Unfolds(g, f, U)
             g == [s \in SUBSET T |->
                     IF s = {} THEN 0 ELSE f[Picked(s)] + sol(AllButPicked(s))[AllButPicked(s)]]
  <1>3. \A U \in SUBSET T : U # T => Unfolds(sol(U), f, U)
    BY <1>2
  <1>4. ASSUME NEW s \in SUBSET T, s # {}
        PROVE  g[AllButPicked(s)] = sol(AllButPicked(s))[AllButPicked(s)]
    <2> DEFINE r == AllButPicked(s)
    <2>1. r \in SUBSET T /\ r # T
      BY <1>4, PickedType DEF AllButPicked
    <2> HIDE DEF r, sol
    <2>2. Unfolds(sol(r), f, r)
      BY <1>3, <2>1
    <2>3. sol(r)[r] = IF r = {} THEN 0 ELSE f[Picked(r)] + sol(r)[AllButPicked(r)]
      BY <2>2 DEF Unfolds
    <2>4. g[r] = IF r = {} THEN 0 ELSE f[Picked(r)] + sol(AllButPicked(r))[AllButPicked(r)]
      BY <2>1
    <2>5. ASSUME r # {} PROVE sol(r)[AllButPicked(r)] = sol(AllButPicked(r))[AllButPicked(r)]
      <3>1. AllButPicked(r) \in SUBSET T /\ AllButPicked(r) # T /\ AllButPicked(r) \subseteq r
        BY <2>1, <2>5, PickedType DEF AllButPicked
      <3>2. Unfolds(sol(AllButPicked(r)), f, AllButPicked(r))
        BY <1>3, <3>1
      <3>3. IsFiniteSet(r)
        BY <2>1, FS_Subset
      <3> QED
        BY <2>2, <3>1, <3>2, <3>3, UnfoldsAgree
    <2>6. g[r] = sol(r)[r]
      BY <2>3, <2>4, <2>5
    <2> QED
      BY <2>6 DEF r
  <1> HIDE DEF sol
  <1>5. g = [s \in SUBSET T |-> IF s = {} THEN 0 ELSE f[Picked(s)] + g[AllButPicked(s)]]
    BY <1>4
  <1> HIDE DEF g
  <1>6. Unfolds(g, f, T)
    BY <1>5 DEF Unfolds
  <1> QED
    BY <1>2, <1>6

\* The sum is the value of one.
LEMMA SumIsUnfolded ==
    ASSUME NEW f, NEW S, IsFiniteSet(S)
    PROVE  \E g : Unfolds(g, f, S) /\ SumFunctionOnSet(f, S) = g[S]
  <1> DEFINE g == CHOOSE g : g = [s \in SUBSET S |-> IF s = {} THEN 0
                 ELSE f[CHOOSE x \in s : TRUE] + g[s \ {CHOOSE x \in s : TRUE}]]
  <1>1. SumFunctionOnSet(f, S) = g[S]
    BY DEF SumFunctionOnSet, FoldFunctionOnSet, MapThenFoldSet
  <1>2. \E h : h = [s \in SUBSET S |-> IF s = {} THEN 0
                 ELSE f[CHOOSE x \in s : TRUE] + h[s \ {CHOOSE x \in s : TRUE}]]
    <2>1. PICK h : Unfolds(h, f, S)
      BY UnfoldsExists
    <2> QED
      BY <2>1 DEF Unfolds, Picked, AllButPicked
  <1>3. Unfolds(g, f, S)
    BY <1>2 DEF Unfolds, Picked, AllButPicked
  <1> QED
    BY <1>1, <1>3

\* Its recursive definition.
LEMMA SumUnfolds ==
    ASSUME NEW f, NEW S, IsFiniteSet(S)
    PROVE  SumFunctionOnSet(f, S) =
             IF S = {} THEN 0 ELSE f[Picked(S)] + SumFunctionOnSet(f, AllButPicked(S))
  <1>1. PICK g : Unfolds(g, f, S) /\ SumFunctionOnSet(f, S) = g[S]
    BY SumIsUnfolded
  <1>2. g[S] = IF S = {} THEN 0 ELSE f[Picked(S)] + g[AllButPicked(S)]
    BY <1>1 DEF Unfolds
  <1>3. AllButPicked(S) \subseteq S /\ IsFiniteSet(AllButPicked(S))
    BY FS_Subset DEF AllButPicked
  <1>4. PICK h : /\ Unfolds(h, f, AllButPicked(S))
                 /\ SumFunctionOnSet(f, AllButPicked(S)) = h[AllButPicked(S)]
    BY <1>3, SumIsUnfolded
  <1>5. g[AllButPicked(S)] = h[AllButPicked(S)]
    BY <1>1, <1>3, <1>4, UnfoldsAgree
  <1> QED
    BY <1>1, <1>2, <1>4, <1>5

\* A sum of natural numbers is one.
LEMMA SumOnType ==
    ASSUME NEW S, IsFiniteSet(S), NEW f, \A x \in S : f[x] \in Nat
    PROVE  SumFunctionOnSet(f, S) \in Nat
  <1> DEFINE B == {T \in SUBSET S : SumFunctionOnSet(f, T) \notin Nat}
  <1>1. SUFFICES ASSUME B # {} PROVE FALSE
    OBVIOUS
  <1>2. PICK T \in B : \A U \in B : U \subseteq T => U = T
    <2>1. B \in SUBSET (SUBSET S)
      OBVIOUS
    <2> HIDE DEF B
    <2> QED
      BY <1>1, <2>1, SmallestSubset
  <1>3. IsFiniteSet(T) /\ T \subseteq S
    BY FS_Subset
  <1>4. T # {} => Picked(T) \in T /\ AllButPicked(T) \subseteq T /\ AllButPicked(T) # T
    BY PickedType DEF AllButPicked
  <1>5. T # {} => SumFunctionOnSet(f, AllButPicked(T)) \in Nat
    BY <1>2, <1>3, <1>4
  <1>6. SumFunctionOnSet(f, T) \in Nat
    BY <1>3, <1>4, <1>5, SumUnfolds
  <1> QED
    BY <1>2, <1>6

\* Any element can be taken out first.
LEMMA SumOnRemove ==
    ASSUME NEW S, IsFiniteSet(S), NEW f, \A x \in S : f[x] \in Nat, NEW y \in S
    PROVE  SumFunctionOnSet(f, S) = f[y] + SumFunctionOnSet(f, S \ {y})
  <1> DEFINE sum(T) == SumFunctionOnSet(f, T)
             B == {T \in SUBSET S : \E x \in T : sum(T) # f[x] + sum(T \ {x})}
  <1>1. SUFFICES ASSUME B # {} PROVE FALSE
    OBVIOUS
  <1>2. PICK T \in B : \A U \in B : U \subseteq T => U = T
    <2>1. B \in SUBSET (SUBSET S)
      OBVIOUS
    <2> HIDE DEF B
    <2> QED
      BY <1>1, <2>1, SmallestSubset
  <1>3. PICK x \in T : sum(T) # f[x] + sum(T \ {x})
    BY <1>2
  <1> DEFINE p == Picked(T)
  <1>4. p \in T /\ x \in S /\ p \in S
    BY <1>2, <1>3, PickedType
  <1>5. IsFiniteSet(T) /\ T \subseteq S
    BY FS_Subset
  <1>6. sum(T) = f[p] + sum(T \ {p})
    BY <1>4, <1>5, SumUnfolds DEF AllButPicked
  <1>7. x # p
    BY <1>3, <1>6
  <1>8. T \ {p} \notin B /\ T \ {x} \notin B
    BY <1>2, <1>3, <1>4
  <1> HIDE DEF p
  <1>9. sum(T \ {p}) = f[x] + sum((T \ {p}) \ {x})
    BY <1>3, <1>5, <1>7, <1>8
  <1>10. sum(T \ {x}) = f[p] + sum((T \ {x}) \ {p})
    BY <1>4, <1>5, <1>7, <1>8
  <1>11. (T \ {p}) \ {x} = (T \ {x}) \ {p}
    OBVIOUS
  <1>12. f[x] \in Nat /\ f[p] \in Nat /\ sum((T \ {x}) \ {p}) \in Nat
    <2>1. IsFiniteSet((T \ {x}) \ {p}) /\ (T \ {x}) \ {p} \subseteq S
      BY <1>5, FS_Subset
    <2> QED
      BY <1>4, <2>1, SumOnType
  <1> HIDE DEF sum
  <1>13. sum(T) = f[x] + sum(T \ {x})
    BY <1>6, <1>9, <1>10, <1>11, <1>12
  <1> QED
    BY <1>3, <1>13

\* Functions that agree on a set have the same sum over it.
LEMMA SumOnSame ==
    ASSUME NEW S, IsFiniteSet(S), NEW f, NEW g, \A x \in S : f[x] = g[x]
    PROVE  SumFunctionOnSet(f, S) = SumFunctionOnSet(g, S)
  <1> DEFINE B == {T \in SUBSET S : SumFunctionOnSet(f, T) # SumFunctionOnSet(g, T)}
  <1>1. SUFFICES ASSUME B # {} PROVE FALSE
    OBVIOUS
  <1>2. PICK T \in B : \A U \in B : U \subseteq T => U = T
    <2>1. B \in SUBSET (SUBSET S)
      OBVIOUS
    <2> HIDE DEF B
    <2> QED
      BY <1>1, <2>1, SmallestSubset
  <1>3. IsFiniteSet(T) /\ T \subseteq S
    BY FS_Subset
  <1>4. T # {} => Picked(T) \in S /\ AllButPicked(T) \subseteq T /\ AllButPicked(T) # T
    BY <1>3, PickedType DEF AllButPicked
  <1>5. T # {} => SumFunctionOnSet(f, AllButPicked(T)) = SumFunctionOnSet(g, AllButPicked(T))
    BY <1>2, <1>3, <1>4
  <1>6. SumFunctionOnSet(f, T) = SumFunctionOnSet(g, T)
    BY <1>3, <1>4, <1>5, SumUnfolds
  <1> QED
    BY <1>2, <1>6

-----------------------------------------------------------------------------
\* The sum of a counter is a natural number.
THEOREM SumType ==
    ASSUME NEW S, IsFiniteSet(S), NEW f \in [S -> Nat]
    PROVE  SumFunction(f) \in Nat
  BY SumOnType DEF SumFunction

\* The sum of a counter that changes at one place changes as much.
THEOREM SumChange ==
    ASSUME NEW S, IsFiniteSet(S), NEW f \in [S -> Nat], NEW g \in [S -> Nat],
           NEW y \in S, \A x \in S \ {y} : f[x] = g[x]
    PROVE  SumFunction(g) + f[y] = SumFunction(f) + g[y]
  <1> DEFINE rest(h) == SumFunctionOnSet(h, S \ {y})
  <1>1. IsFiniteSet(S \ {y})
    BY FS_Subset
  <1>2. rest(f) = rest(g) /\ rest(f) \in Nat
    BY <1>1, SumOnSame, SumOnType
  <1>3. SumFunction(f) = f[y] + rest(f) /\ SumFunction(g) = g[y] + rest(g)
    BY SumOnRemove DEF SumFunction
  <1>4. f[y] \in Nat /\ g[y] \in Nat
    OBVIOUS
  <1> HIDE DEF rest
  <1> QED
    BY <1>2, <1>3, <1>4

\* A counter at zero everywhere sums to zero.
THEOREM SumZero ==
    ASSUME NEW S, IsFiniteSet(S), NEW f, DOMAIN f = S, \A x \in S : f[x] = 0
    PROVE  SumFunction(f) = 0
  <1> DEFINE B == {T \in SUBSET S : SumFunctionOnSet(f, T) # 0}
  <1>1. SUFFICES ASSUME B # {} PROVE FALSE
    BY DEF SumFunction
  <1>2. PICK T \in B : \A U \in B : U \subseteq T => U = T
    <2>1. B \in SUBSET (SUBSET S)
      OBVIOUS
    <2> HIDE DEF B
    <2> QED
      BY <1>1, <2>1, SmallestSubset
  <1>3. IsFiniteSet(T) /\ T \subseteq S
    BY FS_Subset
  <1>4. T # {} => Picked(T) \in S /\ AllButPicked(T) \subseteq T /\ AllButPicked(T) # T
    BY <1>3, PickedType DEF AllButPicked
  <1>5. T # {} => SumFunctionOnSet(f, AllButPicked(T)) = 0
    BY <1>2, <1>3, <1>4
  <1>6. SumFunctionOnSet(f, T) = 0
    BY <1>3, <1>4, <1>5, SumUnfolds
  <1> QED
    BY <1>2, <1>6
=============================================================================
