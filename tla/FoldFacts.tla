----------------------------- MODULE FoldFacts -----------------------------
(***************************************************************************)
(* Induction over the natural numbers, and what the folds of the community *)
(* modules compute.  MapThenFoldSet works on the set S by choosing an      *)
(* element, folding the rest and combining the two; the sums and loops of  *)
(* the other modules are such folds.  The operators of a fold are          *)
(* constants here, so that an instance of this module has the facts about  *)
(* one particular fold.                                                    *)
(***************************************************************************)
EXTENDS Integers, FiniteSets, FiniteSetTheorems, WellFoundedInduction, TLAPS

CONSTANTS
    Op(_, _),   \* combines the value of an element with the fold of the rest
    Base,       \* the fold of the empty set
    Choose(_)   \* the element of a set that is taken apart

-----------------------------------------------------------------------------
(* Induction.                                                              *)

\* The order of the natural numbers, as a relation.
NatLess == {pair \in Nat \X Nat : pair[1] < pair[2]}

\* The natural numbers are well-founded.
LEMMA NatLessWellFounded == IsWellFoundedOn(NatLess, Nat)
  BY NatLessThanWellFounded, Zenon DEF OpToRel, NatLess

\* A set of natural numbers has a least one.
LEMMA LeastNumber ==
    ASSUME NEW T \in SUBSET Nat, T # {}
    PROVE  \E x \in T : \A y \in T : x <= y
<1>1. PICK x \in T : \A y \in T : ~(<<y, x>> \in NatLess)
  BY NatLessWellFounded, WFMin
<1>2. ASSUME NEW y \in T PROVE x <= y
  <2>1. <<y, x>> \in Nat \X Nat /\ <<y, x>>[1] = y /\ <<y, x>>[2] = x
    OBVIOUS
  <2>2. ~(y < x)
    BY <1>1, <2>1, Zenon DEF NatLess
  <2> QED BY <2>2
<1> QED BY <1>2

\* Induction: a set that has 0 and the successors of its elements has all numbers.
LEMMA Induction ==
    ASSUME NEW T, 0 \in T, \A n \in Nat : n \in T => n + 1 \in T
    PROVE  \A n \in Nat : n \in T
<1> SUFFICES ASSUME NEW m \in Nat, m \notin T PROVE FALSE
  OBVIOUS
<1>1. PICK x \in Nat \ T : \A y \in Nat \ T : x <= y
  BY LeastNumber
<1>2. x # 0 /\ x - 1 \in Nat
  BY <1>1
<1>3. x - 1 \in T
  BY <1>1, <1>2
<1> QED BY <1>1, <1>2, <1>3

-----------------------------------------------------------------------------
(* The function a fold is defined with.                                    *)

\* One step: the set's chosen element and the rest, whose fold g has.
Step(fun, g, s) ==
    IF s = {} THEN Base ELSE Op(fun[Choose(s)], g[s \ {Choose(s)}])

\* The recursive function that MapThenFoldSet applies to S.
Iteration(fun, S) == CHOOSE g : g = [s \in SUBSET S |-> Step(fun, g, s)]

\* A set that a fold can take apart.
Foldable(S) == IsFiniteSet(S) /\ \A s \in SUBSET S : s # {} => Choose(s) \in s

\* A set without its chosen element is smaller.
LEMMA Rest ==
    ASSUME NEW S, Foldable(S), NEW s \in SUBSET S, s # {}
    PROVE  /\ s \ {Choose(s)} \in SUBSET S
           /\ Cardinality(s) \in Nat /\ Cardinality(s \ {Choose(s)}) = Cardinality(s) - 1
  BY FS_Subset, FS_CardinalityType, FS_RemoveElement DEF Foldable

\* A set of subsets of S that has a set when it has the set's rest.
Inductive(P, S) ==
    /\ {} \in P
    /\ \A s \in SUBSET S : s # {} /\ s \ {Choose(s)} \in P => s \in P

\* Induction over the subsets of a finite set, along the choices of the fold.
LEMMA SubsetInduction ==
    ASSUME NEW S, Foldable(S), NEW P, Inductive(P, S)
    PROVE  S \in P
<1> DEFINE T == {n \in Nat : \A s \in SUBSET S : Cardinality(s) = n => s \in P}
<1>1. 0 \in T
  BY FS_Subset, FS_EmptySet DEF Inductive, Foldable
<1>2. ASSUME NEW n \in Nat, n \in T PROVE n + 1 \in T
  <2> SUFFICES ASSUME NEW s \in SUBSET S, Cardinality(s) = n + 1 PROVE s \in P
    OBVIOUS
  <2>1. s # {}
    BY FS_EmptySet
  <2>2. s \ {Choose(s)} \in SUBSET S /\ Cardinality(s \ {Choose(s)}) = n
    BY <2>1, Rest
  <2>3. s \ {Choose(s)} \in P
    BY <1>2, <2>2
  <2> QED BY <2>1, <2>3 DEF Inductive
<1>3. \A n \in Nat : n \in T
  <2> HIDE DEF T
  <2> QED BY <1>1, <1>2, Induction
<1>4. Cardinality(S) \in Nat
  BY FS_CardinalityType DEF Foldable
<1> QED BY <1>3, <1>4

\* A set of subsets of S that has a set when it has the set without any one element.
Removing(P, S) ==
    /\ {} \in P
    /\ \A s \in SUBSET S : s # {} /\ (\A x \in s : s \ {x} \in P) => s \in P

\* Induction over the subsets of a finite set, whichever element is taken away.
LEMMA RemovalInduction ==
    ASSUME NEW S, IsFiniteSet(S), NEW P, Removing(P, S)
    PROVE  S \in P
<1> DEFINE T == {n \in Nat : \A s \in SUBSET S : Cardinality(s) = n => s \in P}
<1>1. 0 \in T
  BY FS_Subset, FS_EmptySet DEF Removing
<1>2. ASSUME NEW n \in Nat, n \in T PROVE n + 1 \in T
  <2> SUFFICES ASSUME NEW s \in SUBSET S, Cardinality(s) = n + 1 PROVE s \in P
    OBVIOUS
  <2>1. s # {} /\ IsFiniteSet(s)
    BY FS_EmptySet, FS_Subset
  <2>2. ASSUME NEW x \in s PROVE s \ {x} \in P
    <3> DEFINE rest == s \ {x}
    <3>1. rest \in SUBSET S
      OBVIOUS
    <3>2. Cardinality(rest) = Cardinality(s) - 1
      BY <2>1, FS_RemoveElement
    <3> HIDE DEF rest
    <3>3. rest \in P
      BY <1>2, <3>1, <3>2
    <3> QED BY <3>3 DEF rest
  <2> QED BY <2>1, <2>2 DEF Removing
<1>3. \A n \in Nat : n \in T
  <2> HIDE DEF T
  <2> QED BY <1>1, <1>2, Induction
<1>4. Cardinality(S) \in Nat
  BY FS_CardinalityType
<1> QED BY <1>3, <1>4

\* The recursion is well-defined on a finite set.
LEMMA IterationDef ==
    ASSUME NEW fun, NEW S, Foldable(S)
    PROVE  \A s \in SUBSET S : Iteration(fun, S)[s] = Step(fun, Iteration(fun, S), s)
<1> DEFINE Upto(n) == {s \in SUBSET S : Cardinality(s) <= n}
           T == {n \in Nat : \E g : \A s \in Upto(n) : g[s] = Step(fun, g, s)}
<1>1. 0 \in T
  <2> DEFINE g == [s \in SUBSET S |-> Base]
  <2>1. \A s \in Upto(0) : s = {}
    BY FS_Subset, FS_EmptySet, FS_CardinalityType DEF Foldable
  <2>2. \A s \in Upto(0) : g[s] = Step(fun, g, s)
    BY <2>1 DEF Step
  <2> QED BY <2>2
<1>2. ASSUME NEW n \in Nat, n \in T PROVE n + 1 \in T
  <2>1. PICK g : \A s \in Upto(n) : g[s] = Step(fun, g, s)
    BY <1>2
  <2> DEFINE h == [s \in SUBSET S |-> IF s \in Upto(n) THEN g[s] ELSE Step(fun, g, s)]
  <2>2. ASSUME NEW s \in Upto(n + 1) PROVE h[s] = Step(fun, h, s)
    <3>1. h[s] = Step(fun, g, s)
      BY <2>1
    <3>2. CASE s = {}
      BY <3>1, <3>2 DEF Step
    <3>3. CASE s # {}
      <4>1. s \ {Choose(s)} \in Upto(n)
        BY <3>3, Rest
      <4>2. h[s \ {Choose(s)}] = g[s \ {Choose(s)}]
        BY <4>1
      <4> QED BY <3>1, <3>3, <4>2 DEF Step
    <3> QED BY <3>2, <3>3
  <2> HIDE DEF h
  <2> QED BY <2>2
<1>3. \A n \in Nat : n \in T
  <2> HIDE DEF T
  <2> QED BY <1>1, <1>2, Induction
<1>4. PICK g : \A s \in Upto(Cardinality(S)) : g[s] = Step(fun, g, s)
  BY <1>3, FS_CardinalityType DEF Foldable
<1>5. \A s \in SUBSET S : s \in Upto(Cardinality(S))
  BY FS_Subset, FS_CardinalityType DEF Foldable
<1> DEFINE h == [s \in SUBSET S |-> g[s]]
<1>6. h = [s \in SUBSET S |-> Step(fun, h, s)]
  <2>1. ASSUME NEW s \in SUBSET S PROVE h[s] = Step(fun, h, s)
    <3>1. h[s] = Step(fun, g, s)
      BY <1>4, <1>5
    <3>2. s # {} => h[s \ {Choose(s)}] = g[s \ {Choose(s)}]
      OBVIOUS
    <3> QED BY <3>1, <3>2 DEF Step
  <2> HIDE DEF h
  <2>2. h = [s \in SUBSET S |-> h[s]]
    BY DEF h
  <2> QED BY <2>1, <2>2
<1> DEFINE fold == Iteration(fun, S)
<1>7. fold = [s \in SUBSET S |-> Step(fun, fold, s)]
  BY <1>6 DEF Iteration
<1> HIDE DEF fold
<1>8. \A s \in SUBSET S : fold[s] = Step(fun, fold, s)
  BY <1>7
<1> QED BY <1>8 DEF fold

\* The values of a fold over S on the subsets of S.
IsFold(fun, S, fold) ==
    /\ fold[{}] = Base
    /\ \A s \in SUBSET S :
           s # {} => Choose(s) \in s /\ fold[s] = Op(fun[Choose(s)], fold[s \ {Choose(s)}])

\* What MapThenFoldSet computes.
LEMMA FoldDef ==
    ASSUME NEW fun, NEW S, Foldable(S)
    PROVE  IsFold(fun, S, Iteration(fun, S))
<1> DEFINE fold == Iteration(fun, S)
<1>1. \A s \in SUBSET S : fold[s] = Step(fun, fold, s)
  BY IterationDef
<1> HIDE DEF fold
<1>2. IsFold(fun, S, fold)
  BY <1>1 DEF Step, IsFold, Foldable
<1> QED BY <1>2 DEF fold

-----------------------------------------------------------------------------
(* Loops over a sequence: FoldLeft takes the highest index apart first.    *)

\* A set of indices has a highest one.
LEMMA HighestIndex ==
    ASSUME NEW n \in Nat, NEW s \in SUBSET (1 .. n), s # {}
    PROVE  \E x \in s : \A y \in s : x >= y
<1> DEFINE T == {n - y : y \in s}
<1>1. T \in SUBSET Nat /\ T # {}
  <2>1. PICK x : x \in s
    OBVIOUS
  <2>2. n - x \in T
    BY <2>1
  <2>3. ASSUME NEW y \in s PROVE n - y \in Nat
    <3>1. y \in 1 .. n
      OBVIOUS
    <3> QED BY <3>1
  <2> QED BY <2>2, <2>3
<1>2. PICK t \in T : \A u \in T : t <= u
  BY <1>1, LeastNumber
<1>3. PICK x \in s : t = n - x
  BY <1>2
<1>4. ASSUME NEW y \in s PROVE x >= y
  <2>1. n - x <= n - y
    BY <1>2, <1>3
  <2> QED BY <2>1
<1> QED BY <1>4

\* What FoldLeft chooses.
TakesHighest(n) ==
    \A s \in SUBSET (1 .. n) : s # {} => Choose(s) \in s /\ \A y \in s : Choose(s) >= y

\* A loop with a round for each element of seq, and its result.
LoopGives(seq, n, result) ==
    \E after : /\ after[0] = Base
               /\ \A i \in 1 .. n : after[i] = Op(seq[i], after[i - 1])
               /\ result = after[n]

\* The fold over 1 .. n is what the loop has after its n-th round.
LEMMA LoopDef ==
    ASSUME NEW seq, NEW n \in Nat, TakesHighest(n)
    PROVE  LoopGives(seq, n, Iteration(seq, 1 .. n)[1 .. n])
<1> USE DEF TakesHighest
<1> DEFINE fold == Iteration(seq, 1 .. n)
           after == [i \in 0 .. n |-> fold[1 .. i]]
<1>1. \A s \in SUBSET (1 .. n) : fold[s] = Step(seq, fold, s)
  <2> DEFINE S == 1 .. n
  <2>1. Foldable(S)
    BY FS_Interval DEF Foldable
  <2> HIDE DEF S
  <2>2. \A s \in SUBSET S : fold[s] = Step(seq, fold, s)
    BY <2>1, IterationDef DEF S
  <2> QED BY <2>2 DEF S
<1> HIDE DEF fold
<1>2. after[0] = Base
  <2>1. 1 .. 0 = {} /\ 1 .. 0 \in SUBSET (1 .. n)
    OBVIOUS
  <2>2. fold[1 .. 0] = Step(seq, fold, 1 .. 0)
    BY <1>1, <2>1
  <2> QED BY <2>1, <2>2 DEF Step
<1>3. ASSUME NEW i \in 1 .. n PROVE after[i] = Op(seq[i], after[i - 1])
  <2>1. 1 .. i \in SUBSET (1 .. n) /\ i \in 1 .. i
    OBVIOUS
  <2>2. Choose(1 .. i) = i
    <3>1. Choose(1 .. i) \in 1 .. i /\ Choose(1 .. i) >= i
      BY <2>1
    <3> QED BY <3>1
  <2>3. (1 .. i) \ {i} = 1 .. i - 1
    OBVIOUS
  <2>4. fold[1 .. i] = Step(seq, fold, 1 .. i)
    BY <1>1, <2>1
  <2>5. fold[1 .. i] = Op(seq[i], fold[1 .. i - 1])
    BY <2>1, <2>2, <2>3, <2>4 DEF Step
  <2> QED BY <2>5
<1>4. fold[1 .. n] = after[n]
  OBVIOUS
<1> HIDE DEF after
<1> QED BY <1>2, <1>3, <1>4 DEF fold, LoopGives
=============================================================================
