----------------------------- MODULE SumTheorems -----------------------------
(***************************************************************************)
(* What sums over finite sets are: they take out any element, they are      *)
(* amounts if what they add is, and they follow a change of one value.  The *)
(* library defines them by a recursive function that takes elements in an   *)
(* order of its own, so that each fact is proved by the least set that      *)
(* violates it.                                                             *)
(***************************************************************************)
EXTENDS Sums, FiniteSetTheorems, WellFoundedInduction, TLAPS

\* The element a sum takes next, and what it makes of the sums of the rest.
SumPick(s) == CHOOSE x \in s : TRUE

SumStep(f, g, s) == IF s = {} THEN 0 ELSE f[SumPick(s)] + g[s \ {SumPick(s)}]

\* The recursive function on the subsets of a set.
SumSolves(f, g, S) == g = [s \in SUBSET S |-> SumStep(f, g, s)]

SumSolution(f, S) == CHOOSE g : SumSolves(f, g, S)

LEMMA SumUnfolds ==
  ASSUME NEW f, NEW S
  PROVE  SumOver(f, S) = SumSolution(f, S)[S]
BY DEF SumOver, MapThenSumSet, MapThenFoldSet, SumStep, SumPick, SumSolution, SumSolves

\* Among sets there is one that none of the others is a part of.
LEMMA LeastSet ==
  ASSUME NEW S, IsFiniteSet(S), NEW B \in SUBSET SUBSET S, B # {}
  PROVE  \E T \in B : \A U \in B : U \subseteq T => U = T
<1> DEFINE R == StrictSubsetOrdering(S)
<1>1. IsWellFoundedOn(R, SUBSET S)
  BY FS_StrictSubsetOrderingWellFounded, FS_FiniteSubsetsOfFinite
<1> HIDE DEF R
<1>2. PICK T \in B : \A U \in B : ~(<<U, T>> \in R)
  BY <1>1, WFMin
<1>3. ASSUME NEW U \in B, U \subseteq T, U # T PROVE <<U, T>> \in R
  BY <1>3 DEF R, StrictSubsetOrdering
<1>4. \A U \in B : U \subseteq T => U = T
  BY <1>2, <1>3
<1> QED
  BY <1>4

LEMMA PickIsIn == \A s : s # {} => SumPick(s) \in s
BY DEF SumPick

\* A solution for a set, cut down to a part of it, is one for the part.
LEMMA SolutionOfPart ==
  ASSUME NEW f, NEW S, NEW g, SumSolves(f, g, S), NEW T \in SUBSET S
  PROVE  SumSolves(f, [s \in SUBSET T |-> g[s]], T)
<1> DEFINE h == [s \in SUBSET T |-> g[s]]
<1>1. \A s \in SUBSET T : h[s] = SumStep(f, h, s)
  <2> SUFFICES ASSUME NEW s \in SUBSET T PROVE g[s] = SumStep(f, h, s)
    OBVIOUS
  <2>1. g[s] = SumStep(f, g, s)
    BY DEF SumSolves
  <2>2. s \ {SumPick(s)} \in SUBSET T
    OBVIOUS
  <2> QED
    BY <2>1, <2>2 DEF SumStep
<1>2. h = [s \in SUBSET T |-> SumStep(f, h, s)]
  BY <1>1
<1> QED
  BY <1>2 DEF SumSolves

\* There is one solution at most.
LEMMA SolutionIsUnique ==
  ASSUME NEW f, NEW S, IsFiniteSet(S), NEW g, SumSolves(f, g, S), NEW h, SumSolves(f, h, S)
  PROVE  g = h
<1> DEFINE B == {s \in SUBSET S : g[s] # h[s]}
<1>1. /\ \A s \in SUBSET S : g[s] = SumStep(f, g, s) /\ h[s] = SumStep(f, h, s)
      /\ DOMAIN g = SUBSET S /\ DOMAIN h = SUBSET S
      /\ g = [s \in SUBSET S |-> g[s]] /\ h = [s \in SUBSET S |-> h[s]]
  BY DEF SumSolves
<1>2. ASSUME B # {} PROVE FALSE
  <2>1. PICK T \in B : \A U \in B : U \subseteq T => U = T
    <3>1. B \in SUBSET SUBSET S /\ B # {}
      BY <1>2
    <3> HIDE DEF B
    <3> QED
      BY <3>1, LeastSet
  <2>2. T # {} /\ g[T \ {SumPick(T)}] # h[T \ {SumPick(T)}]
    BY <1>1, <2>1 DEF SumStep
  <2>3. SumPick(T) \in T /\ T \ {SumPick(T)} \in SUBSET S
    BY <2>1, <2>2, PickIsIn
  <2> QED
    BY <2>1, <2>2, <2>3
<1>3. \A s \in SUBSET S : g[s] = h[s]
  BY <1>2
<1> QED
  BY <1>1, <1>3


\* There is one.
LEMMA SolutionExists ==
  ASSUME NEW f, NEW S, IsFiniteSet(S)
  PROVE  \E g : SumSolves(f, g, S)
<1> DEFINE B == {T \in SUBSET S : ~\E g : SumSolves(f, g, T)}
<1>1. ASSUME B # {} PROVE FALSE
  <2>1. PICK T \in B : \A U \in B : U \subseteq T => U = T
    <3>1. B \in SUBSET SUBSET S /\ B # {}
      BY <1>1
    <3> HIDE DEF B
    <3> QED
      BY <3>1, LeastSet
  <2>2. \A U \in SUBSET T : U # T => SumSolves(f, SumSolution(f, U), U) /\ IsFiniteSet(U)
    <3> SUFFICES ASSUME NEW U \in SUBSET T, U # T
                 PROVE  SumSolves(f, SumSolution(f, U), U) /\ IsFiniteSet(U)
      OBVIOUS
    <3>1. U \in SUBSET S /\ U \notin B
      BY <2>1
    <3>2. \E g : SumSolves(f, g, U)
      BY <3>1
    <3>3. IsFiniteSet(U)
      BY <3>1, FS_Subset
    <3> QED
      BY <3>2, <3>3 DEF SumSolution
  <2> DEFINE V == [U \in SUBSET T |-> SumSolution(f, U)[U]]
             h == [s \in SUBSET T |-> SumStep(f, V, s)]
  <2>3. \A U \in SUBSET T : U # T => V[U] = SumStep(f, V, U)
    <3> SUFFICES ASSUME NEW U \in SUBSET T, U # T PROVE V[U] = SumStep(f, V, U)
      OBVIOUS
    <3>1. V[U] = SumSolution(f, U)[U] /\ SumSolves(f, SumSolution(f, U), U)
      BY <2>2
    <3>2. V[U] = SumStep(f, SumSolution(f, U), U)
      BY <3>1 DEF SumSolves
    <3>3. CASE U = {}
      BY <3>2, <3>3 DEF SumStep
    <3>4. CASE U # {}
      <4> DEFINE W == U \ {SumPick(U)}
      <4>1. W \in SUBSET T /\ W # T /\ W \in SUBSET U /\ SumPick(U) \in U
        BY <3>4, PickIsIn
      <4>2. SumSolves(f, SumSolution(f, W), W) /\ IsFiniteSet(W)
        BY <2>2, <4>1
      <4>3. SumSolves(f, [s \in SUBSET W |-> SumSolution(f, U)[s]], W)
        BY <3>1, <4>1, SolutionOfPart
      <4>4. SumSolution(f, W) = [s \in SUBSET W |-> SumSolution(f, U)[s]]
        BY <4>2, <4>3, SolutionIsUnique
      <4>5. SumSolution(f, U)[W] = V[W]
        BY <4>1, <4>4
      <4> QED
        BY <3>2, <3>4, <4>5 DEF SumStep
    <3> QED
      BY <3>3, <3>4
  <2>4. \A s \in SUBSET T : h[s] = SumStep(f, h, s)
    <3> SUFFICES ASSUME NEW s \in SUBSET T PROVE SumStep(f, V, s) = SumStep(f, h, s)
      OBVIOUS
    <3>1. CASE s = {}
      BY <3>1 DEF SumStep
    <3>2. CASE s # {}
      <4>1. s \ {SumPick(s)} \in SUBSET T /\ s \ {SumPick(s)} # T
        BY <3>2, PickIsIn
      <4>2. h[s \ {SumPick(s)}] = V[s \ {SumPick(s)}]
        BY <2>3, <4>1
      <4> QED
        BY <4>2 DEF SumStep
    <3> QED
      BY <3>1, <3>2
  <2>5. h = [s \in SUBSET T |-> SumStep(f, h, s)]
    BY <2>4
  <2> HIDE DEF h
  <2>6. SumSolves(f, h, T)
    BY <2>5 DEF SumSolves
  <2> QED
    BY <2>1, <2>6
<1>2. S \notin B
  BY <1>1
<1> QED
  BY <1>2

LEMMA SolutionSolves ==
  ASSUME NEW f, NEW S, IsFiniteSet(S)
  PROVE  SumSolves(f, SumSolution(f, S), S)
BY SolutionExists DEF SumSolution

------------------------------------------------------------------------------
(* What a sum is *)

\* Nothing adds up to nothing.
LEMMA SumOfNothing ==
  ASSUME NEW f
  PROVE  SumOver(f, {}) = 0
<1>1. SumSolves(f, SumSolution(f, {}), {})
  BY SolutionSolves, FS_EmptySet
<1>2. SumSolution(f, {})[{}] = SumStep(f, SumSolution(f, {}), {})
  BY <1>1 DEF SumSolves
<1> QED
  BY <1>2, SumUnfolds DEF SumStep

\* The sum takes the element it picks, and the sum of the others.
LEMMA SumTakesPick ==
  ASSUME NEW f, NEW S, IsFiniteSet(S), S # {}
  PROVE  /\ SumPick(S) \in S
         /\ SumOver(f, S) = f[SumPick(S)] + SumOver(f, S \ {SumPick(S)})
<1> DEFINE T == S \ {SumPick(S)}
           g == SumSolution(f, S)
<1>1. SumSolves(f, g, S)
  BY SolutionSolves
<1>2. T \in SUBSET S /\ IsFiniteSet(T)
  BY FS_Subset
<1>3. SumSolves(f, [s \in SUBSET T |-> g[s]], T)
  BY <1>1, <1>2, SolutionOfPart
<1>4. SumSolves(f, SumSolution(f, T), T)
  BY <1>2, SolutionSolves
<1>5. SumSolution(f, T) = [s \in SUBSET T |-> g[s]]
  BY <1>2, <1>3, <1>4, SolutionIsUnique
<1>6. SumSolution(f, T)[T] = g[T]
  BY <1>5
<1>7. g[S] = SumStep(f, g, S)
  BY <1>1 DEF SumSolves
<1>8. SumOver(f, S) = g[S] /\ SumOver(f, T) = SumSolution(f, T)[T]
  BY SumUnfolds
<1> QED
  BY <1>6, <1>7, <1>8, PickIsIn DEF SumStep

\* Sums of whole numbers are whole, and any element can be taken first.
THEOREM SumTakesAny ==
  ASSUME NEW S, IsFiniteSet(S), NEW f, \A x \in S : f[x] \in Int
  PROVE  /\ SumOver(f, S) \in Int
         /\ \A x \in S : /\ SumOver(f, S \ {x}) \in Int
                         /\ SumOver(f, S) = f[x] + SumOver(f, S \ {x})
<1> DEFINE Whole(T) == SumOver(f, T) \in Int
           Takes(T) == \A x \in T : SumOver(f, T) = f[x] + SumOver(f, T \ {x})
           B == {T \in SUBSET S : ~(Whole(T) /\ Takes(T))}
<1>1. ASSUME B # {} PROVE FALSE
  <2>1. PICK T \in B : \A U \in B : U \subseteq T => U = T
    <3>1. B \in SUBSET SUBSET S /\ B # {}
      BY <1>1
    <3> HIDE DEF B
    <3> QED
      BY <3>1, LeastSet
  <2>2. \A U \in SUBSET T : U # T => Whole(U) /\ Takes(U)
    BY <2>1
  <2>3. T # {}
    <3>1. Whole({}) /\ Takes({})
      BY SumOfNothing
    <3> QED
      BY <2>1, <3>1
  <2> DEFINE p == SumPick(T)
  <2>4. IsFiniteSet(T)
    BY <2>1, FS_Subset
  <2>5. p \in T /\ SumOver(f, T) = f[p] + SumOver(f, T \ {p})
    BY <2>3, <2>4, SumTakesPick
  <2> HIDE DEF p
  <2>6. Whole(T \ {p}) /\ f[p] \in Int
    BY <2>1, <2>2, <2>5
  <2>7. Whole(T)
    BY <2>5, <2>6
  <2>8. ASSUME NEW x \in T PROVE SumOver(f, T) = f[x] + SumOver(f, T \ {x})
    <3>1. CASE x = p
      BY <2>5, <3>1
    <3>2. CASE x # p
      <4> DEFINE W == (T \ {p}) \ {x}
      <4>1. SumOver(f, T \ {p}) = f[x] + SumOver(f, W)
        BY <2>2, <2>5, <2>8, <3>2
      <4>2. (T \ {x}) \ {p} = W /\ W \in SUBSET T /\ W # T
        BY <2>5
      <4>3. SumOver(f, T \ {x}) = f[p] + SumOver(f, W)
        BY <2>2, <2>5, <2>8, <3>2, <4>2
      <4>4. Whole(W) /\ f[x] \in Int
        BY <2>1, <2>2, <2>8, <4>2
      <4> HIDE DEF W
      <4> QED
        BY <2>5, <2>6, <4>1, <4>3, <4>4
    <3> QED
      BY <3>1, <3>2
  <2> QED
    BY <2>1, <2>7, <2>8
<1>2. \A T \in SUBSET S : Whole(T) /\ Takes(T)
  BY <1>1
<1> QED
  BY <1>2

\* Sums of amounts are amounts.
THEOREM SumOfAmounts ==
  ASSUME NEW S, IsFiniteSet(S), NEW f, \A x \in S : f[x] \in Nat
  PROVE  /\ SumOver(f, S) \in Nat
         /\ \A x \in S : f[x] <= SumOver(f, S)
<1> DEFINE B == {T \in SUBSET S : SumOver(f, T) \notin Nat}
<1>1. \A T \in SUBSET S : \A x \in T :
         /\ SumOver(f, T) = f[x] + SumOver(f, T \ {x})
         /\ T \ {x} \in SUBSET S
  <2> SUFFICES ASSUME NEW T \in SUBSET S, NEW x \in T
               PROVE  SumOver(f, T) = f[x] + SumOver(f, T \ {x})
    OBVIOUS
  <2>1. IsFiniteSet(T) /\ \A y \in T : f[y] \in Int
    BY FS_Subset
  <2> QED
    BY <2>1, SumTakesAny
<1>2. ASSUME B # {} PROVE FALSE
  <2>1. PICK T \in B : \A U \in B : U \subseteq T => U = T
    <3>1. B \in SUBSET SUBSET S /\ B # {}
      BY <1>2
    <3> HIDE DEF B
    <3> QED
      BY <3>1, LeastSet
  <2>2. T # {}
    <3>1. SumOver(f, {}) = 0 /\ SumOver(f, T) \notin Nat
      BY <2>1, SumOfNothing
    <3> QED
      BY <3>1
  <2>3. PICK x \in T : TRUE
    BY <2>2
  <2>4. SumOver(f, T \ {x}) \in Nat
    BY <2>1, <2>3
  <2>5. SumOver(f, T) = f[x] + SumOver(f, T \ {x}) /\ f[x] \in Nat
    BY <1>1, <2>1, <2>3
  <2> QED
    BY <2>1, <2>4, <2>5
<1>3. \A T \in SUBSET S : SumOver(f, T) \in Nat
  BY <1>2
<1>4. ASSUME NEW x \in S PROVE f[x] <= SumOver(f, S)
  <2>1. SumOver(f, S) = f[x] + SumOver(f, S \ {x}) /\ SumOver(f, S \ {x}) \in Nat
    BY <1>1, <1>3, <1>4
  <2> QED
    BY <1>4, <2>1
<1> QED
  BY <1>3, <1>4

\* Where nothing is anywhere, the sum is nothing.
LEMMA SumOfNoughts ==
  ASSUME NEW S, IsFiniteSet(S), NEW f, \A x \in S : f[x] = 0
  PROVE  SumOver(f, S) = 0
<1> DEFINE B == {T \in SUBSET S : SumOver(f, T) # 0}
<1>1. SUFFICES ASSUME B # {} PROVE FALSE
  <2>1. S \in SUBSET S
    OBVIOUS
  <2> QED
    BY <1>1, <2>1
<1>2. PICK T \in B : \A U \in B : U \subseteq T => U = T
  <2>1. B \in SUBSET SUBSET S /\ B # {}
    BY <1>1
  <2> HIDE DEF B
  <2> QED
    BY <2>1, LeastSet
<1>3. T \in SUBSET S /\ SumOver(f, T) # 0
  BY <1>2
<1>4. PICK x \in T : TRUE
  BY <1>3, SumOfNothing
<1>5. IsFiniteSet(T) /\ \A y \in T : f[y] \in Int
  BY <1>3, FS_Subset
<1>6. SumOver(f, T) = f[x] + SumOver(f, T \ {x})
  BY <1>4, <1>5, SumTakesAny
<1>7. SumOver(f, T \ {x}) = 0
  <2>1. T \ {x} \in SUBSET S /\ T \ {x} \subseteq T /\ T \ {x} # T
    BY <1>3, <1>4
  <2> QED
    BY <1>2, <2>1
<1>8. f[x] = 0
  BY <1>3, <1>4
<1> QED
  BY <1>3, <1>6, <1>7, <1>8

\* Two functions that agree on a set add up to the same.
THEOREM SumsAgree ==
  ASSUME NEW S, IsFiniteSet(S), NEW f, NEW g, \A x \in S : f[x] \in Int /\ f[x] = g[x]
  PROVE  SumOver(f, S) = SumOver(g, S)
<1> DEFINE B == {T \in SUBSET S : SumOver(f, T) # SumOver(g, T)}
<1>1. ASSUME B # {} PROVE FALSE
  <2>1. PICK T \in B : \A U \in B : U \subseteq T => U = T
    <3>1. B \in SUBSET SUBSET S /\ B # {}
      BY <1>1
    <3> HIDE DEF B
    <3> QED
      BY <3>1, LeastSet
  <2>2. T # {}
    BY <2>1, SumOfNothing
  <2>3. PICK x \in T : TRUE
    BY <2>2
  <2>4. SumOver(f, T \ {x}) = SumOver(g, T \ {x})
    BY <2>1, <2>3
  <2>5. IsFiniteSet(T) /\ \A y \in T : f[y] \in Int /\ g[y] \in Int
    BY <2>1, FS_Subset
  <2>6. /\ SumOver(f, T) = f[x] + SumOver(f, T \ {x})
        /\ SumOver(g, T) = g[x] + SumOver(g, T \ {x})
    BY <2>3, <2>5, SumTakesAny
  <2> QED
    BY <2>1, <2>3, <2>4, <2>6
<1>2. S \notin B
  BY <1>1
<1> QED
  BY <1>2

\* One more element adds what it is worth.
LEMMA SumWithOneMore ==
  ASSUME NEW S, IsFiniteSet(S), NEW x, x \notin S,
         NEW f, \A y \in S \cup {x} : f[y] \in Int
  PROVE  SumOver(f, S \cup {x}) = SumOver(f, S) + f[x] /\ SumOver(f, S) \in Int
<1> DEFINE T == S \cup {x}
<1>1. IsFiniteSet(T) /\ x \in T /\ T \ {x} = S
  BY FS_AddElement
<1>2. \A y \in T : f[y] \in Int
  OBVIOUS
<1> HIDE DEF T
<1>3. SumOver(f, T) = f[x] + SumOver(f, S) /\ SumOver(f, S) \in Int
  BY <1>1, <1>2, SumTakesAny
<1>4. f[x] \in Int
  BY <1>1, <1>2
<1> QED
  BY <1>3, <1>4 DEF T

\* A change of one value changes the sum by as much.
LEMMA SumWithOneChange ==
  ASSUME NEW S, IsFiniteSet(S), NEW x \in S, NEW f, NEW g,
         \A y \in S : f[y] \in Int /\ g[y] \in Int /\ (y # x => g[y] = f[y])
  PROVE  SumOver(g, S) = SumOver(f, S) - f[x] + g[x] /\ SumOver(f, S) \in Int
<1>1. SumOver(f, S) = f[x] + SumOver(f, S \ {x}) /\ SumOver(f, S \ {x}) \in Int
  BY SumTakesAny
<1>2. SumOver(g, S) = g[x] + SumOver(g, S \ {x})
  BY SumTakesAny
<1>3. SumOver(g, S \ {x}) = SumOver(f, S \ {x})
  <2>1. IsFiniteSet(S \ {x}) /\ \A y \in S \ {x} : f[y] \in Int /\ f[y] = g[y]
    BY FS_RemoveElement
  <2> QED
    BY <2>1, SumsAgree
<1> QED
  BY <1>1, <1>2, <1>3

\* A sum of no more, and no larger, amounts is no larger.
THEOREM SumOfLess ==
  ASSUME NEW S, IsFiniteSet(S), NEW R \in SUBSET S, NEW f, NEW g,
         \A x \in S : f[x] \in Nat, \A x \in R : g[x] \in Nat /\ g[x] <= f[x]
  PROVE  SumOver(g, R) <= SumOver(f, S) /\ SumOver(g, R) \in Nat /\ SumOver(f, S) \in Nat
<1> DEFINE B == {T \in SUBSET S : ~(SumOver(g, T \cap R) <= SumOver(f, T))}
<1>1. ASSUME NEW T \in SUBSET S
      PROVE  /\ IsFiniteSet(T) /\ IsFiniteSet(T \cap R)
             /\ SumOver(f, T) \in Nat /\ SumOver(g, T \cap R) \in Nat
             /\ \A x \in T : f[x] \in Int
             /\ \A x \in T \cap R : g[x] \in Int
  <2>1. IsFiniteSet(T) /\ IsFiniteSet(T \cap R)
    BY FS_Subset
  <2>2. \A x \in T : f[x] \in Nat
    OBVIOUS
  <2>3. \A x \in T \cap R : g[x] \in Nat
    OBVIOUS
  <2>4. SumOver(f, T) \in Nat
    BY <2>1, <2>2, SumOfAmounts
  <2>5. SumOver(g, T \cap R) \in Nat
    BY <2>1, <2>3, SumOfAmounts
  <2> QED
    BY <2>1, <2>2, <2>3, <2>4, <2>5
<1>2. ASSUME B # {} PROVE FALSE
  <2>1. PICK T \in B : \A U \in B : U \subseteq T => U = T
    <3>1. B \in SUBSET SUBSET S /\ B # {}
      BY <1>2
    <3> HIDE DEF B
    <3> QED
      BY <3>1, LeastSet
  <2>2. T \in SUBSET S /\ ~(SumOver(g, T \cap R) <= SumOver(f, T))
    BY <2>1
  <2>3. T # {}
    <3>1. SumOver(f, {}) = 0 /\ SumOver(g, {}) = 0 /\ {} \cap R = {}
      BY SumOfNothing
    <3>2. SumOver(g, {} \cap R) <= SumOver(f, {})
      BY ONLY <3>1
    <3> QED
      BY ONLY <2>2, <3>2
  <2>4. PICK x \in T : TRUE
    BY <2>3
  <2> DEFINE U == T \ {x}
  <2>5. U \in SUBSET S /\ U \subseteq T /\ U # T
    BY <2>2
  <2>6. SumOver(g, U \cap R) <= SumOver(f, U)
    BY <2>1, <2>5
  <2>7. /\ SumOver(f, T) = f[x] + SumOver(f, U)
        /\ f[x] \in Nat /\ SumOver(f, U) \in Nat /\ SumOver(g, U \cap R) \in Nat
    BY <1>1, <2>2, <2>5, SumTakesAny
  <2>8. CASE x \in R
    <3>1. (T \cap R) \ {x} = U \cap R /\ x \in T \cap R
      BY <2>8
    <3>2. SumOver(g, T \cap R) = g[x] + SumOver(g, U \cap R)
      BY <1>1, <2>2, <3>1, SumTakesAny
    <3>3. g[x] \in Nat /\ g[x] <= f[x]
      BY <2>8
    <3> HIDE DEF U, B
    <3> QED
      BY <2>2, <2>6, <2>7, <3>2, <3>3
  <2>9. CASE x \notin R
    <3>1. T \cap R = U \cap R
      BY <2>9
    <3> HIDE DEF U, B
    <3> QED
      BY <2>2, <2>6, <2>7, <3>1
  <2> QED
    BY <2>8, <2>9
<1>3. S \notin B /\ S \cap R = R
  BY <1>2
<1> QED
  BY <1>1, <1>3

==============================================================================
