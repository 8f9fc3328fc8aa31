------------------------------ MODULE FoldLoop ------------------------------
(***************************************************************************)
(* What a loop over the elements of a finite set computes, for the proofs  *)
(* about the models' folds.  A fold of the community modules is a function *)
(* defined by recursion on the set; the theorems here give its recursion   *)
(* equation and an induction principle.  The body of the loop is a         *)
(* constant operator: a proof module instantiates this one with the body   *)
(* it wants to reason about, so that every fact it cites is first-order.   *)
(***************************************************************************)
EXTENDS Integers, FiniteSets, Folds, FiniteSetTheorems, WellFoundedInduction, TLAPS

CONSTANTS
    Step(_, _, _),  \* the body: parameters, the element visited, the result so far
    Pick(_)         \* the element visited last

\* Pick chooses from every part of S.
PicksFrom(S) == \A T \in SUBSET S : T # {} => Pick(T) \in T

\* The loop over S, starting from base.
Loop(env, base, S) ==
    MapThenFoldSet(LAMBDA x, acc : Step(env, x, acc), base, LAMBDA x : x, Pick, S)

\* One round: what the loop over T makes of the results for smaller sets.
Round(env, base, f, T) ==
    IF T = {} THEN base ELSE Step(env, Pick(T), f[T \ {Pick(T)}])

\* f is the function a fold is defined by.
Runs(env, base, f, S) == f = [T \in SUBSET S |-> Round(env, base, f, T)]

-----------------------------------------------------------------------------
\* Among sets of subsets of a finite set there is one that contains no other.
LEMMA SmallestSet ==
    ASSUME NEW S, IsFiniteSet(S), NEW Sets, Sets \subseteq SUBSET S, Sets # {}
    PROVE  \E T \in Sets : \A U \in Sets : U \subseteq T => U = T
<1> DEFINE R == StrictSubsetOrdering(S)
<1>1. Sets \subseteq FiniteSubsetsOf(S)
  BY FS_FiniteSubsetsOfFinite
<1>2. PICK T \in Sets : \A U \in Sets : <<U, T>> \notin R
  <2>1. IsWellFoundedOn(R, FiniteSubsetsOf(S))
    BY FS_StrictSubsetOrderingWellFounded
  <2> HIDE DEF R
  <2> QED BY <1>1, <2>1, WFMin
<1>3. ASSUME NEW U \in Sets, U \subseteq T, U # T PROVE FALSE
  <2>1. <<U, T>> \in R
    BY <1>3 DEF StrictSubsetOrdering
  <2> HIDE DEF R
  <2> QED BY <2>1, <1>2
<1> QED BY <1>3

\* A finite set of integers that is not empty has a largest element.
THEOREM LargestElement ==
    ASSUME NEW S, IsFiniteSet(S), S \subseteq Int, S # {}
    PROVE  \E x \in S : \A y \in S : y <= x
<1> DEFINE Above(x) == {y \in S : x < y}
           Sets == {Above(x) : x \in S}
<1>1. \A x \in S : x \in Int
  OBVIOUS
<1>2. Sets \subseteq SUBSET S /\ Sets # {}
  OBVIOUS
<1>3. PICK T \in Sets : \A U \in Sets : U \subseteq T => U = T
  <2> HIDE DEF Sets, Above
  <2>1. \E T \in Sets : \A U \in Sets : U \subseteq T => U = T
    BY ONLY <1>2, IsFiniteSet(S), SmallestSet
  <2> QED BY <2>1
<1>4. PICK x \in S : T = Above(x)
  BY <1>3
<1>5. ASSUME NEW y \in S, x < y PROVE FALSE
  <2>1. \A z \in Above(y) : z \in Above(x)
    BY <1>1, <1>5
  <2>2. y \in Above(x) /\ y \notin Above(y)
    BY <1>1, <1>5
  <2>3. Above(y) \in Sets
    OBVIOUS
  <2> HIDE DEF Sets, Above
  <2> QED BY <1>3, <1>4, <2>1, <2>2, <2>3
<1> QED BY <1>1, <1>5

\* What holds of the empty set, and of a set as soon as it holds of the set
\* without its pick, holds of every part of a finite set: the loop invariant
\* rule for Loop.
THEOREM PickInduction ==
    ASSUME NEW S, IsFiniteSet(S), PicksFrom(S), NEW Good,
           {} \in Good,
           \A T \in SUBSET S : T # {} /\ T \ {Pick(T)} \in Good => T \in Good
    PROVE  SUBSET S \subseteq Good
<1> SUFFICES ASSUME (SUBSET S) \ Good # {} PROVE FALSE
  OBVIOUS
<1>1. PICK T \in (SUBSET S) \ Good : \A U \in (SUBSET S) \ Good : U \subseteq T => U = T
  <2> DEFINE Bad == (SUBSET S) \ Good
  <2>1. Bad \subseteq SUBSET S /\ Bad # {}
    OBVIOUS
  <2> HIDE DEF Bad
  <2>2. \E T \in Bad : \A U \in Bad : U \subseteq T => U = T
    BY <2>1, SmallestSet
  <2> QED BY <2>2 DEF Bad
<1>2. T # {} /\ Pick(T) \in T
  BY DEF PicksFrom
<1>3. T \ {Pick(T)} \in Good
  BY <1>1, <1>2
<1> QED BY <1>2, <1>3

\* The recursion determines its function, on a part of the set too.
LEMMA RunsUnique ==
    ASSUME NEW S, IsFiniteSet(S), PicksFrom(S), NEW env, NEW base,
           NEW f, Runs(env, base, f, S),
           NEW R \in SUBSET S, NEW g, Runs(env, base, g, R)
    PROVE  \A T \in SUBSET R : f[T] = g[T]
<1> DEFINE Good == {T \in SUBSET R : f[T] = g[T]}
<1>1. IsFiniteSet(R) /\ PicksFrom(R)
  BY FS_Subset DEF PicksFrom
<1>2. \A T \in SUBSET R : f[T] = Round(env, base, f, T) /\ g[T] = Round(env, base, g, T)
  BY DEF Runs
<1>3. {} \in Good
  BY <1>2 DEF Round
<1>4. ASSUME NEW T \in SUBSET R, T # {}, T \ {Pick(T)} \in Good PROVE T \in Good
  BY <1>2, <1>4 DEF Round
<1>5. SUBSET R \subseteq Good
  <2> HIDE DEF Good
  <2> QED BY <1>1, <1>3, <1>4, PickInduction
<1> QED BY <1>5

\* There is a function that satisfies the recursion.
LEMMA RunsExist ==
    ASSUME NEW S, IsFiniteSet(S), PicksFrom(S), NEW env, NEW base
    PROVE  \E f : Runs(env, base, f, S)
<1> DEFINE Good == {R \in SUBSET S : \E f : Runs(env, base, f, R)}
           F(R) == CHOOSE f : Runs(env, base, f, R)
<1> SUFFICES ASSUME (SUBSET S) \ Good # {} PROVE FALSE
  OBVIOUS
<1>1. PICK R \in (SUBSET S) \ Good : \A U \in (SUBSET S) \ Good : U \subseteq R => U = R
  <2> DEFINE Bad == (SUBSET S) \ Good
  <2>1. Bad \subseteq SUBSET S /\ Bad # {}
    OBVIOUS
  <2> HIDE DEF Bad
  <2>2. \E R \in Bad : \A U \in Bad : U \subseteq R => U = R
    BY <2>1, SmallestSet
  <2> HIDE DEF Good
  <2> QED BY <2>2 DEF Bad
<1>2. IsFiniteSet(R) /\ PicksFrom(R)
  BY FS_Subset DEF PicksFrom
<1>3. ASSUME NEW U \in SUBSET R, U # R PROVE Runs(env, base, F(U), U)
  <2>1. U \in Good
    <3> HIDE DEF Good
    <3> QED BY <1>1, <1>3
  <2> QED BY <2>1
<1> DEFINE Less(T) == T \ {Pick(T)}
           g == [T \in SUBSET R |-> IF T = {} THEN base ELSE Step(env, Pick(T), F(Less(T))[Less(T)])]
<1>4. ASSUME NEW T \in SUBSET R, T # {} PROVE g[Less(T)] = F(Less(T))[Less(T)]
  <2> DEFINE e == Less(T)
  <2>1. e \in SUBSET R /\ e # R
    BY <1>2, <1>4 DEF PicksFrom
  <2>2. F(e)[e] = Round(env, base, F(e), e)
    <3>1. Runs(env, base, F(e), e)
      BY <2>1, <1>3
    <3> HIDE DEF F
    <3> QED BY <3>1 DEF Runs
  <2>3. CASE e = {}
    BY <2>1, <2>2, <2>3 DEF Round
  <2>4. CASE e # {}
    <3>1. Less(e) \in SUBSET e /\ Less(e) \in SUBSET R /\ Less(e) # R
      BY <2>1
    <3>2. Runs(env, base, F(e), e) /\ Runs(env, base, F(Less(e)), Less(e))
      BY <2>1, <3>1, <1>3
    <3>3. IsFiniteSet(e) /\ PicksFrom(e)
      BY <1>2, <2>1, FS_Subset DEF PicksFrom
    <3>4. F(e)[Less(e)] = F(Less(e))[Less(e)]
      <4> HIDE DEF F, e, Less
      <4>1. \A T1 \in SUBSET Less(e) : F(e)[T1] = F(Less(e))[T1]
        BY <3>1, <3>2, <3>3, RunsUnique
      <4> QED BY <4>1
    <3>5. g[e] = Step(env, Pick(e), F(Less(e))[Less(e)])
      <4> HIDE DEF F, Less, e
      <4> QED BY <2>1, <2>4
    <3>6. F(e)[e] = Step(env, Pick(e), F(e)[Less(e)])
      <4> HIDE DEF F, e
      <4> QED BY <2>2, <2>4 DEF Round
    <3> HIDE DEF F, Less, e, g
    <3>7. g[e] = F(e)[e]
      BY <3>4, <3>5, <3>6
    <3> QED BY <3>7 DEF e
  <2> QED BY <2>3, <2>4
<1>5. Runs(env, base, g, R)
  <2>1. \A T \in SUBSET R : g[T] = Round(env, base, g, T)
    <3> SUFFICES ASSUME NEW T \in SUBSET R PROVE g[T] = Round(env, base, g, T)
      OBVIOUS
    <3>1. CASE T = {}
      BY <3>1 DEF Round
    <3>2. CASE T # {}
      <4>1. g[T] = Step(env, Pick(T), F(Less(T))[Less(T)])
        <5> HIDE DEF F, Less
        <5> QED BY <3>2
      <4>2. g[Less(T)] = F(Less(T))[Less(T)]
        BY <1>4, <3>2
      <4> HIDE DEF F, g
      <4> QED BY <4>1, <4>2, <3>2 DEF Round
    <3> QED BY <3>1, <3>2
  <2>2. g = [T \in SUBSET R |-> g[T]]
    <3> HIDE DEF F, Less
    <3> QED OBVIOUS
  <2> HIDE DEF g
  <2> QED BY <2>1, <2>2 DEF Runs
<1>6. R \in Good
  <2> HIDE DEF g
  <2> QED BY <1>5
<1> QED BY <1>6

\* The fold is such a function applied to the whole set.
LEMMA LoopRuns ==
    ASSUME NEW S, IsFiniteSet(S), PicksFrom(S), NEW env, NEW base
    PROVE  \E f : Runs(env, base, f, S) /\ Loop(env, base, S) = f[S]
<1> DEFINE f == CHOOSE f : f = [T \in SUBSET S |->
                     IF T = {} THEN base ELSE Step(env, Pick(T), f[T \ {Pick(T)}])]
<1>1. Loop(env, base, S) = f[S]
  BY DEF Loop, MapThenFoldSet
<1>2. \E g : g = [T \in SUBSET S |->
                     IF T = {} THEN base ELSE Step(env, Pick(T), g[T \ {Pick(T)}])]
  <2>1. PICK g : Runs(env, base, g, S)
    BY RunsExist
  <2>2. g = [T \in SUBSET S |->
               IF T = {} THEN base ELSE Step(env, Pick(T), g[T \ {Pick(T)}])]
    BY <2>1 DEF Runs, Round
  <2> QED BY <2>2
<1>3. Runs(env, base, f, S)
  BY <1>2 DEF Runs, Round
<1> HIDE DEF f
<1> QED BY <1>1, <1>3

\* A loop over nothing returns what it starts from.
THEOREM LoopEmpty ==
    ASSUME NEW env, NEW base
    PROVE  Loop(env, base, {}) = base
<1>1. IsFiniteSet({}) /\ PicksFrom({})
  BY FS_EmptySet DEF PicksFrom
<1>2. PICK f : Runs(env, base, f, {}) /\ Loop(env, base, {}) = f[{}]
  BY <1>1, LoopRuns
<1> QED BY <1>2 DEF Runs, Round

\* A loop over a set visits all but the pick, then the pick.
THEOREM LoopStep ==
    ASSUME NEW S, IsFiniteSet(S), PicksFrom(S), S # {}, NEW env, NEW base
    PROVE  Loop(env, base, S) = Step(env, Pick(S), Loop(env, base, S \ {Pick(S)}))
<1> DEFINE L == S \ {Pick(S)}
<1>1. IsFiniteSet(L) /\ PicksFrom(L)
  BY FS_Subset DEF PicksFrom
<1>2. PICK f : Runs(env, base, f, S) /\ Loop(env, base, S) = f[S]
  BY LoopRuns
<1>3. PICK g : Runs(env, base, g, L) /\ Loop(env, base, L) = g[L]
  <2> HIDE DEF L
  <2> QED BY <1>1, LoopRuns
<1>4. f[L] = g[L]
  <2>1. L \in SUBSET S
    OBVIOUS
  <2> HIDE DEF L
  <2>2. \A T \in SUBSET L : f[T] = g[T]
    BY <1>2, <1>3, <2>1, RunsUnique
  <2> QED BY <2>2
<1>5. f[S] = Step(env, Pick(S), f[L])
  BY <1>2 DEF Runs, Round
<1> QED BY <1>2, <1>3, <1>4, <1>5

\* Two loops whose bodies agree on what is visited have the same result.
THEOREM LoopAgrees ==
    ASSUME NEW S, IsFiniteSet(S), PicksFrom(S), NEW env, NEW other, NEW base,
           \A x \in S : \A acc : Step(env, x, acc) = Step(other, x, acc)
    PROVE  Loop(env, base, S) = Loop(other, base, S)
<1> DEFINE Good == {T \in SUBSET S : Loop(env, base, T) = Loop(other, base, T)}
<1>1. {} \in Good
  BY LoopEmpty
<1>2. ASSUME NEW T \in SUBSET S, T # {}, T \ {Pick(T)} \in Good PROVE T \in Good
  <2>1. IsFiniteSet(T) /\ PicksFrom(T) /\ Pick(T) \in S
    BY <1>2, FS_Subset DEF PicksFrom
  <2>2. /\ Loop(env, base, T) = Step(env, Pick(T), Loop(env, base, T \ {Pick(T)}))
        /\ Loop(other, base, T) = Step(other, Pick(T), Loop(other, base, T \ {Pick(T)}))
    BY <1>2, <2>1, LoopStep
  <2> QED BY <1>2, <2>1, <2>2
<1>3. SUBSET S \subseteq Good
  <2> HIDE DEF Good
  <2> QED BY <1>1, <1>2, PickInduction
<1> QED BY <1>3

-----------------------------------------------------------------------------
(***************************************************************************)
(* Loops over an interval of numbers, in ascending order: the folds over   *)
(* sequences.                                                              *)
(***************************************************************************)
\* Pick chooses the largest element.
PicksLargest(S) == \A T \in SUBSET S : T # {} => Pick(T) \in T /\ \A y \in T : y <= Pick(T)

\* A loop over one number more visits it after all the others.
THEOREM IntervalStep ==
    ASSUME NEW n \in Nat, PicksLargest(1..(n + 1)), NEW env, NEW other, NEW base,
           \A x \in 1..n : \A acc : Step(env, x, acc) = Step(other, x, acc)
    PROVE  Loop(env, base, 1..(n + 1)) = Step(env, n + 1, Loop(other, base, 1..n))
<1>1. IsFiniteSet(1..(n + 1)) /\ IsFiniteSet(1..n)
  BY FS_Interval
<1>2. PicksFrom(1..(n + 1)) /\ PicksFrom(1..n)
  BY DEF PicksFrom, PicksLargest
<1>3. Pick(1..(n + 1)) = n + 1
  <2>1. n + 1 \in 1..(n + 1)
    OBVIOUS
  <2> DEFINE m == Pick(1..(n + 1))
  <2>2. m \in 1..(n + 1) /\ n + 1 <= m
    BY <2>1 DEF PicksLargest
  <2> HIDE DEF m
  <2>3. m = n + 1
    BY <2>2
  <2> QED BY <2>3 DEF m
<1>4. (1..(n + 1)) \ {n + 1} = 1..n
  OBVIOUS
<1>5. Loop(env, base, 1..(n + 1)) = Step(env, n + 1, Loop(env, base, 1..n))
  <2>1. n + 1 \in 1..(n + 1)
    OBVIOUS
  <2> QED BY <1>1, <1>2, <1>3, <1>4, <2>1, LoopStep
<1>6. Loop(env, base, 1..n) = Loop(other, base, 1..n)
  BY <1>1, <1>2, LoopAgrees
<1> QED BY <1>5, <1>6

\* A set that has zero, and with every number the next, has them all.
THEOREM CountingUp ==
    ASSUME NEW Good, 0 \in Good, \A n \in Nat : n \in Good => n + 1 \in Good
    PROVE  Nat \subseteq Good
<1> SUFFICES ASSUME Nat \ Good # {} PROVE FALSE
  OBVIOUS
<1>1. PICK n \in Nat \ Good : \A m \in Nat \ Good : <<m, n>> \notin OpToRel(<, Nat)
  <2> DEFINE Bad == Nat \ Good
             R == OpToRel(<, Nat)
  <2>1. Bad \subseteq Nat /\ Bad # {} /\ IsWellFoundedOn(R, Nat)
    BY NatLessThanWellFounded
  <2> HIDE DEF Bad, R
  <2>2. \E x \in Bad : \A y \in Bad : <<y, x>> \notin R
    BY <2>1, WFMin
  <2> QED BY <2>2 DEF Bad, R
<1>2. n # 0 /\ n - 1 \in Nat /\ n - 1 < n /\ (n - 1) + 1 = n
  OBVIOUS
<1>3. n - 1 \in Good
  <2>1. <<n - 1, n>> \in OpToRel(<, Nat)
    BY <1>2 DEF OpToRel
  <2> QED BY <1>1, <1>2, <2>1
<1> QED BY <1>2, <1>3
=============================================================================
