---------------------------- MODULE FiguresProofs ---------------------------
(***************************************************************************)
(* Proofs about the figures the registers show: the loss of a risk, the    *)
(* mail of its rise over the appetite and the money the heat map makes of  *)
(* it (RiskEvents), the quality of an AI system and the completeness of    *)
(* what it is computed from (AiPanel), the scores two screens show of the  *)
(* same quarters (Dashboards), and the money kept of a failure             *)
(* (FailureCosts). For every number of failures, measures, recomputations, *)
(* experts, systems, quarters and requests, and all amounts.               *)
(***************************************************************************)
EXTENDS RiskEvents, AiPanel, Dashboards, FailureCosts, TLAPS, FiniteSetTheorems, FunctionTheorems, SequenceTheorems,
        WellFoundedInduction

-----------------------------------------------------------------------------
(***************************************************************************)
(* Sums and products over finite sets. A fold of the community modules     *)
(* takes the element its set picks and folds the others, through a         *)
(* function chosen to do so; that there is one, and only one, on the       *)
(* subsets of a finite set follows from taking a smallest subset that      *)
(* would contradict it.                                                    *)
(***************************************************************************)

\* The element a fold takes out of a set, and the others.
Pick(T) == CHOOSE x \in T : TRUE

Others(T) == T \ {Pick(T)}

\* A set of numbers that is not empty has a least one.
LEMMA Least ==
  ASSUME NEW S \in SUBSET Nat, S # {}
  PROVE  \E m \in S : \A k \in S : m <= k
<1>1. PICK m \in S : \A y \in S : ~ (<<y, m>> \in OpToRel(<, Nat))
  BY WFMin, NatLessThanWellFounded
<1>2. \A y \in S : ~ (y < m)
  BY <1>1 DEF OpToRel
<1> QED
  BY <1>2

\* Of some subsets of a finite set, one has no other of them in it.
LEMMA SmallestSet ==
  ASSUME NEW S, IsFiniteSet(S), NEW Bad \in SUBSET (SUBSET S), Bad # {}
  PROVE  \E T \in Bad : IsFiniteSet(T) /\ \A U \in SUBSET T : U \in Bad => U = T
<1> DEFINE Sizes == {Cardinality(T) : T \in Bad}
<1>1. \A T \in Bad : IsFiniteSet(T) /\ Cardinality(T) \in Nat
  BY FS_Subset, FS_CardinalityType
<1>2. Sizes \in SUBSET Nat /\ Sizes # {}
  BY <1>1
<1> HIDE DEF Sizes
<1>3. PICK m \in Sizes : \A k \in Sizes : m <= k
  BY <1>2, Least
<1> USE DEF Sizes
<1>4. m \in Nat /\ \A k \in Sizes : ~ (k < m)
  BY <1>2, <1>3
<1>5. PICK T \in Bad : m = Cardinality(T)
  BY <1>3
<1>6. ASSUME NEW U \in SUBSET T, U \in Bad PROVE U = T
  <2>1. Cardinality(U) <= Cardinality(T) /\ (Cardinality(U) = Cardinality(T) => U = T)
    BY <1>1, FS_Subset
  <2>2. Cardinality(U) \in Sizes
    BY <1>6
  <2>3. Cardinality(U) \in Nat /\ Cardinality(T) \in Nat
    BY <1>1, <1>6
  <2> QED
    BY <1>4, <1>5, <2>1, <2>2, <2>3
<1> QED
  BY <1>1, <1>6

LEMMA Picked ==
  ASSUME NEW T, T # {}
  PROVE  Pick(T) \in T /\ Others(T) \in SUBSET T /\ Others(T) # T /\ T = Others(T) \cup {Pick(T)}
<1>1. Pick(T) \in T
  BY DEF Pick
<1> QED
  BY <1>1 DEF Others

\* What a fold over the subsets of a set is, when one step of it is a function.
FoldsBy(g, S, base, step) ==
  \A T \in SUBSET S : g[T] = IF T = {} THEN base ELSE step[<<Pick(T), g[Others(T)]>>]

\* A way to take an element out of each subset.
Takes(pick, S) == \A T \in SUBSET S : T # {} => pick[T] \in T

\* What a fold is that takes elements out in that way.
FoldsWith(g, S, base, step, pick) ==
  \A T \in SUBSET S :
    g[T] = IF T = {} THEN base ELSE step[<<pick[T], g[T \ {pick[T]}]>>]

\* Two folds by the same step agree.
LEMMA FoldUniqueWith ==
  ASSUME NEW S, IsFiniteSet(S), NEW base, NEW step, NEW pick, Takes(pick, S), NEW g, NEW h,
         FoldsWith(g, S, base, step, pick), FoldsWith(h, S, base, step, pick)
  PROVE  \A T \in SUBSET S : g[T] = h[T]
<1> DEFINE Bad == {T \in SUBSET S : g[T] # h[T]}
<1> SUFFICES ASSUME Bad # {} PROVE FALSE
  OBVIOUS
<1>1. PICK T \in Bad : \A U \in SUBSET T : U \in Bad => U = T
  <2>1. Bad \in SUBSET (SUBSET S)
    OBVIOUS
  <2> HIDE DEF Bad
  <2> QED
    BY <2>1, SmallestSet
<1>2. T # {}
  BY <1>1 DEF FoldsWith
<1> DEFINE W == T \ {pick[T]}
<1>3. W \in SUBSET T /\ W # T
  BY <1>1, <1>2 DEF Takes
<1>4. g[W] = h[W]
  BY <1>1, <1>3
<1>5. g[T] = step[<<pick[T], g[W]>>] /\ h[T] = step[<<pick[T], h[W]>>]
  BY <1>1, <1>2 DEF FoldsWith
<1> QED
  BY <1>1, <1>4, <1>5

\* There is a fold, if a step stays within the results.
LEMMA FoldExistsWith ==
  ASSUME NEW S, IsFiniteSet(S), NEW pick, Takes(pick, S),
         NEW R, NEW base \in R, NEW step \in [S \X R -> R]
  PROVE  \E g \in [SUBSET S -> R] : FoldsWith(g, S, base, step, pick)
<1> DEFINE Bad == {T \in SUBSET S : ~ \E g \in [SUBSET T -> R] : FoldsWith(g, T, base, step, pick)}
<1> SUFFICES ASSUME Bad # {} PROVE FALSE
  OBVIOUS
<1>1. PICK T \in Bad : IsFiniteSet(T) /\ \A U \in SUBSET T : U \in Bad => U = T
  <2>1. Bad \in SUBSET (SUBSET S)
    OBVIOUS
  <2> HIDE DEF Bad
  <2> QED
    BY <2>1, SmallestSet
<1> DEFINE Less(U) == U \ {pick[U]}
           Of(U) == CHOOSE g \in [SUBSET U -> R] : FoldsWith(g, U, base, step, pick)
           At(U) == IF U = {} THEN base ELSE step[<<pick[U], Of(Less(U))[Less(U)]>>]
           h == [U \in SUBSET T |-> At(U)]
<1>2. \A U \in SUBSET T : U # T => Of(U) \in [SUBSET U -> R] /\ FoldsWith(Of(U), U, base, step, pick)
  BY <1>1
<1>3. \A U \in SUBSET T : U # {} => /\ pick[U] \in S /\ Less(U) \in SUBSET T /\ Less(U) # T
                                    /\ Less(U) \in SUBSET U
  <2> SUFFICES ASSUME NEW U \in SUBSET T, U # {}
               PROVE  pick[U] \in S /\ Less(U) \in SUBSET U /\ Less(U) # T
    OBVIOUS
  <2>1. pick[U] \in U
    BY <1>1 DEF Takes
  <2> QED
    BY <1>1, <2>1
<1> HIDE DEF Of, Less
<1>4. \A U \in SUBSET T : At(U) \in R
  <2> SUFFICES ASSUME NEW U \in SUBSET T, U # {} PROVE At(U) \in R
    OBVIOUS
  <2> DEFINE W == Less(U)
  <2>1. pick[U] \in S /\ W \in SUBSET T /\ W # T
    BY <1>3
  <2> HIDE DEF W
  <2>2. Of(W)[W] \in R
    BY <1>2, <2>1
  <2>3. <<pick[U], Of(W)[W]>> \in S \X R
    BY <2>1, <2>2
  <2> QED
    BY <2>3 DEF W
<1>5. \A U \in SUBSET T : U # T => At(U) = Of(U)[U]
  <2> SUFFICES ASSUME NEW U \in SUBSET T, U # T PROVE At(U) = Of(U)[U]
    OBVIOUS
  <2>1. CASE U = {}
    BY <1>2, <2>1 DEF FoldsWith
  <2>2. CASE U # {}
    <3> DEFINE W == Less(U)
    <3>1. W \in SUBSET U /\ W \in SUBSET T /\ W # T /\ IsFiniteSet(W)
      BY <1>1, <1>3, <2>2, FS_Subset
    <3>2. FoldsWith(Of(W), W, base, step, pick) /\ FoldsWith(Of(U), U, base, step, pick)
      BY <1>2, <3>1
    <3> HIDE DEF W
    <3>3. FoldsWith(Of(U), W, base, step, pick)
      BY <3>1, <3>2 DEF FoldsWith
    <3>4. Takes(pick, W)
      BY <1>1, <3>1 DEF Takes
    <3>5. Of(U)[W] = Of(W)[W]
      BY <3>1, <3>2, <3>3, <3>4, FoldUniqueWith
    <3>6. Of(U)[U] = step[<<pick[U], Of(U)[W]>>]
      BY <2>2, <3>2 DEF FoldsWith, W, Less
    <3> QED
      BY <2>2, <3>5, <3>6 DEF W
  <2> QED
    BY <2>1, <2>2
<1>6. \A U \in SUBSET T : h[U] = IF U = {} THEN base ELSE step[<<pick[U], h[Less(U)]>>]
  <2> HIDE DEF At
  <2> SUFFICES ASSUME NEW U \in SUBSET T
               PROVE  h[U] = IF U = {} THEN base ELSE step[<<pick[U], h[Less(U)]>>]
    OBVIOUS
  <2>1. CASE U = {}
    BY <2>1 DEF At
  <2>2. CASE U # {}
    <3>1. h[Less(U)] = Of(Less(U))[Less(U)]
      BY <1>3, <1>5, <2>2
    <3> QED
      BY <2>2, <3>1 DEF At
  <2> QED
    BY <2>1, <2>2
<1>7. h \in [SUBSET T -> R] /\ FoldsWith(h, T, base, step, pick)
  BY <1>4, <1>6 DEF FoldsWith, Less
<1> HIDE DEF h
<1> QED
  BY <1>1, <1>7

\* A set picks its elements so.
LEMMA FoldExists ==
  ASSUME NEW S, IsFiniteSet(S), NEW R, NEW base \in R, NEW step \in [S \X R -> R]
  PROVE  \E g \in [SUBSET S -> R] : FoldsBy(g, S, base, step)
<1> DEFINE pick == [T \in SUBSET S |-> Pick(T)]
<1>1. Takes(pick, S)
  BY Picked DEF Takes
<1>2. PICK g \in [SUBSET S -> R] : FoldsWith(g, S, base, step, pick)
  <2> HIDE DEF pick
  <2> QED
    BY <1>1, FoldExistsWith
<1>3. FoldsBy(g, S, base, step)
  BY <1>2 DEF FoldsBy, FoldsWith, Others
<1> QED
  BY <1>3

\* A sum over any subset is the fold.
LEMMA SumFold ==
  ASSUME NEW S, IsFiniteSet(S), NEW f, \A x \in S : f[x] \in Int
  PROVE  \A T \in SUBSET S :
           /\ SumFunctionOnSet(f, T) \in Int
           /\ SumFunctionOnSet(f, T) =
                IF T = {} THEN 0 ELSE f[Pick(T)] + SumFunctionOnSet(f, Others(T))
<1> DEFINE step == [p \in S \X Int |-> f[p[1]] + p[2]]
           Sums(h, U) == h = [T \in SUBSET U |-> IF T = {} THEN 0 ELSE f[Pick(T)] + h[Others(T)]]
<1>1. step \in [S \X Int -> Int]
  OBVIOUS
<1>2. \A U \in SUBSET S : \A h \in [SUBSET U -> Int] : FoldsBy(h, U, 0, step) => Sums(h, U)
  <2> SUFFICES ASSUME NEW U \in SUBSET S, NEW h \in [SUBSET U -> Int], FoldsBy(h, U, 0, step)
               PROVE  Sums(h, U)
    OBVIOUS
  <2>1. \A T \in SUBSET U : T # {} => Pick(T) \in S /\ h[Others(T)] \in Int
    BY Picked
  <2>2. \A T \in SUBSET U : h[T] = IF T = {} THEN 0 ELSE f[Pick(T)] + h[Others(T)]
    BY <2>1 DEF FoldsBy
  <2> QED
    BY <2>2
<1> HIDE DEF step
<1>3. PICK g \in [SUBSET S -> Int] : FoldsBy(g, S, 0, step)
  <2>1. 0 \in Int
    OBVIOUS
  <2> QED
    BY <1>1, <2>1, FoldExists
<1>4. \A T \in SUBSET S : g[T] = IF T = {} THEN 0 ELSE f[Pick(T)] + g[Others(T)]
  <2>1. Sums(g, S)
    BY <1>2, <1>3
  <2> QED
    BY <2>1
<1>5. ASSUME NEW U \in SUBSET S PROVE SumFunctionOnSet(f, U) = g[U]
  <2> DEFINE total == CHOOSE h : Sums(h, U)
  <2>1. SumFunctionOnSet(f, U) = total[U]
    BY DEF SumFunctionOnSet, FoldFunctionOnSet, MapThenFoldSet, Pick, Others
  <2>2. Sums([T \in SUBSET U |-> g[T]], U)
    <3> DEFINE h == [T \in SUBSET U |-> g[T]]
    <3>1. h \in [SUBSET U -> Int] /\ FoldsBy(h, U, 0, step)
      BY <1>3, Picked DEF FoldsBy
    <3> HIDE DEF Sums, h
    <3>2. Sums(h, U)
      BY <1>2, <3>1
    <3> QED
      BY <3>2 DEF h
  <2>3. Sums(total, U)
    <3> HIDE DEF Sums
    <3> QED
      BY <2>2
  <2>4. \A T \in SUBSET U : total[T] = IF T = {} THEN 0 ELSE f[Pick(T)] + total[Others(T)]
    <3> HIDE DEF total
    <3> QED
      BY <2>3
  <2> HIDE DEF total
  <2> DEFINE Bad == {T \in SUBSET U : total[T] # g[T]}
  <2> SUFFICES ASSUME Bad # {} PROVE FALSE
    BY <2>1
  <2>6. PICK T \in Bad : \A W \in SUBSET T : W \in Bad => W = T
    <3>1. Bad \in SUBSET (SUBSET U) /\ IsFiniteSet(U)
      BY FS_Subset
    <3> HIDE DEF Bad
    <3> QED
      BY <3>1, SmallestSet
  <2>7. T \in SUBSET U /\ T \in SUBSET S /\ total[T] # g[T]
    BY <2>6
  <2>8. T # {}
    BY <1>4, <2>4, <2>7
  <2>9. total[Others(T)] = g[Others(T)]
    BY <2>6, <2>8, Picked
  <2> QED
    BY <1>4, <2>4, <2>7, <2>8, <2>9
<1>6. ASSUME NEW T \in SUBSET S
      PROVE  /\ SumFunctionOnSet(f, T) \in Int
             /\ SumFunctionOnSet(f, T) =
                  IF T = {} THEN 0 ELSE f[Pick(T)] + SumFunctionOnSet(f, Others(T))
  <2>1. SumFunctionOnSet(f, T) = g[T] /\ g[T] \in Int
    BY <1>5
  <2>2. T # {} => SumFunctionOnSet(f, Others(T)) = g[Others(T)]
    BY <1>5, Picked
  <2> QED
    BY <1>4, <2>1, <2>2
<1> QED
  BY <1>6

\* A sum of amounts is an amount.
LEMMA SumNat ==
  ASSUME NEW S, IsFiniteSet(S), NEW f, \A x \in S : f[x] \in Nat
  PROVE  \A T \in SUBSET S : SumFunctionOnSet(f, T) \in Nat
<1> DEFINE Bad == {T \in SUBSET S : SumFunctionOnSet(f, T) \notin Nat}
<1> SUFFICES ASSUME Bad # {} PROVE FALSE
  OBVIOUS
<1>1. PICK T \in Bad : \A U \in SUBSET T : U \in Bad => U = T
  <2>1. Bad \in SUBSET (SUBSET S)
    OBVIOUS
  <2> HIDE DEF Bad
  <2> QED
    BY <2>1, SmallestSet
<1>2. SumFunctionOnSet(f, T) = IF T = {} THEN 0 ELSE f[Pick(T)] + SumFunctionOnSet(f, Others(T))
  <2>1. \A x \in S : f[x] \in Int
    OBVIOUS
  <2> QED
    BY <1>1, <2>1, SumFold
<1>3. T # {}
  BY <1>1, <1>2
<1>4. Pick(T) \in S /\ SumFunctionOnSet(f, Others(T)) \in Nat
  BY <1>1, <1>3, Picked
<1> QED
  BY <1>1, <1>2, <1>3, <1>4

\* A sum of what is no larger is no larger.
LEMMA SumLe ==
  ASSUME NEW S, IsFiniteSet(S), NEW f, NEW h, \A x \in S : f[x] \in Int /\ h[x] \in Int /\ f[x] <= h[x]
  PROVE  SumFunctionOnSet(f, S) <= SumFunctionOnSet(h, S)
<1> DEFINE Bad == {T \in SUBSET S : ~ (SumFunctionOnSet(f, T) <= SumFunctionOnSet(h, T))}
<1> SUFFICES ASSUME Bad # {} PROVE FALSE
  OBVIOUS
<1>1. PICK T \in Bad : \A U \in SUBSET T : U \in Bad => U = T
  <2>1. Bad \in SUBSET (SUBSET S)
    OBVIOUS
  <2> HIDE DEF Bad
  <2> QED
    BY <2>1, SmallestSet
<1>2. \A U \in SUBSET S :
        /\ SumFunctionOnSet(f, U) \in Int /\ SumFunctionOnSet(h, U) \in Int
        /\ SumFunctionOnSet(f, U) = IF U = {} THEN 0 ELSE f[Pick(U)] + SumFunctionOnSet(f, Others(U))
        /\ SumFunctionOnSet(h, U) = IF U = {} THEN 0 ELSE h[Pick(U)] + SumFunctionOnSet(h, Others(U))
  BY SumFold
<1>3. T # {}
  BY <1>1, <1>2
<1>4. /\ Pick(T) \in S /\ Others(T) \in SUBSET S
      /\ SumFunctionOnSet(f, Others(T)) <= SumFunctionOnSet(h, Others(T))
  BY <1>1, <1>3, Picked
<1> QED
  BY <1>1, <1>2, <1>3, <1>4

\* A sum of what is the same in some places and nothing elsewhere.
LEMMA SumSame ==
  ASSUME NEW S, IsFiniteSet(S), NEW A \in SUBSET S, NEW v \in Int, NEW f,
         \A x \in S : f[x] = IF x \in A THEN v ELSE 0
  PROVE  SumFunctionOnSet(f, S) = Cardinality(A) * v
<1> DEFINE Bad == {T \in SUBSET S : SumFunctionOnSet(f, T) # Cardinality(T \cap A) * v}
<1> SUFFICES ASSUME Bad # {} PROVE FALSE
  <2>1. S \cap A = A
    OBVIOUS
  <2> QED
    BY <2>1
<1>1. PICK T \in Bad : \A U \in SUBSET T : U \in Bad => U = T
  <2>1. Bad \in SUBSET (SUBSET S)
    OBVIOUS
  <2> HIDE DEF Bad
  <2> QED
    BY <2>1, SmallestSet
<1>2. \A U \in SUBSET S :
        SumFunctionOnSet(f, U) = IF U = {} THEN 0 ELSE f[Pick(U)] + SumFunctionOnSet(f, Others(U))
  BY SumFold
<1>3. T # {}
  <2> SUFFICES ASSUME T = {} PROVE FALSE
    OBVIOUS
  <2>1. Cardinality(T \cap A) = 0 /\ SumFunctionOnSet(f, T) = 0
    <3>1. T \cap A = {}
      OBVIOUS
    <3> QED
      BY <1>1, <1>2, <3>1, FS_EmptySet
  <2>2. 0 * v = 0
    OBVIOUS
  <2> QED
    BY <1>1, <2>1, <2>2
<1> DEFINE R == Others(T) \cap A
           p == Pick(T)
<1>4. p \in S /\ SumFunctionOnSet(f, Others(T)) = Cardinality(R) * v
  BY <1>1, <1>3, Picked
<1>5. IsFiniteSet(R) /\ Cardinality(R) \in Nat /\ p \notin R /\ T \cap A = IF p \in A THEN R \cup {p} ELSE R
  <2>1. R \in SUBSET S /\ p \notin R
    BY <1>1, <1>3, Picked DEF Others
  <2>2. T = Others(T) \cup {p}
    BY <1>3, Picked
  <2> QED
    BY <2>1, <2>2, FS_Subset, FS_CardinalityType
<1>6. SumFunctionOnSet(f, T) = (IF p \in A THEN v ELSE 0) + Cardinality(R) * v
  BY <1>1, <1>2, <1>3, <1>4
<1> HIDE DEF R, p
<1>7. CASE p \in A
  <2>1. Cardinality(T \cap A) = Cardinality(R) + 1
    BY <1>5, <1>7, FS_AddElement
  <2>2. (Cardinality(R) + 1) * v = v + Cardinality(R) * v
    BY <1>5
  <2> QED
    BY <1>1, <1>6, <1>7, <2>1, <2>2
<1>8. CASE p \notin A
  <2>1. Cardinality(R) * v \in Int /\ T \cap A = R
    BY <1>5, <1>8
  <2>2. SumFunctionOnSet(f, T) = Cardinality(R) * v
    BY <1>6, <1>8, <2>1
  <2>3. SumFunctionOnSet(f, T) # Cardinality(T \cap A) * v
    BY <1>1
  <2> QED
    BY <2>1, <2>2, <2>3
<1> QED
  BY <1>7, <1>8

\* A sum of what is at most a number is at most as many times that number.
LEMMA SumAtMost ==
  ASSUME NEW S, IsFiniteSet(S), NEW v \in Nat, NEW f, \A x \in S : f[x] \in 0 .. v
  PROVE  SumFunctionOnSet(f, S) \in 0 .. Cardinality(S) * v
<1> DEFINE h == [x \in S |-> v]
<1>1. \A x \in S : f[x] \in Nat /\ f[x] \in Int /\ h[x] \in Int /\ f[x] <= h[x] /\ h[x] = IF x \in S THEN v ELSE 0
  OBVIOUS
<1> HIDE DEF h
<1>2. SumFunctionOnSet(f, S) <= SumFunctionOnSet(h, S)
  BY <1>1, SumLe
<1>3. SumFunctionOnSet(h, S) = Cardinality(S) * v
  <2>1. v \in Int
    OBVIOUS
  <2>2. S \in SUBSET S
    OBVIOUS
  <2> QED
    BY <1>1, <2>1, <2>2, SumSame
<1>4. SumFunctionOnSet(f, S) \in Nat
  BY <1>1, SumNat
<1>5. Cardinality(S) * v \in Nat
  BY FS_CardinalityType
<1> QED
  BY <1>2, <1>3, <1>4, <1>5

\* A product over any subset is the fold.
LEMMA ProductFold ==
  ASSUME NEW S, IsFiniteSet(S), \A x \in S : x \in Nat
  PROVE  \A T \in SUBSET S :
           /\ ProductSet(T) \in Nat
           /\ ProductSet(T) = IF T = {} THEN 1 ELSE Pick(T) * ProductSet(Others(T))
<1> DEFINE step == [p \in S \X Nat |-> p[1] * p[2]]
           Products(h, U) == h = [T \in SUBSET U |-> IF T = {} THEN 1 ELSE Pick(T) * h[Others(T)]]
<1>1. step \in [S \X Nat -> Nat]
  <2>1. ASSUME NEW p \in S \X Nat PROVE p[1] * p[2] \in Nat
    <3>1. p[1] \in Nat /\ p[2] \in Nat
      OBVIOUS
    <3> QED
      BY <3>1
  <2> QED
    BY <2>1
<1>2. \A U \in SUBSET S : \A h \in [SUBSET U -> Nat] : FoldsBy(h, U, 1, step) => Products(h, U)
  <2> SUFFICES ASSUME NEW U \in SUBSET S, NEW h \in [SUBSET U -> Nat], FoldsBy(h, U, 1, step)
               PROVE  Products(h, U)
    OBVIOUS
  <2>1. \A T \in SUBSET U : T # {} => Pick(T) \in S /\ h[Others(T)] \in Nat
    BY Picked
  <2>2. \A T \in SUBSET U : h[T] = IF T = {} THEN 1 ELSE Pick(T) * h[Others(T)]
    BY <2>1 DEF FoldsBy
  <2> QED
    BY <2>2
<1> HIDE DEF step
<1>3. PICK g \in [SUBSET S -> Nat] : FoldsBy(g, S, 1, step)
  <2>1. 1 \in Nat
    OBVIOUS
  <2> QED
    BY <1>1, <2>1, FoldExists
<1>4. \A T \in SUBSET S : g[T] = IF T = {} THEN 1 ELSE Pick(T) * g[Others(T)]
  <2>1. Products(g, S)
    BY <1>2, <1>3
  <2> QED
    BY <2>1
<1>5. ASSUME NEW U \in SUBSET S PROVE ProductSet(U) = g[U]
  <2> DEFINE total == CHOOSE h : Products(h, U)
  <2>1. ProductSet(U) = total[U]
    BY DEF ProductSet, FoldSet, MapThenFoldSet, Pick, Others
  <2>2. Products([T \in SUBSET U |-> g[T]], U)
    <3> DEFINE h == [T \in SUBSET U |-> g[T]]
    <3>1. h \in [SUBSET U -> Nat] /\ FoldsBy(h, U, 1, step)
      BY <1>3, Picked DEF FoldsBy
    <3> HIDE DEF Products, h
    <3>2. Products(h, U)
      BY <1>2, <3>1
    <3> QED
      BY <3>2 DEF h
  <2>3. Products(total, U)
    <3> HIDE DEF Products
    <3> QED
      BY <2>2
  <2>4. \A T \in SUBSET U : total[T] = IF T = {} THEN 1 ELSE Pick(T) * total[Others(T)]
    <3> HIDE DEF total
    <3> QED
      BY <2>3
  <2> HIDE DEF total
  <2> DEFINE Bad == {T \in SUBSET U : total[T] # g[T]}
  <2> SUFFICES ASSUME Bad # {} PROVE FALSE
    BY <2>1
  <2>6. PICK T \in Bad : \A W \in SUBSET T : W \in Bad => W = T
    <3>1. Bad \in SUBSET (SUBSET U) /\ Bad # {}
      OBVIOUS
    <3>2. IsFiniteSet(U)
      BY FS_Subset
    <3> HIDE DEF Bad
    <3> QED
      BY <3>1, <3>2, SmallestSet
  <2>7. T \in SUBSET U /\ T \in SUBSET S /\ total[T] # g[T]
    BY <2>6
  <2>8. T # {}
    BY <1>4, <2>4, <2>7
  <2>9. total[Others(T)] = g[Others(T)]
    <3>1. Others(T) \in SUBSET T /\ Others(T) # T /\ Others(T) \in SUBSET U
      BY <2>7, <2>8, Picked
    <3> QED
      BY <2>6, <3>1
  <2> QED
    BY <1>4, <2>4, <2>7, <2>8, <2>9
<1>6. ASSUME NEW T \in SUBSET S
      PROVE  /\ ProductSet(T) \in Nat
             /\ ProductSet(T) = IF T = {} THEN 1 ELSE Pick(T) * ProductSet(Others(T))
  <2>1. ProductSet(T) = g[T] /\ g[T] \in Nat
    BY <1>5
  <2>2. T # {} => ProductSet(Others(T)) = g[Others(T)]
    BY <1>5, Picked
  <2> QED
    BY <1>4, <2>1, <2>2
<1> QED
  BY <1>6

\* A product is a multiple of each of its factors.
LEMMA ProductDivides ==
  ASSUME NEW S, IsFiniteSet(S), \A x \in S : x \in Nat, NEW k \in S
  PROVE  \E q \in Nat : ProductSet(S) = k * q
<1> DEFINE Bad == {T \in SUBSET S : k \in T /\ ~ \E q \in Nat : ProductSet(T) = k * q}
<1> SUFFICES ASSUME Bad # {} PROVE FALSE
  OBVIOUS
<1>1. PICK T \in Bad : \A U \in SUBSET T : U \in Bad => U = T
  <2>1. Bad \in SUBSET (SUBSET S) /\ Bad # {} /\ IsFiniteSet(S)
    OBVIOUS
  <2> HIDE DEF Bad
  <2> QED
    BY <2>1, SmallestSet
<1>2. T # {} /\ Pick(T) \in Nat /\ Others(T) \in SUBSET S /\ ProductSet(Others(T)) \in Nat
  BY <1>1, Picked, ProductFold
<1>3. ProductSet(T) = Pick(T) * ProductSet(Others(T))
  BY <1>1, <1>2, ProductFold
<1>4. CASE Pick(T) = k
  BY <1>1, <1>2, <1>3, <1>4
<1>5. CASE Pick(T) # k
  <2>1. k \in Others(T) /\ Others(T) # T /\ Others(T) \in SUBSET T
    BY <1>1, <1>2, <1>5, Picked DEF Others
  <2>2. PICK q \in Nat : ProductSet(Others(T)) = k * q
    BY <1>1, <1>2, <2>1
  <2> DEFINE p == Pick(T)
  <2>3. p * q \in Nat /\ p * (k * q) = k * (p * q)
    BY <1>2
  <2> QED
    BY <1>1, <1>3, <2>2, <2>3
<1> QED
  BY <1>4, <1>5

-----------------------------------------------------------------------------
\* Whole parts of a quotient.

LEMMA DivNat == ASSUME NEW a \in Nat, NEW b \in Nat \ {0} PROVE a \div b \in Nat
OBVIOUS

LEMMA DivExact == ASSUME NEW k \in Nat \ {0}, NEW q \in Nat PROVE (k * q) \div k = q
<1> DEFINE d == (k * q) \div k
           r == (k * q) % k
<1>1. k * q = k * d + r /\ 0 <= r /\ r < k /\ d \in Int
  OBVIOUS
<1> HIDE DEF d, r
<1>2. CASE q <= d - 1
  <2>1. k * q <= k * (d - 1)
    BY <1>1, <1>2
  <2> QED
    BY <1>1, <2>1
<1>3. CASE d <= q - 1
  <2>1. k * d <= k * (q - 1)
    BY <1>1, <1>3
  <2> QED
    BY <1>1, <2>1
<1> QED
  BY <1>1, <1>2, <1>3 DEF d

LEMMA DivShare ==
  ASSUME NEW a \in Nat, NEW c \in Nat \ {0}, NEW b \in 0 .. c
  PROVE  (a * b) \div c \in Nat /\ (a * b) \div c <= a
<1> DEFINE d == (a * b) \div c
           r == (a * b) % c
<1>1. a * b = c * d + r /\ 0 <= r /\ r < c /\ d \in Int
  OBVIOUS
<1>2. a * b <= a * c /\ a * b \in Nat
  OBVIOUS
<1>3. d \in Nat
  BY <1>2, DivNat
<1> HIDE DEF d, r
<1>4. CASE a + 1 <= d
  <2>1. c * (a + 1) <= c * d
    BY <1>3, <1>4
  <2> QED
    BY <1>1, <1>2, <2>1
<1> QED
  BY <1>3, <1>4 DEF d

LEMMA DivAtMost ==
  ASSUME NEW k \in Nat \ {0}, NEW v \in Nat, NEW a \in 0 .. k * v
  PROVE  a \div k \in 0 .. v
<1> DEFINE d == a \div k
           r == a % k
<1>1. a \in Nat /\ a <= k * v /\ k * v \in Nat
  OBVIOUS
<1>2. a = k * d + r /\ 0 <= r /\ r < k /\ d \in Nat
  BY <1>1, DivNat
<1> HIDE DEF d, r
<1>3. CASE v + 1 <= d
  <2>1. k * (v + 1) <= k * d
    BY <1>2, <1>3
  <2>2. k * (v + 1) = k * v + k
    OBVIOUS
  <2> QED
    BY <1>1, <1>2, <2>1, <2>2
<1> QED
  BY <1>2, <1>3 DEF d

-----------------------------------------------------------------------------
(***************************************************************************)
(* RiskEvents. The frequency and the loss computed from linked failures    *)
(* are amounts: the mean of what costs anything is not taken of an empty   *)
(* set.                                                                    *)
(***************************************************************************)

\* The frequency is a number of times.
LEMMA AroNat == ASSUME NEW row \in RiskRow, NEW F \in SUBSET Failures PROVE Aro(row, F) \in Nat
<1>1. Cardinality(F) \in Nat
  BY RiskEventsAssumption, FS_Subset, FS_CardinalityType
<1>2. row.aro # NONE => row.aro \in Nat
  BY DEF RiskRow
<1> QED
  BY <1>1, <1>2 DEF Aro

\* The loss is an amount, whether it comes from costs of failures or from an expert's estimate.
LEMMA AleNat == ASSUME NEW row \in RiskRow, NEW c \in OfFailures(Costs) PROVE Ale(row, c) \in Nat
<1> DEFINE P == Positive(c)
           s == SumFunctionOnSet(c, P)
           k == Cardinality(P)
           a == Aro(row, DOMAIN c)
<1>1. DOMAIN c \in SUBSET Failures /\ \A f \in DOMAIN c : c[f] \in Int
  BY RiskEventsAssumption DEF OfFailures
<1>2. a \in Nat
  BY <1>1, AroNat
<1>3. P \in SUBSET DOMAIN c /\ \A f \in P : c[f] > 0
  BY DEF Positive
<1>4. IsFiniteSet(P)
  BY <1>1, <1>3, RiskEventsAssumption, FS_Subset
<1>5. k \in Nat /\ (P # {} => k # 0)
  BY <1>4, FS_CardinalityType, FS_EmptySet
<1>6. s \in Nat
  <2> HIDE DEF P
  <2>1. \A f \in P : c[f] \in Nat
    BY <1>1, <1>3
  <2> QED
    BY <1>4, <2>1, SumNat
<1>7. row.sle # NONE => row.sle \in Nat
  BY RiskEventsAssumption DEF RiskRow
<1>8. Ale(row, c) = IF P # {} THEN (a * s) \div k ELSE a * (IF row.sle # NONE THEN row.sle ELSE 0)
  BY DEF Ale
<1> HIDE DEF P, s, k, a
<1>9. CASE P # {}
  <2>1. a * s \in Nat /\ k \in Nat \ {0}
    BY <1>2, <1>6, <1>5, <1>9
  <2> QED
    BY <1>8, <1>9, <2>1, DivNat
<1>10. CASE P = {}
  <2>1. (IF row.sle # NONE THEN row.sle ELSE 0) \in Nat
    BY <1>7
  <2> QED
    BY <1>2, <1>8, <1>10, <2>1
<1> QED
  BY <1>9, <1>10

\* Writing back what was loaded and changed makes a row of two rows.
LEMMA FlushRisk ==
  ASSUME NEW row \in RiskRow, NEW loaded, NEW new \in RiskRow
  PROVE  Flush(row, loaded, new) \in RiskRow
BY DEF Flush, RiskRow

\* Every step leaves a row that a form or a program could have written.
LEMMA RisksTyped ==
  ASSUME RisksTypeOK, [RisksNext]_riskVars
  PROVE  RisksTypeOK'
<1>1. ASSUME NEW r \in Recomputers, RecomputeRead(r) PROVE RisksTypeOK'
  <2>1. PICK engine \in [linked -> Costs] :
       recompute' = [recompute EXCEPT ![r] =
         [at |-> "read", loaded |-> risk, old |-> [f \in linked |-> cost[f]],
          costs |-> [f \in linked |-> IF cost[f] # NONE THEN cost[f] ELSE engine[f]],
          prev |-> risk.ale]]
    BY <1>1 DEF RecomputeRead
  <2>2. linked \in SUBSET Failures /\ cost \in [Failures -> Costs \cup {NONE}] /\ risk \in RiskRow
    BY DEF RisksTypeOK
  <2>3. [f \in linked |-> cost[f]] \in OfFailures(Costs \cup {NONE})
    BY <2>2 DEF OfFailures
  <2>4. [f \in linked |-> IF cost[f] # NONE THEN cost[f] ELSE engine[f]] \in OfFailures(Costs)
    BY <2>2 DEF OfFailures
  <2>5. risk.ale \in Nat
    BY <2>2 DEF RiskRow
  <2>6. recompute' \in [Recomputers -> Recomputation]
    BY <2>1, <2>2, <2>3, <2>4, <2>5 DEF RisksTypeOK, Recomputation
  <2> QED
    BY <1>1, <2>6 DEF RecomputeRead, RisksTypeOK
<1>2. ASSUME NEW r \in Recomputers, RecomputeCommit(r) PROVE RisksTypeOK'
  <2> DEFINE j == recompute[r]
             x == Ale(j.loaded, j.costs)
             y == IF j.loaded.expert THEN j.loaded.aro ELSE Aro(j.loaded, DOMAIN j.costs)
             new == [j.loaded EXCEPT !.ale = x, !.aro = y]
  <2>1. j \in [at : {"read"}, loaded : RiskRow, old : OfFailures(Costs \cup {NONE}),
               costs : OfFailures(Costs), prev : Nat]
    BY <1>2 DEF RecomputeCommit, RisksTypeOK, Recomputation
  <2>2. x \in Nat /\ y \in Nat \cup {NONE}
    <3>1. j.loaded \in RiskRow /\ j.costs \in OfFailures(Costs)
      BY <2>1
    <3>2. DOMAIN j.costs \in SUBSET Failures
      BY <3>1 DEF OfFailures
    <3>3. j.loaded.aro \in Nat \cup {NONE}
      BY <3>1 DEF RiskRow
    <3> QED
      BY <3>1, <3>2, <3>3, AleNat, AroNat
  <2>3. new \in RiskRow
    <3> HIDE DEF x, y, j
    <3>1. j.loaded \in RiskRow
      BY <2>1
    <3> QED
      BY <2>2, <3>1 DEF RiskRow
  <2>4. risk' = Flush(risk, j.loaded, new)
    <3>1. [j.loaded EXCEPT !.ale = Ale(j.loaded, j.costs),
                           !.aro = IF j.loaded.expert THEN @ ELSE Aro(j.loaded, DOMAIN j.costs)] = new
      <4>1. j.loaded \in RiskRow
        BY <2>1
      <4> QED
        BY <4>1 DEF RiskRow
    <3> QED
      BY <1>2, <3>1 DEF RecomputeCommit
  <2>5. risk' \in RiskRow
    <3> HIDE DEF new, j
    <3> QED
      BY <2>3, <2>4, FlushRisk DEF RisksTypeOK
  <2>6. cost' \in [Failures -> Costs \cup {NONE}]
    <3>1. j.costs \in OfFailures(Costs) /\ cost \in [Failures -> Costs \cup {NONE}]
      BY <2>1 DEF RisksTypeOK
    <3>2. \A f \in DOMAIN j.costs : j.costs[f] \in Costs
      BY <3>1 DEF OfFailures
    <3>3. cost' = [f \in Failures |->
                     IF f \in DOMAIN j.costs /\ j.costs[f] # j.old[f] THEN j.costs[f] ELSE cost[f]]
      BY <1>2 DEF RecomputeCommit
    <3> HIDE DEF j
    <3> QED
      BY <3>1, <3>2, <3>3
  <2>7. recompute' \in [Recomputers -> Recomputation]
    <3>1. [at |-> "committed", prev |-> j.prev] \in Recomputation
      BY <2>1 DEF Recomputation
    <3>2. recompute' = [recompute EXCEPT ![r] = [at |-> "committed", prev |-> j.prev]]
      BY <1>2 DEF RecomputeCommit
    <3> HIDE DEF j
    <3> QED
      BY <3>1, <3>2 DEF RisksTypeOK
  <2>8. mails' \in Nat /\ unsure' \in BOOLEAN
    BY <1>2 DEF RecomputeCommit, RisksTypeOK
  <2> HIDE DEF j, new
  <2> QED
    BY <1>2, <2>5, <2>6, <2>7, <2>8 DEF RecomputeCommit, RisksTypeOK
<1>3. ASSUME NEW r \in Recomputers, RecomputeNotify(r) \/ RecomputeDie(r) PROVE RisksTypeOK'
  <2>1. Rest \in Recomputation
    BY DEF Rest, Recomputation
  <2>2. recompute' = [recompute EXCEPT ![r] = Rest]
    BY <1>3 DEF RecomputeNotify, RecomputeDie
  <2>3. recompute' \in [Recomputers -> Recomputation]
    BY <2>1, <2>2 DEF RisksTypeOK
  <2>4. CASE RecomputeNotify(r)
    BY <2>3, <2>4 DEF RecomputeNotify, RisksTypeOK
  <2>5. CASE RecomputeDie(r)
    <3>1. unsure' \in BOOLEAN
      BY <2>5, Zenon DEF RecomputeDie, RisksTypeOK
    <3> QED
      BY <2>3, <2>5, <3>1 DEF RecomputeDie, RisksTypeOK
  <2> QED
    BY <1>3, <2>4, <2>5
<1>4. CASE UpdateRisk
  <2>1. risk' \in RiskRow
    <3>1. \/ \E appetite \in Appetites \cup {NONE} : risk' = [risk EXCEPT !.appetite = appetite]
          \/ \E aro \in {NONE, 2}, expert \in BOOLEAN : risk' = [risk EXCEPT !.aro = aro, !.expert = expert]
          \/ \E sle \in (Costs \cap Nat) \cup {NONE} : risk' = [risk EXCEPT !.sle = sle]
          \/ risk' = [risk EXCEPT !.active = ~ @]
      BY <1>4 DEF UpdateRisk
    <3>2. risk \in RiskRow
      BY DEF RisksTypeOK
    <3>3. ASSUME NEW appetite \in Appetites \cup {NONE}, risk' = [risk EXCEPT !.appetite = appetite]
          PROVE  risk' \in RiskRow
      BY <3>2, <3>3 DEF RiskRow
    <3>4. ASSUME NEW aro \in {NONE, 2}, NEW expert \in BOOLEAN,
                 risk' = [risk EXCEPT !.aro = aro, !.expert = expert]
          PROVE  risk' \in RiskRow
      <4>1. aro \in Nat \cup {NONE}
        BY <3>4
      <4>2. [risk EXCEPT !.aro = aro] \in RiskRow
        BY <3>2, <4>1 DEF RiskRow
      <4>3. risk' = [[risk EXCEPT !.aro = aro] EXCEPT !.expert = expert]
        BY <3>4
      <4> QED
        BY <4>2, <4>3 DEF RiskRow
    <3>5. ASSUME NEW sle \in (Costs \cap Nat) \cup {NONE}, risk' = [risk EXCEPT !.sle = sle]
          PROVE  risk' \in RiskRow
      BY <3>2, <3>5 DEF RiskRow
    <3>6. CASE risk' = [risk EXCEPT !.active = ~ @]
      <4>1. (~ risk.active) \in BOOLEAN
        OBVIOUS
      <4> QED
        BY <3>2, <3>6, <4>1 DEF RiskRow
    <3> QED
      BY <3>1, <3>3, <3>4, <3>5, <3>6
  <2>2. mails' \in Nat /\ unsure' \in BOOLEAN
    BY <1>4 DEF UpdateRisk, AppetiteMoves, RisksTypeOK
  <2> QED
    BY <1>4, <2>1, <2>2 DEF UpdateRisk, RisksTypeOK
<1>5. ASSUME NEW a \in Appetites \cup {NONE}, ClassAppetite(a) PROVE RisksTypeOK'
  <2>1. mails' \in Nat /\ unsure' \in BOOLEAN
    BY <1>5 DEF ClassAppetite, AppetiteMoves, RisksTypeOK
  <2> QED
    BY <1>5, <2>1 DEF ClassAppetite, RisksTypeOK
<1>6. ASSUME NEW f \in Failures, LinkFailure(f) PROVE RisksTypeOK'
  BY <1>6 DEF LinkFailure, RisksTypeOK
<1>7. ASSUME NEW f \in Failures, NEW c \in Costs, Recost(f, c) PROVE RisksTypeOK'
  BY <1>7 DEF Recost, RisksTypeOK
<1>8. ASSUME NEW s \in Subchars, LinkSubchar(s) PROVE RisksTypeOK'
  BY <1>8 DEF LinkSubchar, RisksTypeOK
<1>9. ASSUME NEW m \in Remedies, NEW share \in 0 .. SHARE, LinkMeasure(m, share) PROVE RisksTypeOK'
  BY <1>9 DEF LinkMeasure, RisksTypeOK
<1>10. CASE UNCHANGED riskVars
  BY <1>10 DEF riskVars, RisksTypeOK
<1> QED
  BY <1>1, <1>2, <1>3, <1>4, <1>5, <1>6, <1>7, <1>8, <1>9, <1>10 DEF RisksNext

LEMMA RisksBegin == ASSUME RisksInit PROVE RisksTypeOK
<1>1. risk \in RiskRow /\ recompute \in [Recomputers -> Recomputation]
  BY DEF RisksInit, RiskRow, Recomputation, Rest
<1> QED
  BY <1>1 DEF RisksInit, RisksTypeOK

(***************************************************************************)
(* Whatever recomputations, edits and links interleave, the row holds      *)
(* amounts and flags, and what a recomputation carries between its reads   *)
(* and its commit is what was linked and what it costs (recompute_ale).    *)
(***************************************************************************)
THEOREM RisksTypeCorrect == RisksSpec => []RisksTypeOK
BY RisksBegin, RisksTyped, PTL DEF RisksSpec

-----------------------------------------------------------------------------
(***************************************************************************)
(* The mail of a rise.  Nothing is owed while the loss is not above the    *)
(* appetite,                                                               *)
(* and a recomputation remembers the loss it read; so the commit that      *)
(* takes the loss over the appetite leaves one mail due, its own.          *)
(***************************************************************************)
Columns == {"ale", "aro", "expert", "sle", "appetite", "active"}

IsRow(row) == row = [c \in Columns |-> row[c]]

JobFits(j) ==
  /\ j.at \in {"rest", "read", "committed"}
  /\ j.at = "read" => IsRow(j.loaded) /\ j.prev = j.loaded.ale

\* The mails that are due of some recomputations, for a row and an appetite.
DueOf(jobs, row, class) ==
  {r \in Recomputers : /\ jobs[r].at = "committed"
                       /\ ~ Above([row EXCEPT !.ale = jobs[r].prev], class) /\ Above(row, class)}

Told(jobs, row, class, n, not_sure) ==
  Above(row, class) /\ ~ not_sure => n + Cardinality(DueOf(jobs, row, class)) = 1

LEMMA CrossingIsToldOf == CrossingIsTold <=> Told(recompute, risk, appetiteOfClass, mails, unsure)
<1>1. {r \in Committed : Due(recompute[r])} = DueOf(recompute, risk, appetiteOfClass)
  BY Zenon DEF Committed, Due, DueOf
<1> QED
  BY <1>1 DEF CrossingIsTold, Told

\* What the inductive invariant says of a state, variable by variable.
RisksFit(jobs, row, class, n, not_sure) ==
  /\ IsRow(row)
  /\ jobs = [r \in Recomputers |-> jobs[r]]
  /\ \A r \in Recomputers : JobFits(jobs[r])
  /\ n \in Nat
  /\ ~ Above(row, class) => n = 0 /\ ~ not_sure
  /\ Told(jobs, row, class, n, not_sure)

RisksInv == RisksFit(recompute, risk, appetiteOfClass, mails, unsure)

LEMMA DueCount ==
  ASSUME NEW jobs, NEW row, NEW class
  PROVE  IsFiniteSet(DueOf(jobs, row, class)) /\ Cardinality(DueOf(jobs, row, class)) \in Nat
<1>1. DueOf(jobs, row, class) \subseteq Recomputers
  BY DEF DueOf
<1> QED
  BY <1>1, RiskEventsAssumption, FS_Subset, FS_CardinalityType

LEMMA RisksStart == ASSUME RisksInit PROVE RisksInv
<1>1. recompute = [r \in Recomputers |-> recompute[r]] /\ \A r \in Recomputers : recompute[r].at = "rest"
  BY DEF RisksInit, Rest
<1>2. IsRow(risk) /\ mails = 0 /\ ~ unsure /\ risk.ale = 0
  BY DEF RisksInit, IsRow, Columns
<1>3. \A r \in Recomputers : JobFits(recompute[r])
  BY <1>1 DEF JobFits
<1>4. ~ Above(risk, appetiteOfClass)
  <2>1. AppetiteOf(risk, appetiteOfClass) = appetiteOfClass /\ appetiteOfClass \in Nat
    BY DEF RisksInit, AppetiteOf
  <2> QED
    BY <1>2, <2>1 DEF Above
<1> QED
  BY <1>1, <1>2, <1>3, <1>4 DEF RisksInv, RisksFit, Told

\* A step that moves no recomputation past its commit, and neither the loss nor the appetite.
LEMMA NothingCrosses ==
  ASSUME NEW jobs, NEW next, NEW row, NEW new, NEW class, NEW newClass,
         IsRow(row), IsRow(new), new.ale = row.ale,
         AppetiteOf(new, newClass) = AppetiteOf(row, class),
         \A r \in Recomputers : /\ (next[r].at = "committed") <=> (jobs[r].at = "committed")
                                /\ next[r].at = "committed" => next[r].prev = jobs[r].prev
  PROVE  DueOf(next, new, newClass) = DueOf(jobs, row, class) /\ (Above(new, newClass) <=> Above(row, class))
<1>1. Above(new, newClass) <=> Above(row, class)
  BY DEF Above
<1>2. \A x : /\ [new EXCEPT !.ale = x].ale = x /\ [row EXCEPT !.ale = x].ale = x
             /\ AppetiteOf([new EXCEPT !.ale = x], newClass) = AppetiteOf(new, newClass)
             /\ AppetiteOf([row EXCEPT !.ale = x], class) = AppetiteOf(row, class)
  BY DEF AppetiteOf, IsRow, Columns
<1>3. \A x : Above([new EXCEPT !.ale = x], newClass) <=> Above([row EXCEPT !.ale = x], class)
  BY <1>2 DEF Above
<1>4. ASSUME NEW r \in Recomputers
      PROVE  r \in DueOf(next, new, newClass) <=> r \in DueOf(jobs, row, class)
  BY <1>1, <1>3 DEF DueOf
<1>5. DueOf(next, new, newClass) \subseteq Recomputers /\ DueOf(jobs, row, class) \subseteq Recomputers
  BY DEF DueOf
<1> QED
  BY <1>1, <1>4, <1>5

\* A step of the first kind that leaves the mails, and may only grow unsure of a rise.
LEMMA QuietStep ==
  ASSUME RisksInv, IsRow(risk'), risk'.ale = risk.ale,
         AppetiteOf(risk', appetiteOfClass') = AppetiteOf(risk, appetiteOfClass),
         recompute' = [r \in Recomputers |-> recompute'[r]],
         \A r \in Recomputers :
           /\ JobFits(recompute'[r])
           /\ (recompute'[r].at = "committed") <=> (recompute[r].at = "committed")
           /\ recompute'[r].at = "committed" => recompute'[r].prev = recompute[r].prev,
         mails' = mails, unsure' = unsure
  PROVE  RisksInv'
<1>1. RisksFit(recompute, risk, appetiteOfClass, mails, unsure)
  BY DEF RisksInv
<1>2. /\ DueOf(recompute', risk', appetiteOfClass') = DueOf(recompute, risk, appetiteOfClass)
      /\ Above(risk', appetiteOfClass') <=> Above(risk, appetiteOfClass)
  <2>1. IsRow(risk)
    BY <1>1 DEF RisksFit
  <2> QED
    BY <2>1, NothingCrosses
<1>3. Told(recompute', risk', appetiteOfClass', mails', unsure')
  BY <1>1, <1>2 DEF RisksFit, Told
<1>4. RisksFit(recompute', risk', appetiteOfClass', mails', unsure')
  BY <1>1, <1>2, <1>3 DEF RisksFit
<1> QED
  BY <1>4 DEF RisksInv

LEMMA RecomputeReadKeeps ==
  ASSUME RisksInv, NEW r \in Recomputers, RecomputeRead(r)
  PROVE  RisksInv'
<1>1. /\ risk' = risk /\ appetiteOfClass' = appetiteOfClass /\ mails' = mails /\ unsure' = unsure
      /\ recompute[r].at = "rest"
  BY DEF RecomputeRead
<1>2. PICK engine \in [linked -> Costs] :
       recompute' = [recompute EXCEPT ![r] =
         [at |-> "read", loaded |-> risk, old |-> [f \in linked |-> cost[f]],
          costs |-> [f \in linked |-> IF cost[f] # NONE THEN cost[f] ELSE engine[f]],
          prev |-> risk.ale]]
  BY DEF RecomputeRead
<1>3. IsRow(risk) /\ recompute = [s \in Recomputers |-> recompute[s]]
      /\ \A s \in Recomputers : JobFits(recompute[s])
  BY DEF RisksInv, RisksFit
<1>4. /\ recompute' = [s \in Recomputers |-> recompute'[s]]
      /\ recompute'[r].at = "read" /\ recompute'[r].loaded = risk /\ recompute'[r].prev = risk.ale
      /\ \A s \in Recomputers : s # r => recompute'[s] = recompute[s]
  BY <1>2, <1>3
<1>5. JobFits(recompute'[r])
  BY <1>3, <1>4 DEF JobFits
<1>6. ASSUME NEW s \in Recomputers
      PROVE  /\ JobFits(recompute'[s])
             /\ (recompute'[s].at = "committed") <=> (recompute[s].at = "committed")
             /\ recompute'[s].at = "committed" => recompute'[s].prev = recompute[s].prev
  <2>1. CASE s = r
    BY <1>1, <1>4, <1>5, <2>1
  <2>2. CASE s # r
    BY <1>3, <1>4, <2>2
  <2> QED
    BY <2>1, <2>2
<1> QED
  BY <1>1, <1>3, <1>4, <1>6, QuietStep

LEMMA RecomputeCommitKeeps ==
  ASSUME RisksInv, NEW r \in Recomputers, RecomputeCommit(r)
  PROVE  RisksInv'
<1> DEFINE j == recompute[r]
           class == appetiteOfClass
           x == Ale(j.loaded, j.costs)
           y == IF j.loaded.expert THEN j.loaded.aro ELSE Aro(j.loaded, DOMAIN j.costs)
           new == [j.loaded EXCEPT !.ale = x, !.aro = y]
<1>1. /\ j.at = "read" /\ risk' = Flush(risk, j.loaded, new) /\ appetiteOfClass' = class
      /\ recompute' = [recompute EXCEPT ![r] = [at |-> "committed", prev |-> j.prev]]
      /\ mails' = IF Above(risk', class) THEN mails ELSE 0
      /\ unsure' = (Above(risk', class) /\ (unsure \/ j.loaded.ale # risk.ale \/ Committed # {}))
  <2>1. [j.loaded EXCEPT !.ale = Ale(j.loaded, j.costs),
                         !.aro = IF j.loaded.expert THEN @ ELSE Aro(j.loaded, DOMAIN j.costs)] = new
    <3>1. j.at = "read" /\ JobFits(j)
      BY DEF RecomputeCommit, RisksInv, RisksFit
    <3>2. IsRow(j.loaded)
      BY <3>1 DEF JobFits
    <3> QED
      BY <3>2 DEF IsRow, Columns
  <2> QED
    BY <2>1 DEF RecomputeCommit
<1>2. /\ IsRow(risk) /\ recompute = [s \in Recomputers |-> recompute[s]] /\ mails \in Nat
      /\ \A s \in Recomputers : JobFits(recompute[s])
      /\ ~ Above(risk, class) => mails = 0 /\ ~ unsure
      /\ Told(recompute, risk, class, mails, unsure)
  BY DEF RisksInv, RisksFit
<1>3. IsRow(j.loaded) /\ j.prev = j.loaded.ale
  BY <1>1, <1>2 DEF JobFits
<1>4. IsRow(risk') /\ AppetiteOf(risk', class) = AppetiteOf(risk, class)
  <2>1. IsRow(risk') /\ risk'.appetite = risk.appetite
    <3>1. new = [j.loaded EXCEPT !.ale = x, !.aro = y]
      OBVIOUS
    <3> HIDE DEF x, y, j, new
    <3>2. IsRow(Flush(risk, j.loaded, new)) /\ Flush(risk, j.loaded, new).appetite = risk.appetite
      BY <1>2, <1>3, <3>1 DEF IsRow, Columns, Flush
    <3> QED
      BY <1>1, <3>2
  <2> QED
    BY <2>1 DEF AppetiteOf
<1>5. /\ recompute' = [s \in Recomputers |-> recompute'[s]]
      /\ recompute'[r].at = "committed" /\ recompute'[r].prev = j.prev
      /\ \A s \in Recomputers : s # r => recompute'[s] = recompute[s]
  BY <1>1, <1>2
<1>6. \A s \in Recomputers : JobFits(recompute'[s])
  <2>1. JobFits(recompute'[r])
    BY <1>5 DEF JobFits
  <2> QED
    BY <1>2, <1>5, <2>1
<1> HIDE DEF j, new
<1>7. mails' \in Nat /\ (~ Above(risk', class) => mails' = 0 /\ ~ unsure')
  BY <1>1, <1>2
<1>8. ASSUME Above(risk', class), ~ unsure'
      PROVE  mails' + Cardinality(DueOf(recompute', risk', class)) = 1
  <2>1. ~ unsure /\ j.loaded.ale = risk.ale /\ Committed = {} /\ mails' = mails
    BY <1>1, <1>8
  <2>2. \A s \in Recomputers : recompute[s].at # "committed"
    BY <2>1 DEF Committed
  <2>3. DueOf(recompute, risk, class) = {}
    BY <2>2 DEF DueOf
  <2>4. DueOf(recompute', risk', class) \subseteq {r}
    BY <1>5, <2>2 DEF DueOf
  <2>5. Above([risk' EXCEPT !.ale = j.prev], class) <=> Above(risk, class)
    <3>1. [risk' EXCEPT !.ale = j.prev].ale = j.prev
          /\ AppetiteOf([risk' EXCEPT !.ale = j.prev], class) = AppetiteOf(risk', class)
      BY <1>4 DEF IsRow, Columns, AppetiteOf
    <3>2. j.prev = risk.ale
      BY <1>3, <2>1
    <3> QED
      BY <1>4, <3>1, <3>2 DEF Above
  <2>6. r \in DueOf(recompute', risk', class) <=> ~ Above(risk, class)
    BY <1>5, <1>8, <2>5 DEF DueOf
  <2>7. CASE Above(risk, class)
    <3>1. DueOf(recompute', risk', class) = {}
      BY <2>4, <2>6, <2>7
    <3>2. mails + Cardinality({}) = 1
      BY <1>2, <2>1, <2>3, <2>7 DEF Told
    <3> QED
      BY <2>1, <3>1, <3>2
  <2>8. CASE ~ Above(risk, class)
    <3>1. DueOf(recompute', risk', class) = {r}
      BY <2>4, <2>6, <2>8
    <3>2. Cardinality({r}) = 1 /\ mails = 0
      BY <1>2, <2>8, FS_Singleton
    <3> QED
      BY <2>1, <3>1, <3>2
  <2> QED
    BY <2>7, <2>8
<1>9. Told(recompute', risk', class, mails', unsure')
  BY <1>8 DEF Told
<1>10. RisksFit(recompute', risk', class, mails', unsure')
  BY <1>4, <1>5, <1>6, <1>7, <1>9 DEF RisksFit
<1> QED
  BY <1>1, <1>10 DEF RisksInv

LEMMA RecomputeNotifyKeeps ==
  ASSUME RisksInv, NEW r \in Recomputers, RecomputeNotify(r)
  PROVE  RisksInv'
<1> DEFINE class == appetiteOfClass
           due == DueOf(recompute, risk, class)
<1>1. /\ recompute[r].at = "committed" /\ risk' = risk /\ appetiteOfClass' = class /\ unsure' = unsure
      /\ mails' = IF Above(risk, class) /\ Due(recompute[r]) THEN mails + 1 ELSE mails
      /\ recompute' = [recompute EXCEPT ![r] = Rest]
  BY DEF RecomputeNotify, Committed
<1>2. /\ IsRow(risk) /\ recompute = [s \in Recomputers |-> recompute[s]] /\ mails \in Nat
      /\ \A s \in Recomputers : JobFits(recompute[s])
      /\ ~ Above(risk, class) => mails = 0 /\ ~ unsure
      /\ Told(recompute, risk, class, mails, unsure)
  BY DEF RisksInv, RisksFit
<1>3. /\ recompute' = [s \in Recomputers |-> recompute'[s]] /\ recompute'[r].at = "rest"
      /\ \A s \in Recomputers : s # r => recompute'[s] = recompute[s]
  BY <1>1, <1>2 DEF Rest
<1>4. \A s \in Recomputers : JobFits(recompute'[s])
  <2>1. JobFits(recompute'[r])
    BY <1>3 DEF JobFits
  <2> QED
    BY <1>2, <1>3, <2>1
<1>5. DueOf(recompute', risk, class) = due \ {r}
  BY <1>3 DEF DueOf
<1>6. r \in due <=> Due(recompute[r])
  BY <1>1 DEF DueOf, Due
<1>7. IsFiniteSet(due) /\ Cardinality(due) \in Nat
  BY DueCount
<1> HIDE DEF due
<1>8. ASSUME Above(risk, class), ~ unsure
      PROVE  mails' + Cardinality(due \ {r}) = 1
  <2>1. mails + Cardinality(due) = 1
    BY <1>2, <1>8 DEF Told, due
  <2>2. CASE r \in due
    <3>1. Cardinality(due \ {r}) = Cardinality(due) - 1
      BY <1>7, <2>2, FS_RemoveElement
    <3>2. mails' = mails + 1
      BY <1>1, <1>6, <1>8, <2>2
    <3> QED
      BY <1>2, <1>7, <2>1, <3>1, <3>2
  <2>3. CASE r \notin due
    <3>1. due \ {r} = due /\ mails' = mails
      BY <1>1, <1>6, <2>3
    <3> QED
      BY <2>1, <3>1
  <2> QED
    BY <2>2, <2>3
<1>9. Told(recompute', risk, class, mails', unsure)
  BY <1>5, <1>8 DEF Told
<1>10. mails' \in Nat /\ (~ Above(risk, class) => mails' = 0 /\ ~ unsure)
  BY <1>1, <1>2
<1>11. RisksFit(recompute', risk, class, mails', unsure)
  BY <1>2, <1>3, <1>4, <1>9, <1>10 DEF RisksFit
<1> QED
  BY <1>1, <1>11 DEF RisksInv

LEMMA RecomputeDieKeeps ==
  ASSUME RisksInv, NEW r \in Recomputers, RecomputeDie(r)
  PROVE  RisksInv'
<1> DEFINE class == appetiteOfClass
<1>1. /\ risk' = risk /\ appetiteOfClass' = class /\ mails' = mails
      /\ recompute' = [recompute EXCEPT ![r] = Rest]
      /\ unsure' = (unsure \/ (r \in Committed /\ Above(risk, class)))
  BY DEF RecomputeDie
<1>2. /\ IsRow(risk) /\ recompute = [s \in Recomputers |-> recompute[s]] /\ mails \in Nat
      /\ \A s \in Recomputers : JobFits(recompute[s])
      /\ ~ Above(risk, class) => mails = 0 /\ ~ unsure
      /\ Told(recompute, risk, class, mails, unsure)
  BY DEF RisksInv, RisksFit
<1>3. /\ recompute' = [s \in Recomputers |-> recompute'[s]] /\ recompute'[r].at = "rest"
      /\ \A s \in Recomputers : s # r => recompute'[s] = recompute[s]
  BY <1>1, <1>2 DEF Rest
<1>4. \A s \in Recomputers : JobFits(recompute'[s])
  <2>1. JobFits(recompute'[r])
    BY <1>3 DEF JobFits
  <2> QED
    BY <1>2, <1>3, <2>1
<1>5. ASSUME Above(risk, class), ~ unsure'
      PROVE  mails' + Cardinality(DueOf(recompute', risk, class)) = 1
  <2>1. ~ unsure /\ recompute[r].at # "committed"
    BY <1>1, <1>5 DEF Committed
  <2>2. DueOf(recompute', risk, class) = DueOf(recompute, risk, class)
    BY <1>3, <2>1 DEF DueOf
  <2> QED
    BY <1>1, <1>2, <1>5, <2>1, <2>2 DEF Told
<1>6. Told(recompute', risk, class, mails', unsure')
  BY <1>5 DEF Told
<1>7. RisksFit(recompute', risk, class, mails', unsure')
  BY <1>1, <1>2, <1>3, <1>4, <1>6 DEF RisksFit
<1> QED
  BY <1>1, <1>7 DEF RisksInv

\* An edit of the row or of the configuration that leaves the loss as it is.
LEMMA AppetiteKeeps ==
  ASSUME RisksInv, IsRow(risk'), risk'.ale = risk.ale, recompute' = recompute,
         AppetiteMoves(risk', appetiteOfClass')
  PROVE  RisksInv'
<1> DEFINE class == appetiteOfClass'
<1>1. /\ recompute = [s \in Recomputers |-> recompute[s]] /\ mails \in Nat /\ IsRow(risk)
      /\ \A s \in Recomputers : JobFits(recompute[s])
      /\ Told(recompute, risk, appetiteOfClass, mails, unsure)
  BY DEF RisksInv, RisksFit
<1>2. /\ mails' = IF Above(risk', class) THEN mails ELSE 0
      /\ unsure' = (Above(risk', class) /\
                    (unsure \/ AppetiteOf(risk', class) # AppetiteOf(risk, appetiteOfClass)))
  BY DEF AppetiteMoves
<1>3. ASSUME Above(risk', class), ~ unsure'
      PROVE  mails' + Cardinality(DueOf(recompute, risk', class)) = 1
  <2>1. ~ unsure /\ AppetiteOf(risk', class) = AppetiteOf(risk, appetiteOfClass) /\ mails' = mails
    BY <1>2, <1>3
  <2>2. /\ DueOf(recompute, risk', class) = DueOf(recompute, risk, appetiteOfClass)
        /\ Above(risk', class) <=> Above(risk, appetiteOfClass)
    BY <1>1, <2>1, NothingCrosses
  <2> QED
    BY <1>1, <1>3, <2>1, <2>2 DEF Told
<1>4. Told(recompute, risk', class, mails', unsure')
  BY <1>3 DEF Told
<1>5. mails' \in Nat /\ (~ Above(risk', class) => mails' = 0 /\ ~ unsure')
  BY <1>1, <1>2
<1>6. RisksFit(recompute, risk', class, mails', unsure')
  BY <1>1, <1>4, <1>5 DEF RisksFit
<1> QED
  BY <1>6 DEF RisksInv

LEMMA UpdateRiskKeeps == ASSUME RisksInv, UpdateRisk PROVE RisksInv'
<1>1. IsRow(risk)
  BY DEF RisksInv, RisksFit
<1>2. IsRow(risk') /\ risk'.ale = risk.ale
  <2>1. \/ \E appetite \in Appetites \cup {NONE} : risk' = [risk EXCEPT !.appetite = appetite]
        \/ \E aro \in {NONE, 2}, expert \in BOOLEAN : risk' = [risk EXCEPT !.aro = aro, !.expert = expert]
        \/ \E sle \in (Costs \cap Nat) \cup {NONE} : risk' = [risk EXCEPT !.sle = sle]
        \/ risk' = [risk EXCEPT !.active = ~ @]
    BY DEF UpdateRisk
  <2> QED
    BY <1>1, <2>1 DEF IsRow, Columns
<1>3. AppetiteMoves(risk', appetiteOfClass') /\ recompute' = recompute
  BY DEF UpdateRisk
<1> QED
  BY <1>2, <1>3, AppetiteKeeps

LEMMA ClassAppetiteKeeps ==
  ASSUME RisksInv, NEW a, ClassAppetite(a)
  PROVE  RisksInv'
<1>1. IsRow(risk)
  BY DEF RisksInv, RisksFit
<1>2. risk' = risk /\ recompute' = recompute /\ AppetiteMoves(risk', appetiteOfClass')
  BY DEF ClassAppetite
<1> QED
  BY <1>1, <1>2, AppetiteKeeps

LEMMA RiskSteps == ASSUME RisksInv, [RisksNext]_riskVars PROVE RisksInv'
<1>1. ASSUME UNCHANGED <<risk, appetiteOfClass, recompute, mails, unsure>> PROVE RisksInv'
  BY <1>1 DEF RisksInv
<1>2. CASE RisksNext
  <2>1. ASSUME NEW f \in Failures, NEW c \in Costs, LinkFailure(f) \/ Recost(f, c) PROVE RisksInv'
    BY <1>1, <2>1 DEF LinkFailure, Recost
  <2>2. ASSUME NEW s \in Subchars, LinkSubchar(s) PROVE RisksInv'
    BY <1>1, <2>2 DEF LinkSubchar
  <2>3. ASSUME NEW m \in Remedies, NEW share \in 0 .. SHARE, LinkMeasure(m, share) PROVE RisksInv'
    BY <1>1, <2>3 DEF LinkMeasure
  <2>4. ASSUME NEW f \in Failures, LinkFailure(f) PROVE RisksInv'
    BY <1>1, <2>4 DEF LinkFailure
  <2> QED
    BY <1>2, <2>1, <2>2, <2>3, <2>4, RecomputeReadKeeps, RecomputeCommitKeeps, RecomputeNotifyKeeps,
       RecomputeDieKeeps, UpdateRiskKeeps, ClassAppetiteKeeps DEF RisksNext
<1>3. CASE UNCHANGED riskVars
  BY <1>1, <1>3 DEF riskVars
<1> QED
  BY <1>2, <1>3

(***************************************************************************)
(* The owner of a risk is told of a rise over the appetite exactly once,   *)
(* however recomputations, edits and links interleave, as long as no two   *)
(* recomputations crossed, none died between its commit and its mail, and  *)
(* the appetite was not moved (recompute_ale, _notify_threshold_crossed).  *)
(***************************************************************************)
THEOREM CrossingIsToldAlways == RisksSpec => []CrossingIsTold
<1>1. RisksInit => RisksInv
  BY RisksStart
<1>2. RisksInv /\ [RisksNext]_riskVars => RisksInv'
  BY RiskSteps
<1>3. RisksInv => CrossingIsTold
  BY CrossingIsToldOf DEF RisksInv, RisksFit
<1> QED
  BY <1>1, <1>2, <1>3, PTL DEF RisksSpec

-----------------------------------------------------------------------------
(***************************************************************************)
(* The money of a risk. Its characteristics all get the same part, and     *)
(* there is a part for each: the whole is a multiple of their number.      *)
(***************************************************************************)

\* The characteristics a risk is linked to.
Linked == {s[1] : s \in chars}

\* The number the loss is divided by is the number of those characteristics, and divides the whole.
LEMMA CellParts ==
  ASSUME chars \subseteq Subchars
  PROVE  /\ IsFiniteSet(Characteristics) /\ Linked \in SUBSET Characteristics
         /\ IsFiniteSet(Linked) /\ Cardinality(Linked) \in Nat /\ (chars # {} => Cardinality(Linked) # 0)
         /\ CharacteristicsOf \in Nat \ {0} /\ (chars # {} => CharacteristicsOf = Cardinality(Linked))
         /\ Whole \in Nat
         /\ chars # {} => CharacteristicsOf * (Whole \div CharacteristicsOf) = Whole
<1> DEFINE n == Cardinality(Characteristics)
           k == Cardinality(Linked)
<1>1. IsFiniteSet(Characteristics)
  <2> DEFINE f == [s \in Subchars |-> s[1]]
  <2>1. f \in Surjection(Subchars, Characteristics)
    BY DEF Characteristics, Surjection
  <2> QED
    BY <2>1, FS_Surjection, RiskEventsAssumption
<1>2. Linked \in SUBSET Characteristics /\ IsFiniteSet(Linked) /\ k \in Nat /\ n \in Nat /\ k <= n
  <2>1. Linked \in SUBSET Characteristics
    BY DEF Linked, Characteristics
  <2> QED
    BY <1>1, <2>1, FS_Subset, FS_CardinalityType
<1>3. chars # {} => k # 0
  <2>1. chars # {} => Linked # {}
    BY DEF Linked
  <2> QED
    BY <1>2, <2>1, FS_EmptySet
<1>4. CharacteristicsOf = IF k >= 1 THEN k ELSE 1
  <2>1. CharacteristicsOf = Max({k, 1})
    BY DEF CharacteristicsOf, Linked
  <2>2. Max({k, 1}) \in {k, 1} /\ \A x \in {k, 1} : Max({k, 1}) >= x
    <3>1. \E x \in {k, 1} : \A y \in {k, 1} : x >= y
      BY <1>2
    <3> HIDE DEF k
    <3> QED
      BY <3>1 DEF Max
  <2> HIDE DEF k
  <2> QED
    BY <1>2, <2>1, <2>2
<1>5. IsFiniteSet(1 .. n) /\ \A x \in 1 .. n : x \in Nat
  BY <1>2, FS_Interval
<1>6. Whole \in Nat
  BY <1>5, ProductFold DEF Whole
<1>7. ASSUME chars # {} PROVE k * (Whole \div k) = Whole
  <2>1. k \in 1 .. n
    BY <1>2, <1>3, <1>7
  <2>2. PICK q \in Nat : Whole = k * q
    BY <1>5, <2>1, ProductDivides DEF Whole
  <2>3. Whole \div k = q
    BY <1>2, <1>3, <1>7, <2>2, DivExact
  <2> QED
    BY <2>2, <2>3
<1> HIDE DEF k
<1> QED
  BY <1>1, <1>2, <1>3, <1>4, <1>6, <1>7 DEF k

\* What measures take off adds up to a number of parts.
LEMMA SharesNat == ASSUME RisksTypeOK, NEW ms \in SUBSET Remedies PROVE SharesOf(ms) \in Nat
<1> DEFINE f == [m \in ms |-> ShareOf(m)]
<1>1. IsFiniteSet(ms)
  BY RiskEventsAssumption, FS_Subset
<1>2. \A m \in ms : f[m] \in Nat
  BY RiskEventsAssumption DEF RisksTypeOK, ShareOf
<1>3. DOMAIN f = ms
  OBVIOUS
<1> HIDE DEF f
<1>4. SumFunctionOnSet(f, ms) \in Nat
  BY <1>1, <1>2, SumNat
<1> QED
  BY <1>3, <1>4 DEF SharesOf, SumFunction, f

\* What the money adds up to, in any state of that type.
LEMMA MoneyOf == ASSUME RisksTypeOK PROVE MoneyAddsUp
<1> DEFINE A == IF risk.active THEN Linked ELSE {}
           k == CharacteristicsOf
           v == risk.ale * (Whole \div k)
           cells == [ch \in Characteristics |-> InCell(ch)]
           taken == [ch \in Characteristics |-> CellDelta(ch)]
           share == Min({SHARE, SharesOf(Remedies)})
<1>1. risk.ale \in Nat /\ risk.active \in BOOLEAN /\ chars \subseteq Subchars
  BY DEF RisksTypeOK, RiskRow
<1>2. /\ IsFiniteSet(Characteristics) /\ Linked \in SUBSET Characteristics
      /\ IsFiniteSet(Linked) /\ Cardinality(Linked) \in Nat /\ (chars # {} => Cardinality(Linked) # 0)
      /\ k \in Nat \ {0} /\ (chars # {} => k = Cardinality(Linked))
      /\ Whole \in Nat
      /\ chars # {} => k * (Whole \div k) = Whole
  BY <1>1, CellParts
<1>3. Whole \div k \in Nat /\ v \in Nat
  <2>1. Whole \div k \in Nat
    BY <1>2, DivNat
  <2> QED
    BY <1>1, <2>1
<1>4. A \in SUBSET Characteristics /\ \A ch \in Characteristics : cells[ch] = IF ch \in A THEN v ELSE 0
  BY <1>1, <1>2 DEF InCell, Linked
<1>5. SumFunctionOnSet(cells, Characteristics) = Cardinality(A) * v
  <2> HIDE DEF A, v, cells
  <2> QED
    BY <1>2, <1>3, <1>4, SumSame
<1>6. SumFunction(cells) = Cardinality(A) * v /\ SumFunction(taken) = SumFunctionOnSet(taken, Characteristics)
  BY <1>5 DEF SumFunction
<1>7. AtRisk \in Nat /\ AtRisk * Whole \in Nat
  BY <1>1, <1>2 DEF AtRisk
<1>8. ASSUME chars # {} PROVE SumFunction(cells) = AtRisk * Whole
  <2>1. CASE risk.active
    <3> DEFINE d == Whole \div k
               ale == risk.ale
    <3>1. SumFunction(cells) = k * (ale * d) /\ AtRisk = ale /\ Whole = k * d
      BY <1>2, <1>6, <1>8, <2>1 DEF AtRisk
    <3>2. d \in Nat /\ ale \in Nat /\ k \in Nat
      BY <1>1, <1>2, <1>3
    <3> HIDE DEF d, ale, k
    <3>3. k * (ale * d) = ale * (k * d)
      BY <3>2
    <3> QED
      BY <3>1, <3>3
  <2>2. CASE ~ risk.active
    <3>1. Cardinality(A) = 0 /\ AtRisk = 0
      BY <2>2, FS_EmptySet DEF AtRisk
    <3> HIDE DEF A, v
    <3> QED
      BY <1>2, <1>3, <1>6, <3>1
  <2> QED
    BY <2>1, <2>2
<1>9. SumFunction(cells) <= AtRisk * Whole
  <2>1. CASE chars = {}
    <3>1. A = {}
      BY <2>1 DEF Linked
    <3>2. Cardinality(A) = 0
      BY <3>1, FS_EmptySet
    <3> HIDE DEF A, v
    <3> QED
      BY <1>3, <1>6, <1>7, <3>2
  <2> QED
    BY <1>7, <1>8, <2>1
<1>10. share \in 0 .. SHARE
  <2> DEFINE n == SharesOf(Remedies)
  <2>1. n \in Nat /\ SHARE \in Nat
    BY SharesNat, RiskEventsAssumption
  <2> HIDE DEF n
  <2>2. Min({SHARE, n}) \in {SHARE, n} /\ \A x \in {SHARE, n} : Min({SHARE, n}) <= x
    <3>1. \E x \in {SHARE, n} : \A y \in {SHARE, n} : x <= y
      BY <2>1
    <3> QED
      BY <3>1 DEF Min
  <2> QED
    BY <2>1, <2>2 DEF n
<1>11. \A ch \in Characteristics : /\ cells[ch] \in Nat /\ taken[ch] \in Nat /\ taken[ch] <= cells[ch]
  <2> TAKE ch \in Characteristics
  <2>1. InCell(ch) \in Nat
    <3> HIDE DEF v, A
    <3> QED
      BY <1>3, <1>4
  <2>2. CellDelta(ch) = (InCell(ch) * share) \div SHARE
    BY DEF CellDelta
  <2> HIDE DEF share
  <2>3. CellDelta(ch) \in Nat /\ CellDelta(ch) <= InCell(ch)
    BY <1>10, <2>1, <2>2, DivShare, RiskEventsAssumption
  <2> QED
    BY <2>1, <2>3
<1>12. SumFunction(taken) <= AtRisk * Whole
  <2> HIDE DEF cells, taken, A, v
  <2>1. \A ch \in Characteristics : taken[ch] \in Int /\ cells[ch] \in Int /\ taken[ch] <= cells[ch]
    BY <1>11
  <2>2. SumFunctionOnSet(taken, Characteristics) <= SumFunctionOnSet(cells, Characteristics)
    BY <1>2, <2>1, SumLe
  <2>3. SumFunctionOnSet(taken, Characteristics) \in Int /\ SumFunctionOnSet(cells, Characteristics) \in Int
    BY <1>2, <2>1, SumFold
  <2> QED
    BY <1>5, <1>6, <1>7, <1>9, <2>2, <2>3
<1>13. ASSUME SharesOf(Done) <= SHARE PROVE Residual >= 0
  <2>1. SharesOf(Done) \in 0 .. SHARE /\ SHARE \in Nat \ {0}
    BY <1>13, SharesNat, RiskEventsAssumption
  <2>2. CoveredByDone \in Nat /\ CoveredByDone <= AtRisk
    BY <1>7, <2>1, DivShare DEF CoveredByDone
  <2> QED
    BY <1>7, <2>2 DEF Residual
<1> QED
  BY <1>8, <1>12, <1>13 DEF MoneyAddsUp

(***************************************************************************)
(* The heat map and the portfolio agree on every risk: its parts in the    *)
(* cells add up to what it puts at risk, the effects of measures to no     *)
(* more, and what remains of it is not negative as long as shares of the   *)
(* measures that are done do not exceed the whole (cell_detail,            *)
(* _characteristics_per_risk, portfolio_risk_summary).                     *)
(***************************************************************************)
THEOREM MoneyAddsUpAlways == RisksSpec => []MoneyAddsUp
BY RisksBegin, RisksTyped, MoneyOf, PTL DEF RisksSpec

-----------------------------------------------------------------------------
(***************************************************************************)
(* AiPanel. What is normalized stays between 0 and 1, so a row with a      *)
(* value has an X: agreement of the experts leaves every row it writes to  *)
(* computed, which is what keeps a complete period complete.               *)
(***************************************************************************)

\* The mean of the scores of a group is a score.
LEMMA MeanScoreWithin ==
  ASSUME PanelTypeOK, Group # {}, NEW s \in Common
  PROVE  MeanScore(s) \in 0 .. TOP
<1> DEFINE f == [e \in Group |-> score[e][s]]
<1>1. Group \in SUBSET Experts /\ IsFiniteSet(Group)
  BY PanelAssumption, FS_Subset DEF Group
<1>2. \A e \in Group : f[e] \in 0 .. TOP
  BY <1>1 DEF PanelTypeOK, Common
<1>3. Cardinality(Group) \in Nat \ {0} /\ TOP \in Nat
  BY <1>1, FS_CardinalityType, FS_EmptySet, PanelAssumption
<1>4. MeanScore(s) = SumFunctionOnSet(f, Group) \div Cardinality(Group)
  BY DEF MeanScore, SumFunction
<1> HIDE DEF f
<1>5. SumFunctionOnSet(f, Group) \in 0 .. Cardinality(Group) * TOP
  BY <1>1, <1>2, <1>3, SumAtMost
<1> QED
  BY <1>3, <1>4, <1>5, DivAtMost

\* An X is between 0 and 1, with a baseline and without.
LEMMA NormalizedWithin ==
  ASSUME NEW raw \in 0 .. TOP, NEW b \in Baselines \cup {NONE}
  PROVE  /\ Normalized(raw, b).x \in 0 .. TOP
         /\ Normalized(raw, b).conformant \in BOOLEAN \cup {NONE}
<1>0. TOP \in Nat \ {0} /\ raw \in Nat
  BY PanelAssumption
<1>1. CASE b = NONE
  BY <1>1 DEF Normalized
<1>2. CASE b # NONE
  <2> DEFINE off == raw - b.at
             tolerance == IF off > 0 THEN b.high ELSE b.low
             away == IF off > 0 THEN off ELSE 0 - off
             part == (TOP * away) \div tolerance
  <2>1. b.at \in 0 .. TOP /\ b.low \in Nat /\ b.high \in Nat
    BY <1>2, PanelAssumption
  <2>2. off \in Int /\ tolerance \in Nat /\ away \in Nat
    BY <1>0, <2>1
  <2>3. Normalized(raw, b) =
          [x |-> IF off = 0 THEN TOP ELSE IF tolerance = 0 THEN 0 ELSE Clip(TOP - part),
           conformant |-> away <= tolerance]
    BY <1>2 DEF Normalized
  <2> HIDE DEF off, tolerance, away
  <2>4. tolerance # 0 => part \in Int
    <3>1. TOP * away \in Nat
      BY <1>0, <2>2
    <3> QED
      BY <2>2, <3>1, DivNat
  <2> HIDE DEF part
  <2>5. tolerance # 0 => Clip(TOP - part) \in 0 .. TOP
    BY <1>0, <2>4 DEF Clip
  <2>6. Normalized(raw, b).x = IF off = 0 THEN TOP ELSE IF tolerance = 0 THEN 0 ELSE Clip(TOP - part)
    BY <2>3
  <2>7. Normalized(raw, b).conformant \in BOOLEAN
    BY <2>3
  <2> QED
    BY <1>0, <2>5, <2>6, <2>7
<1> QED
  BY <1>1, <1>2

\* A row with a value in it is a row, and has an X if there is a value.
LEMMA MeasuredRow ==
  ASSUME NEW row \in PanelValue, NEW raw \in (0 .. TOP) \cup {NONE}
  PROVE  /\ Measured(row, raw) \in PanelValue
         /\ raw # NONE => Measured(row, raw).x # NONE
         /\ Measured(row, raw).unmeasurable = row.unmeasurable
<1>1. CASE raw = NONE
  BY <1>1 DEF Measured, PanelValue
<1>2. CASE raw # NONE
  <2> DEFINE n == Normalized(raw, row.baseline)
  <2>1. n.x \in 0 .. TOP /\ n.conformant \in BOOLEAN \cup {NONE}
    BY <1>2, NormalizedWithin DEF PanelValue
  <2>2. Measured(row, raw) = [row EXCEPT !.raw = raw, !.x = n.x, !.conformant = n.conformant]
    BY <1>2 DEF Measured
  <2> HIDE DEF n
  <2>3. n.x # NONE
    BY <2>1, PanelAssumption
  <2> QED
    BY <1>2, <2>1, <2>2, <2>3 DEF PanelValue
<1> QED
  BY <1>1, <1>2

\* The property that matters, of a status and of rows.
CompleteIs(now, rows) ==
  now = "COMPLETE" =>
    /\ \E s \in Subs : rows[s] # NONE
    /\ \A s \in Subs : rows[s] # NONE => rows[s].x # NONE \/ rows[s].unmeasurable

PanelInv == PanelTypeOK /\ CompleteIs(stage, value)

\* A form takes the status back, whatever row it leaves.
LEMMA SaveValueKeeps ==
  ASSUME PanelInv, NEW form \in ValueForms, SaveValue(form)
  PROVE  PanelInv'
<1> DEFINE row == [metric |-> MetricOf(form.of, form.metric), raw |-> NONE, x |-> NONE,
                   conformant |-> NONE, baseline |-> form.baseline, unmeasurable |-> form.unmeasurable]
           new == IF form.unmeasurable THEN row ELSE Measured(row, form.raw)
<1>1. /\ form.of \in Subs /\ form.metric \in {"EXPERT_SCALE", "RATIO", NONE}
      /\ form.raw \in (0 .. TOP) \cup {NONE} /\ form.baseline \in Baselines \cup {NONE}
      /\ form.unmeasurable \in BOOLEAN
  BY PanelAssumption
<1>2. value' = [value EXCEPT ![form.of] = new] /\ stage' = "CALCULATED"
      /\ UNCHANGED <<score, weighing, dataset, parity>>
  BY DEF SaveValue
<1>3. row \in PanelValue
  BY <1>1 DEF PanelValue, MetricOf
<1> HIDE DEF row
<1>4. new \in PanelValue
  BY <1>1, <1>3, MeasuredRow
<1> HIDE DEF new
<1>5. value' \in [Subs -> PanelValue \cup {NONE}]
  BY <1>1, <1>2, <1>4 DEF PanelInv, PanelTypeOK
<1> QED
  BY <1>2, <1>5 DEF PanelInv, PanelTypeOK, CompleteIs

\* Agreement writes only computed rows: a complete period stays so, though the handler does not touch the status.
LEMMA ApplyConsensusKeeps ==
  ASSUME PanelInv, ApplyConsensus
  PROVE  PanelInv'
<1> DEFINE new == [metric |-> "EXPERT_SCALE", raw |-> NONE, x |-> NONE, conformant |-> NONE,
                   baseline |-> NONE, unmeasurable |-> FALSE]
           old(s) == IF value[s] = NONE THEN new ELSE value[s]
           written(s) == Measured(old(s), MeanScore(s))
<1>1. /\ Consistent
      /\ value' = [s \in Subs |-> IF s \in Common /\ Receives(s) THEN written(s) ELSE value[s]]
      /\ UNCHANGED <<stage, score, weighing, dataset, parity>>
  BY DEF ApplyConsensus
<1>2. Group # {}
  <2>1. Cardinality(Group) >= 2
    BY <1>1 DEF Consistent
  <2> QED
    BY <2>1, FS_EmptySet
<1>3. \A s \in Subs : value[s] # NONE => value[s] \in PanelValue
  BY DEF PanelInv, PanelTypeOK
<1>4. new \in PanelValue
  BY DEF PanelValue
<1> HIDE DEF new
<1>5. ASSUME NEW s \in Common, Receives(s)
      PROVE  written(s) \in PanelValue /\ written(s).x # NONE
  <2>1. s \in Subs
    BY DEF Common
  <2>2. old(s) \in PanelValue
    BY <1>3, <1>4, <2>1
  <2>3. MeanScore(s) \in 0 .. TOP /\ MeanScore(s) # NONE
    BY <1>2, MeanScoreWithin, PanelAssumption DEF PanelInv
  <2> HIDE DEF old
  <2> QED
    BY <2>2, <2>3, MeasuredRow
<1> HIDE DEF written
<1>6. /\ value' \in [Subs -> PanelValue \cup {NONE}]
      /\ \A s \in Subs : value'[s] = value[s] \/ (value'[s] \in PanelValue /\ value'[s].x # NONE)
  BY <1>1, <1>3, <1>5
<1>7. \A s \in Subs : value'[s] \in PanelValue => value'[s] # NONE
  BY PanelAssumption
<1>8. CompleteIs(stage, value')
  <2>1. CompleteIs(stage, value)
    BY DEF PanelInv
  <2> QED
    BY <1>6, <1>7, <2>1 DEF CompleteIs
<1> QED
  BY <1>1, <1>6, <1>8 DEF PanelInv, PanelTypeOK

LEMMA SaveScoresKeeps ==
  ASSUME PanelInv, NEW e \in Experts, NEW card \in Cards, SaveScores(e, card)
  PROVE  PanelInv'
<1>1. card \in [Subs -> (0 .. TOP) \cup {NONE}]
  BY PanelAssumption
<1>2. score' = [score EXCEPT ![e] = [s \in Subs |-> IF card[s] = NONE THEN score[e][s] ELSE card[s]]]
      /\ UNCHANGED <<stage, value, weighing, dataset, parity>>
  <2>1. score \in [Experts -> [Subs -> (0 .. TOP) \cup {NONE}]]
    BY DEF PanelInv, PanelTypeOK
  <2> QED
    BY <2>1 DEF SaveScores
<1>3. score' \in [Experts -> [Subs -> (0 .. TOP) \cup {NONE}]]
  <2> DEFINE S == (0 .. TOP) \cup {NONE}
  <2>1. score \in [Experts -> [Subs -> S]] /\ card \in [Subs -> S]
    BY <1>1 DEF PanelInv, PanelTypeOK
  <2> HIDE DEF S
  <2>2. [s \in Subs |-> IF card[s] = NONE THEN score[e][s] ELSE card[s]] \in [Subs -> S]
    BY <2>1
  <2>3. score' \in [Experts -> [Subs -> S]]
    BY <1>2, <2>1, <2>2
  <2> QED
    BY <2>3 DEF S
<1> QED
  BY <1>2, <1>3 DEF PanelInv, PanelTypeOK, CompleteIs

LEMMA PanelStarts == ASSUME PanelInit PROVE PanelInv
BY DEF PanelInit, PanelInv, PanelTypeOK, CompleteIs

LEMMA PanelSteps == ASSUME PanelInv, [PanelNext]_panelVars PROVE PanelInv'
<1>1. ASSUME NEW w \in Weighings \cup {Unweighted}, SaveWeights(w) PROVE PanelInv'
  BY <1>1 DEF SaveWeights, PanelInv, PanelTypeOK, CompleteIs
<1>2. CASE FinalizePanel
  <2>1. CompleteIs(stage', value')
    BY <1>2 DEF FinalizePanel, Completable, CompleteIs
  <2> QED
    BY <1>2, <2>1 DEF FinalizePanel, PanelInv, PanelTypeOK
<1>3. CASE ValuesNext
  BY <1>1, <1>2, <1>3, SaveValueKeeps, SaveScoresKeeps, ApplyConsensusKeeps DEF ValuesNext
<1>4. CASE ConditionsNext
  <2>1. UNCHANGED <<stage, value, score, weighing>>
    BY <1>4 DEF ConditionsNext, EditDataset, CheckOutliers, SaveParity
  <2>2. dataset' \in BOOLEAN \cup {NONE} /\ parity' \in {"MATCH", "ACCEPTABLE", "MISMATCH", NONE}
    BY <1>4 DEF ConditionsNext, EditDataset, CheckOutliers, SaveParity, PanelInv, PanelTypeOK
  <2> QED
    BY <2>1, <2>2 DEF PanelInv, PanelTypeOK, CompleteIs
<1>5. CASE UNCHANGED panelVars
  BY <1>5 DEF panelVars, PanelInv, PanelTypeOK, CompleteIs
<1> QED
  BY <1>3, <1>4, <1>5 DEF PanelNext

LEMMA PanelInvariant == PanelSpec => []PanelInv
BY PanelStarts, PanelSteps, PTL DEF PanelSpec

(***************************************************************************)
(* The rows of an AI period hold metrics, values and baselines of the      *)
(* catalogue, scores are between 0 and 100, and weights are weights that   *)
(* were sent (assessment/ai_router.py, ai_e3_service.py).                  *)
(***************************************************************************)
THEOREM PanelTypeCorrect == PanelSpec => []PanelTypeOK
<1>1. PanelInv => PanelTypeOK
  BY DEF PanelInv
<1> QED
  BY <1>1, PanelInvariant, PTL

(***************************************************************************)
(* While an AI period is complete, every row of it is computed or said to  *)
(* be impossible to measure: apply_consensus, which writes rows of a       *)
(* complete period and leaves its status alone, included                   *)
(* (finalize_ai_period, apply_consensus, save_value).                      *)
(***************************************************************************)
THEOREM CompleteIsCalculatedAlways == PanelSpec => []CompleteIsCalculated
<1>1. PanelInv => CompleteIsCalculated
  BY DEF PanelInv, CompleteIs, CompleteIsCalculated
<1> QED
  BY <1>1, PanelInvariant, PTL

-----------------------------------------------------------------------------
(***************************************************************************)
(* The quality of a system. A weighted mean, taken of fractions with       *)
(* weights scaled up to one over those that are there, lies between any    *)
(* two bounds of what it is taken of; Q is two of them, one over the       *)
(* other.                                                                  *)
(***************************************************************************)

\* The results of divisions, as they are added up.
Fractions == [n : Int, d : Nat \ {0}]

LEMMA PlusFraction == ASSUME NEW a \in Fractions, NEW b \in Fractions PROVE Plus(a, b) \in Fractions
<1>1. a.n \in Int /\ b.n \in Int /\ a.d \in Nat \ {0} /\ b.d \in Nat \ {0}
  BY DEF Fractions
<1>2. a.n * b.d + b.n * a.d \in Int /\ a.d * b.d \in Nat \ {0}
  BY <1>1
<1> QED
  BY <1>2 DEF Plus, Fraction, Fractions

\* A sum of fractions is a fold over the keys.
LEMMA FractionsFold ==
  ASSUME NEW S, IsFiniteSet(S), NEW f, DOMAIN f = S, \A x \in S : f[x] \in Fractions
  PROVE  \E g \in [SUBSET S -> Fractions] :
           /\ \A T \in SUBSET S : g[T] = IF T = {} THEN Fraction(0, 1) ELSE Plus(f[Pick(T)], g[Others(T)])
           /\ SumOfFractions(f) = g[S]
<1> DEFINE step == [p \in S \X Fractions |-> Plus(f[p[1]], p[2])]
           zero == Fraction(0, 1)
           Folded(h) == h = [T \in SUBSET S |-> IF T = {} THEN Fraction(0, 1) ELSE Plus(f[Pick(T)], h[Others(T)])]
<1>1. step \in [S \X Fractions -> Fractions]
  <2>1. ASSUME NEW p \in S \X Fractions PROVE Plus(f[p[1]], p[2]) \in Fractions
    BY PlusFraction
  <2> QED
    BY <2>1
<1>2. zero \in Fractions
  BY DEF Fractions, Fraction
<1>3. \A h \in [SUBSET S -> Fractions] : FoldsBy(h, S, zero, step) => Folded(h)
  <2> SUFFICES ASSUME NEW h \in [SUBSET S -> Fractions], FoldsBy(h, S, zero, step)
               PROVE  Folded(h)
    OBVIOUS
  <2>1. \A T \in SUBSET S : T # {} => Pick(T) \in S /\ h[Others(T)] \in Fractions
    BY Picked
  <2>2. \A T \in SUBSET S : h[T] = IF T = {} THEN Fraction(0, 1) ELSE Plus(f[Pick(T)], h[Others(T)])
    BY <2>1 DEF FoldsBy
  <2> QED
    BY <2>2
<1> HIDE DEF step, zero
<1>4. PICK g \in [SUBSET S -> Fractions] : FoldsBy(g, S, zero, step)
  BY <1>1, <1>2, FoldExists
<1>5. Folded(g)
  BY <1>3, <1>4
<1> DEFINE total == CHOOSE h : Folded(h)
<1>6. SumOfFractions(f) = total[S]
  BY DEF SumOfFractions, FoldFunction, FoldFunctionOnSet, MapThenFoldSet, Pick, Others
<1>7. Folded(total)
  <2> HIDE DEF Folded
  <2> QED
    BY <1>5
<1>8. /\ \A T \in SUBSET S : total[T] = IF T = {} THEN Fraction(0, 1) ELSE Plus(f[Pick(T)], total[Others(T)])
      /\ \A T \in SUBSET S : g[T] = IF T = {} THEN Fraction(0, 1) ELSE Plus(f[Pick(T)], g[Others(T)])
  <2> HIDE DEF total
  <2> QED
    BY <1>5, <1>7
<1> HIDE DEF total, Folded
<1>9. total[S] = g[S]
  <2> DEFINE Bad == {T \in SUBSET S : total[T] # g[T]}
  <2> SUFFICES ASSUME Bad # {} PROVE FALSE
    OBVIOUS
  <2>1. PICK T \in Bad : \A U \in SUBSET T : U \in Bad => U = T
    <3>1. Bad \in SUBSET (SUBSET S)
      OBVIOUS
    <3> HIDE DEF Bad
    <3> QED
      BY <3>1, SmallestSet
  <2>2. T # {}
    BY <1>8, <2>1
  <2>3. total[Others(T)] = g[Others(T)]
    BY <2>1, <2>2, Picked
  <2> QED
    BY <1>8, <2>1, <2>2, <2>3
<1> QED
  BY <1>6, <1>8, <1>9

\* One more weighted fraction leaves a mean above a whole number that all of them are above ...
LEMMA MeanStep ==
  ASSUME NEW lo \in Int, NEW total \in Nat \ {0}, NEW w \in Nat, NEW W \in Nat,
         NEW on \in Int, NEW od \in Nat \ {0}, NEW rn \in Int, NEW rd \in Nat \ {0},
         lo * od <= on, lo * W * rd <= rn * total
  PROVE  lo * (w + W) * ((od * total) * rd) <= ((on * w) * rd + rn * (od * total)) * total
<1>1. (lo * od) * (w * rd * total) <= on * (w * rd * total)
  <2> DEFINE c == w * rd * total
  <2>1. c \in Nat
    OBVIOUS
  <2> HIDE DEF c
  <2>2. (lo * od) * c <= on * c
    BY <2>1
  <2> QED
    BY <2>2 DEF c
<1>2. (lo * W * rd) * (od * total) <= (rn * total) * (od * total)
  <2> DEFINE c == od * total
  <2>1. c \in Nat
    OBVIOUS
  <2> HIDE DEF c
  <2>2. (lo * W * rd) * c <= (rn * total) * c
    BY <2>1
  <2> QED
    BY <2>2 DEF c
<1>3. lo * (w + W) * ((od * total) * rd) = (lo * od) * (w * rd * total) + (lo * W * rd) * (od * total)
  OBVIOUS
<1>4. ((on * w) * rd + rn * (od * total)) * total = on * (w * rd * total) + (rn * total) * (od * total)
  OBVIOUS
<1> QED
  BY <1>1, <1>2, <1>3, <1>4

\* ... and below one that all of them are below.
LEMMA MeanStepBelow ==
  ASSUME NEW hi \in Int, NEW total \in Nat \ {0}, NEW w \in Nat, NEW W \in Nat,
         NEW on \in Int, NEW od \in Nat \ {0}, NEW rn \in Int, NEW rd \in Nat \ {0},
         on <= hi * od, rn * total <= hi * W * rd
  PROVE  ((on * w) * rd + rn * (od * total)) * total <= hi * (w + W) * ((od * total) * rd)
<1>1. on * (w * rd * total) <= (hi * od) * (w * rd * total)
  <2> DEFINE c == w * rd * total
  <2>1. c \in Nat
    OBVIOUS
  <2> HIDE DEF c
  <2>2. on * c <= (hi * od) * c
    BY <2>1
  <2> QED
    BY <2>2 DEF c
<1>2. (rn * total) * (od * total) <= (hi * W * rd) * (od * total)
  <2> DEFINE c == od * total
  <2>1. c \in Nat
    OBVIOUS
  <2> HIDE DEF c
  <2>2. (rn * total) * c <= (hi * W * rd) * c
    BY <2>1
  <2> QED
    BY <2>2 DEF c
<1>3. hi * (w + W) * ((od * total) * rd) = (hi * od) * (w * rd * total) + (hi * W * rd) * (od * total)
  OBVIOUS
<1>4. ((on * w) * rd + rn * (od * total)) * total = on * (w * rd * total) + (rn * total) * (od * total)
  OBVIOUS
<1> QED
  BY <1>1, <1>2, <1>3, <1>4

Within(q, lo, hi) == lo * q.d <= q.n /\ q.n <= hi * q.d

\* A mean with positive weights lies within the bounds of what it is taken of.
LEMMA MeanWithin ==
  ASSUME NEW S, IsFiniteSet(S), S # {}, NEW of, \A k \in S : of[k] \in Fractions,
         NEW w, \A k \in S : w[k] \in Nat \ {0},
         NEW lo \in Int, NEW hi \in Int, \A k \in S : Within(of[k], lo, hi)
  PROVE  LET q == SumOfFractions([k \in S |->
                    Fraction(of[k].n * w[k], of[k].d * SumFunctionOnSet(w, S))])
         IN q \in Fractions /\ Within(q, lo, hi)
<1> DEFINE total == SumFunctionOnSet(w, S)
           f == [k \in S |-> Fraction(of[k].n * w[k], of[k].d * total)]
           sum(T) == SumFunctionOnSet(w, T)
<1>1. /\ \A T \in SUBSET S : sum(T) \in Nat
      /\ \A T \in SUBSET S : sum(T) = IF T = {} THEN 0 ELSE w[Pick(T)] + sum(Others(T))
  <2>1. \A k \in S : w[k] \in Nat /\ w[k] \in Int
    OBVIOUS
  <2> QED
    BY <2>1, SumNat, SumFold
<1>2. total \in Nat \ {0}
  <2>1. Pick(S) \in S /\ Others(S) \in SUBSET S
    BY Picked
  <2>2. w[Pick(S)] \in Nat \ {0} /\ sum(Others(S)) \in Nat
    BY <1>1, <2>1
  <2>3. total = w[Pick(S)] + sum(Others(S))
    BY <1>1
  <2> QED
    BY <2>2, <2>3
<1> HIDE DEF total
<1>3. \A k \in S : /\ of[k].n \in Int /\ of[k].d \in Nat \ {0} /\ w[k] \in Nat
                   /\ lo * of[k].d <= of[k].n /\ of[k].n <= hi * of[k].d
  BY DEF Fractions, Within
<1>4. \A k \in S : f[k] = [n |-> of[k].n * w[k], d |-> of[k].d * total] /\ f[k] \in Fractions
  <2> SUFFICES ASSUME NEW k \in S
               PROVE  f[k] = [n |-> of[k].n * w[k], d |-> of[k].d * total] /\ f[k] \in Fractions
    OBVIOUS
  <2>1. of[k].n * w[k] \in Int /\ of[k].d * total \in Nat \ {0}
    BY <1>2, <1>3
  <2> QED
    BY <2>1 DEF Fraction, Fractions
<1> DEFINE Fold(g) == \A T \in SUBSET S : g[T] = IF T = {} THEN Fraction(0, 1) ELSE Plus(f[Pick(T)], g[Others(T)])
<1>5. PICK g \in [SUBSET S -> Fractions] : Fold(g) /\ SumOfFractions(f) = g[S]
  <2>1. DOMAIN f = S
    OBVIOUS
  <2>2. \A x \in S : f[x] \in Fractions
    BY <1>4
  <2> HIDE DEF f
  <2>3. \E g \in [SUBSET S -> Fractions] :
           /\ \A T \in SUBSET S : g[T] = IF T = {} THEN Fraction(0, 1) ELSE Plus(f[Pick(T)], g[Others(T)])
           /\ SumOfFractions(f) = g[S]
    BY <2>1, <2>2, FractionsFold
  <2> QED
    BY <2>3
<1> HIDE DEF f
<1> DEFINE Good(T) == /\ lo * sum(T) * g[T].d <= g[T].n * total
                      /\ g[T].n * total <= hi * sum(T) * g[T].d
<1>6. \A T \in SUBSET S : g[T].n \in Int /\ g[T].d \in Nat \ {0}
  BY DEF Fractions
<1>7. Good({})
  <2>1. {} \in SUBSET S
    OBVIOUS
  <2>2. sum({}) = 0
    BY <1>1, <2>1
  <2>3. g[{}] = [n |-> 0, d |-> 1]
    <3>1. g[{}] = Fraction(0, 1)
      BY <1>5, <2>1
    <3> QED
      BY <3>1 DEF Fraction
  <2>4. sum({}) = 0 /\ g[{}].n = 0 /\ g[{}].d = 1
    BY <2>2, <2>3
  <2> QED
    BY <1>2, <2>4
<1>8. ASSUME NEW T \in SUBSET S, T # {}, Good(Others(T)) PROVE Good(T)
  <2> DEFINE k == Pick(T)
             R == Others(T)
             on == of[k].n
             od == of[k].d
             rn == g[R].n
             rd == g[R].d
  <2>1. k \in S /\ R \in SUBSET S
    BY <1>8, Picked
  <2>2. sum(T) = w[k] + sum(R) /\ sum(R) \in Nat /\ w[k] \in Nat
    BY <1>1, <1>3, <1>8, <2>1
  <2>3. g[T].n = (on * w[k]) * rd + rn * (od * total) /\ g[T].d = (od * total) * rd
    <3>1. g[T] = Plus(f[k], g[R])
      BY <1>5, <1>8
    <3>2. f[k].n = on * w[k] /\ f[k].d = od * total
      <4>1. f[k] = [n |-> on * w[k], d |-> od * total]
        BY <1>4, <2>1
      <4> HIDE DEF k, on, od
      <4> QED
        BY <4>1
    <3> QED
      BY <3>1, <3>2 DEF Plus, Fraction
  <2>4. on \in Int /\ od \in Nat \ {0} /\ rn \in Int /\ rd \in Nat \ {0} /\ lo * od <= on /\ on <= hi * od
    BY <1>3, <1>6, <2>1
  <2>5. lo * sum(R) * rd <= rn * total /\ rn * total <= hi * sum(R) * rd
    BY <1>8
  <2> DEFINE W == sum(R)
             u == w[k]
  <2> HIDE DEF on, od, rn, rd, W, u
  <2>6. lo * (u + W) * ((od * total) * rd) <= ((on * u) * rd + rn * (od * total)) * total
    BY <1>2, <2>2, <2>4, <2>5, MeanStep DEF W, u
  <2>7. ((on * u) * rd + rn * (od * total)) * total <= hi * (u + W) * ((od * total) * rd)
    BY <1>2, <2>2, <2>4, <2>5, MeanStepBelow DEF W, u
  <2>8. sum(T) = u + W /\ g[T].n = (on * u) * rd + rn * (od * total) /\ g[T].d = (od * total) * rd
    BY <2>2, <2>3 DEF W, u
  <2> QED
    BY <2>6, <2>7, <2>8
<1>9. Good(S)
  <2> HIDE DEF Good
  <2> DEFINE Bad == {T \in SUBSET S : ~ Good(T)}
  <2> SUFFICES ASSUME Bad # {} PROVE FALSE
    OBVIOUS
  <2>1. PICK T \in Bad : \A U \in SUBSET T : U \in Bad => U = T
    <3>1. Bad \in SUBSET (SUBSET S)
      OBVIOUS
    <3> HIDE DEF Bad
    <3> QED
      BY <3>1, SmallestSet
  <2>2. T # {} /\ T \in SUBSET S
    BY <1>7, <2>1
  <2>3. Others(T) \in SUBSET T /\ Others(T) # T
    BY <2>2, Picked
  <2>4. Good(Others(T))
    BY <2>1, <2>3
  <2> QED
    BY <1>8, <2>1, <2>2, <2>4
<1>10. g[S] \in Fractions /\ Within(g[S], lo, hi)
  <2> DEFINE n == g[S].n
             d == g[S].d
  <2>1. n \in Int /\ d \in Nat \ {0}
    BY <1>6
  <2>2. lo * total * d <= n * total /\ n * total <= hi * total * d
    BY <1>9 DEF total
  <2> HIDE DEF n, d
  <2>3. lo * total * d = (lo * d) * total /\ hi * total * d = (hi * d) * total
    BY <1>2, <2>1
  <2>4. \A x, y \in Int : x * total <= y * total => x <= y
    BY <1>2
  <2>5. lo * d \in Int /\ hi * d \in Int
    BY <2>1
  <2> QED
    BY <2>1, <2>2, <2>3, <2>4, <2>5 DEF Within, n, d
<1> QED
  BY <1>5, <1>10 DEF f, total

\* So it does when weights are missing, nothing or name what is not there (_weighted_mean).
LEMMA WeightedMeanWithin ==
  ASSUME NEW of, IsFiniteSet(DOMAIN of), DOMAIN of # {}, \A k \in DOMAIN of : of[k] \in Fractions,
         NEW weights, weights # NONE => \A k \in DOMAIN weights : weights[k] \in Int,
         NEW lo \in Int, NEW hi \in Int, \A k \in DOMAIN of : Within(of[k], lo, hi)
  PROVE  WeightedMean(of, weights) \in Fractions /\ Within(WeightedMean(of, weights), lo, hi)
<1> DEFINE present == IF weights = NONE THEN {} ELSE {k \in DOMAIN of \cap DOMAIN weights : weights[k] > 0}
           w == IF present = {} THEN [k \in DOMAIN of |-> 1] ELSE [k \in present |-> weights[k]]
           S == DOMAIN w
<1>1. S \subseteq DOMAIN of /\ S # {} /\ \A k \in S : w[k] \in Nat \ {0}
  <2>1. CASE present = {}
    <3>1. w = [k \in DOMAIN of |-> 1]
      BY <2>1
    <3> HIDE DEF present, w
    <3>2. S = DOMAIN of /\ \A k \in DOMAIN of : w[k] = 1
      BY <3>1
    <3> QED
      BY <3>2
  <2>2. CASE present # {}
    <3>1. S = present /\ weights # NONE
      BY <2>2
    <3>2. \A k \in present : k \in DOMAIN of /\ weights[k] \in Nat \ {0} /\ w[k] = weights[k]
      BY <2>2
    <3> HIDE DEF present, w
    <3> QED
      BY <2>2, <3>1, <3>2
  <2> QED
    BY <2>1, <2>2
<1>2. WeightedMean(of, weights) =
        SumOfFractions([k \in S |-> Fraction(of[k].n * w[k], of[k].d * SumFunctionOnSet(w, S))])
  BY DEF WeightedMean, SumFunction
<1> HIDE DEF present, w
<1>3. IsFiniteSet(S)
  BY <1>1, FS_Subset
<1>4. \A k \in S : of[k] \in Fractions /\ Within(of[k], lo, hi)
  BY <1>1
<1> HIDE DEF S
<1> QED
  BY <1>1, <1>2, <1>3, <1>4, MeanWithin

\* Numbers of a bounded range have a smallest and a largest.
LEMMA Extremes ==
  ASSUME NEW S, S # {}, NEW f, NEW top \in Nat, \A x \in S : f[x] \in 0 .. top
  PROVE  \E low, high \in S : \A x \in S : f[low] <= f[x] /\ f[x] <= f[high]
<1> DEFINE up == {f[x] : x \in S}
           down == {top - f[x] : x \in S}
<1>1. up \in SUBSET Nat /\ up # {} /\ down \in SUBSET Nat /\ down # {}
  OBVIOUS
<1>2. (\E m \in up : \A k \in up : m <= k) /\ (\E m \in down : \A k \in down : m <= k)
  <2> HIDE DEF up, down
  <2> QED
    BY <1>1, Least
<1>3. PICK low \in S : \A x \in S : f[low] <= f[x]
  BY <1>2
<1>4. PICK high \in S : \A x \in S : top - f[high] <= top - f[x]
  BY <1>2
<1>5. \A x \in S : f[x] <= f[high]
  BY <1>4
<1> QED
  BY <1>3, <1>5

\* The weights of either level are numbers.
LEMMA LevelsOf ==
  ASSUME PanelInv, NEW level \in {weighing.chars} \cup {weighing.subs[c] : c \in PanelCharacteristics}
  PROVE  level # NONE => \A k \in DOMAIN level : level[k] \in Int
<1>1. CASE weighing \in Weighings
  BY <1>1, PanelAssumption
<1>2. CASE weighing = Unweighted
  BY <1>2 DEF Unweighted
<1> QED
  BY <1>1, <1>2 DEF PanelInv, PanelTypeOK

\* Q is within the smallest and the largest X, since each characteristic is.
LEMMA QualityOf == ASSUME PanelInv PROVE QualityWithin
<1> SUFFICES ASSUME Known # {}
             PROVE  \E low, high \in Known :
                      value[low].x * Quality.d <= Quality.n /\ Quality.n <= value[high].x * Quality.d
  BY DEF QualityWithin
<1> DEFINE xs == [s \in Known |-> value[s].x]
           Of(c) == {s \in Known : CharOf[s] = c}
           Cs == {CharOf[s] : s \in Known}
<1>1. IsFiniteSet(Known) /\ TOP \in Nat
  BY PanelAssumption, FS_Subset DEF Known
<1>2. \A s \in Known : xs[s] = value[s].x /\ xs[s] \in 0 .. TOP
  BY DEF Known, PanelInv, PanelTypeOK, PanelValue
<1>3. PICK low \in Known, high \in Known : \A s \in Known : xs[low] <= xs[s] /\ xs[s] <= xs[high]
  <2> HIDE DEF xs
  <2> QED
    BY <1>1, <1>2, Extremes
<1> DEFINE lo == xs[low]
           hi == xs[high]
<1>4. lo \in Int /\ hi \in Int /\ lo = value[low].x /\ hi = value[high].x
  BY <1>1, <1>2
<1>5. \A s \in Known : Fraction(value[s].x, 1) \in Fractions /\ Within(Fraction(value[s].x, 1), lo, hi)
  <2> SUFFICES ASSUME NEW s \in Known
               PROVE  Fraction(xs[s], 1) \in Fractions /\ Within(Fraction(xs[s], 1), lo, hi)
    BY <1>2
  <2>1. lo <= xs[s] /\ xs[s] <= hi /\ xs[s] \in Int
    BY <1>1, <1>2, <1>3
  <2> HIDE DEF xs, lo, hi
  <2> QED
    BY <1>4, <2>1 DEF Fraction, Fractions, Within
<1> HIDE DEF lo, hi, xs
<1>6. ASSUME NEW c \in Cs
      PROVE  Characteristic(c) \in Fractions /\ Within(Characteristic(c), lo, hi)
  <2> DEFINE of == [s \in Of(c) |-> Fraction(value[s].x, 1)]
             level == weighing.subs[c]
  <2>1. Of(c) \in SUBSET Known /\ Of(c) # {} /\ IsFiniteSet(Of(c))
    BY <1>1, FS_Subset
  <2>2. DOMAIN of = Of(c) /\ \A s \in Of(c) : of[s] \in Fractions /\ Within(of[s], lo, hi)
    BY <1>5
  <2>3. Characteristic(c) = WeightedMean(of, level)
    BY DEF Characteristic
  <2>4. level \in {weighing.subs[k] : k \in PanelCharacteristics}
    BY DEF Known, PanelCharacteristics
  <2> HIDE DEF of, Of, level
  <2>5. level # NONE => \A k \in DOMAIN level : level[k] \in Int
    BY <2>4, LevelsOf
  <2> QED
    BY <1>4, <2>1, <2>2, <2>3, <2>5, WeightedMeanWithin
<1> DEFINE means == [c \in Cs |-> Characteristic(c)]
<1>7. IsFiniteSet(Cs) /\ Cs # {}
  <2> DEFINE f == [s \in Known |-> CharOf[s]]
  <2>1. f \in Surjection(Known, Cs)
    BY DEF Surjection
  <2> HIDE DEF f
  <2>2. IsFiniteSet(Cs)
    BY <1>1, <2>1, FS_Surjection
  <2> QED
    BY <2>2
<1>8. DOMAIN means = Cs /\ \A c \in Cs : means[c] \in Fractions /\ Within(means[c], lo, hi)
  BY <1>6
<1>9. Quality = WeightedMean(means, weighing.chars)
  BY DEF Quality
<1>10. weighing.chars # NONE => \A k \in DOMAIN weighing.chars : weighing.chars[k] \in Int
  BY LevelsOf
<1> HIDE DEF means, Cs
<1>11. Within(Quality, lo, hi)
  BY <1>4, <1>7, <1>8, <1>9, <1>10, WeightedMeanWithin
<1> QED
  BY <1>4, <1>11 DEF Within

(***************************************************************************)
(* Whatever has been measured, whatever is missing and however the         *)
(* characteristics and the subcharacteristics of each are weighted, Q is   *)
(* no smaller than the smallest X and no larger than the largest           *)
(* (aggregate, _weighted_mean).                                            *)
(***************************************************************************)
THEOREM QualityWithinAlways == PanelSpec => []QualityWithin
BY PanelInvariant, QualityOf, PTL

-----------------------------------------------------------------------------
(***************************************************************************)
(* When a group agrees. Take every doubled rank less the mean of ranks:    *)
(* the ties of an expert are what the squares of these deviations lack of  *)
(* their largest sum, so the denominator of W is a multiple of all the     *)
(* squares, its numerator one of the squares of the columns' sums, and the *)
(* difference is how far the experts are from each other.                  *)
(***************************************************************************)

\* Any element may be taken out of a sum first.
LEMMA SumOut ==
  ASSUME NEW S, IsFiniteSet(S), NEW f, \A x \in S : f[x] \in Int, NEW x \in S
  PROVE  SumFunctionOnSet(f, S) = f[x] + SumFunctionOnSet(f, S \ {x})
<1> DEFINE sum(T) == SumFunctionOnSet(f, T)
           Bad == {T \in SUBSET S : ~ \A y \in T : sum(T) = f[y] + sum(T \ {y})}
<1> SUFFICES ASSUME Bad # {} PROVE FALSE
  OBVIOUS
<1>1. PICK T \in Bad : \A U \in SUBSET T : U \in Bad => U = T
  <2>1. Bad \in SUBSET (SUBSET S)
    OBVIOUS
  <2> HIDE DEF Bad
  <2> QED
    BY <2>1, SmallestSet
<1>2. PICK y \in T : ~ (sum(T) = f[y] + sum(T \ {y}))
  BY <1>1
<1> DEFINE p == Pick(T)
<1>3. T \in SUBSET S /\ p \in T /\ Others(T) = T \ {p}
  BY <1>1, <1>2, Picked DEF Others
<1>4. \A U \in SUBSET S :
        sum(U) \in Int /\ sum(U) = IF U = {} THEN 0 ELSE f[Pick(U)] + sum(Others(U))
  BY SumFold
<1>5. sum(T) = f[p] + sum(T \ {p})
  <2>1. T # {}
    BY <1>3
  <2> HIDE DEF sum
  <2>2. sum(T) = f[p] + sum(Others(T))
    BY <1>3, <1>4, <2>1
  <2> QED
    BY <1>3, <2>2
<1> HIDE DEF p
<1>6. p # y
  BY <1>2, <1>5
<1>7. T \ {p} \notin Bad /\ T \ {y} \notin Bad
  BY <1>1, <1>2, <1>3
<1> HIDE DEF sum
<1>8. sum(T \ {p}) = f[y] + sum((T \ {p}) \ {y}) /\ sum(T \ {y}) = f[p] + sum((T \ {y}) \ {p})
  BY <1>2, <1>3, <1>6, <1>7
<1>9. (T \ {p}) \ {y} = (T \ {y}) \ {p} /\ (T \ {p}) \ {y} \in SUBSET S
  BY <1>3
<1>10. /\ f[p] \in Int /\ f[y] \in Int /\ sum((T \ {p}) \ {y}) \in Int
       /\ sum(T) = f[p] + (f[y] + sum((T \ {p}) \ {y}))
       /\ sum(T \ {y}) = f[p] + sum((T \ {p}) \ {y})
  BY <1>2, <1>3, <1>4, <1>5, <1>8, <1>9
<1>11. sum(T) = f[y] + sum(T \ {y})
  BY <1>10
<1> QED
  BY <1>2, <1>11

\* Sums over two and over three, and how many of them a set holds.
LEMMA SumTwo ==
  ASSUME NEW a, NEW b, a # b, NEW f, f[a] \in Int, f[b] \in Int
  PROVE  IsFiniteSet({a, b}) /\ Cardinality({a, b}) = 2 /\ SumFunctionOnSet(f, {a, b}) = f[a] + f[b]
<1>1. IsFiniteSet({a, b}) /\ Cardinality({a, b}) = 2
  <2>1. IsFiniteSet({a}) /\ Cardinality({a}) = 1
    BY FS_Singleton
  <2> DEFINE A == {a}
  <2>2. IsFiniteSet(A) /\ Cardinality(A) = 1 /\ b \notin A
    BY <2>1
  <2> HIDE DEF A
  <2>3. IsFiniteSet(A \cup {b}) /\ Cardinality(A \cup {b}) = 2
    BY <2>2, FS_AddElement
  <2>4. A \cup {b} = {a, b}
    BY DEF A
  <2> QED
    BY <2>3, <2>4
<1>2. \A x \in {a, b} : f[x] \in Int
  OBVIOUS
<1>3. \A T \in SUBSET {a, b} : SumFunctionOnSet(f, T) = IF T = {} THEN 0 ELSE f[Pick(T)] + SumFunctionOnSet(f, Others(T))
  BY <1>1, <1>2, SumFold
<1>4. SumFunctionOnSet(f, {b}) = f[b]
  <2>1. Pick({b}) = b /\ Others({b}) = {}
    BY Picked DEF Others
  <2>2. SumFunctionOnSet(f, {b}) = f[b] + SumFunctionOnSet(f, {}) /\ SumFunctionOnSet(f, {}) = 0
    BY <1>3, <2>1
  <2> QED
    BY <2>2
<1>5. SumFunctionOnSet(f, {a, b}) = f[a] + SumFunctionOnSet(f, {a, b} \ {a})
  <2>1. a \in {a, b}
    OBVIOUS
  <2> QED
    BY <1>1, <1>2, <2>1, SumOut
<1>6. {a, b} \ {a} = {b}
  OBVIOUS
<1> QED
  BY <1>1, <1>4, <1>5, <1>6

LEMMA SumThree ==
  ASSUME NEW S, NEW f, \A x \in S : f[x] \in Int, NEW a \in S, NEW b \in S, NEW c \in S,
         a # b, a # c, b # c, S = {a, b, c}
  PROVE  IsFiniteSet(S) /\ Cardinality(S) = 3 /\ SumFunctionOnSet(f, S) = f[a] + f[b] + f[c]
<1>1. /\ IsFiniteSet({b, c}) /\ Cardinality({b, c}) = 2
      /\ SumFunctionOnSet(f, {b, c}) = f[b] + f[c]
  BY SumTwo
<1>2. S = {b, c} \cup {a} /\ a \notin {b, c} /\ S \ {a} = {b, c}
  OBVIOUS
<1>3. IsFiniteSet(S) /\ Cardinality(S) = 3
  BY <1>1, <1>2, FS_AddElement
<1>4. SumFunctionOnSet(f, S) = f[a] + SumFunctionOnSet(f, S \ {a})
  BY <1>3, SumOut
<1>5. SumFunctionOnSet(f, S) = f[a] + (f[b] + f[c])
  BY <1>1, <1>2, <1>4
<1>6. f[a] + (f[b] + f[c]) = f[a] + f[b] + f[c]
  OBVIOUS
<1> QED
  BY <1>3, <1>5, <1>6

\* One for each of those that are in a set.
One(x, A) == IF x \in A THEN 1 ELSE 0

LEMMA CountTwo ==
  ASSUME NEW a, NEW b, a # b, NEW A \in SUBSET {a, b}
  PROVE  Cardinality(A) = One(a, A) + One(b, A)
<1> DEFINE f == [x \in {a, b} |-> One(x, A)]
           S == {a, b}
<1>1. f[a] = One(a, A) /\ f[b] = One(b, A) /\ One(a, A) \in Int /\ One(b, A) \in Int
  BY DEF One
<1>2. \A x \in S : f[x] = IF x \in A THEN 1 ELSE 0
  BY DEF One
<1> HIDE DEF f
<1>3. IsFiniteSet(S) /\ SumFunctionOnSet(f, S) = One(a, A) + One(b, A)
  BY <1>1, SumTwo
<1>4. SumFunctionOnSet(f, S) = Cardinality(A) * 1
  <2>1. 1 \in Int
    OBVIOUS
  <2> HIDE DEF S
  <2> QED
    BY <1>2, <1>3, <2>1, SumSame DEF S
<1>5. Cardinality(A) \in Nat
  BY <1>3, FS_Subset, FS_CardinalityType
<1> QED
  BY <1>3, <1>4, <1>5

LEMMA CountThree ==
  ASSUME NEW a, NEW b, NEW c, a # b, a # c, b # c, NEW A \in SUBSET {a, b, c}
  PROVE  Cardinality(A) = One(a, A) + One(b, A) + One(c, A)
<1> DEFINE S == {a, b, c}
           f == [x \in S |-> IF x \in A THEN 1 ELSE 0]
<1>1. f[a] = One(a, A) /\ f[b] = One(b, A) /\ f[c] = One(c, A)
  BY DEF One
<1>2. \A x \in S : f[x] = IF x \in A THEN 1 ELSE 0
  OBVIOUS
<1>3. f[a] \in Int /\ f[b] \in Int /\ f[c] \in Int
  OBVIOUS
<1>4. IsFiniteSet(S) /\ SumFunctionOnSet(f, S) = f[a] + f[b] + f[c]
  <2>1. a \in S /\ b \in S /\ c \in S /\ S = {a, b, c} /\ \A x \in S : f[x] \in Int
    OBVIOUS
  <2> HIDE DEF f, S
  <2> QED
    BY <2>1, SumThree
<1> HIDE DEF f
<1>5. SumFunctionOnSet(f, S) = Cardinality(A) * 1
  <2>1. 1 \in Int /\ IsFiniteSet(S)
    BY <1>4
  <2> HIDE DEF S
  <2> QED
    BY <1>2, <2>1, SumSame DEF S
<1>6. Cardinality(A) \in Nat
  BY <1>4, FS_Subset, FS_CardinalityType
<1> QED
  BY <1>1, <1>4, <1>5, <1>6

\* How many of three numbers are equal to one, and how many are more.
Equal3(u, a, b, c) == (IF a = u THEN 1 ELSE 0) + (IF b = u THEN 1 ELSE 0) + (IF c = u THEN 1 ELSE 0)
More3(u, a, b, c) == (IF a > u THEN 1 ELSE 0) + (IF b > u THEN 1 ELSE 0) + (IF c > u THEN 1 ELSE 0)
Equal2(u, a, b) == (IF a = u THEN 1 ELSE 0) + (IF b = u THEN 1 ELSE 0)
More2(u, a, b) == (IF a > u THEN 1 ELSE 0) + (IF b > u THEN 1 ELSE 0)

Dev3(u, a, b, c) == 2 * More3(u, a, b, c) + Equal3(u, a, b, c) + 1 - 4
Dev2(u, a, b) == 2 * More2(u, a, b) + Equal2(u, a, b) + 1 - 3

\* A rank, less the mean of ranks, doubled.
Dev(e, s) == Rank(e, s) - (Cardinality(Common) + 1)

\* Of three scores, ties and deviations make up the same total, however many are equal.
LEMMA ThreeRanks ==
  ASSUME NEW a \in Int, NEW b \in Int, NEW c \in Int,
         NEW x, x = Dev3(a, a, b, c), NEW y, y = Dev3(b, a, b, c), NEW z, z = Dev3(c, a, b, c),
         NEW t, t = Equal3(a, a, b, c), NEW u, u = Equal3(b, a, b, c), NEW v, v = Equal3(c, a, b, c)
  PROVE  /\ x \in -2 .. 2 /\ y \in -2 .. 2 /\ z \in -2 .. 2
         /\ 3 * (x * x + y * y + z * z) = 24 - ((t * t - 1) + (u * u - 1) + (v * v - 1))
<1> USE DEF Equal3, More3, Dev3
<1>1. CASE a = b
  <2>1. CASE b = c
    <3>1. t = 3 /\ u = 3 /\ v = 3 /\ x = 0 /\ y = 0 /\ z = 0
      BY <1>1, <2>1
    <3> QED
      BY <3>1
  <2>2. CASE b > c
    <3>1. t = 2 /\ u = 2 /\ v = 1 /\ x = -1 /\ y = -1 /\ z = 2
      BY <1>1, <2>2
    <3> QED
      BY <3>1
  <2>3. CASE b < c
    <3>1. t = 2 /\ u = 2 /\ v = 1 /\ x = 1 /\ y = 1 /\ z = -2
      BY <1>1, <2>3
    <3> QED
      BY <3>1
  <2> QED
    BY <2>1, <2>2, <2>3
<1>2. CASE a > b
  <2>1. CASE b = c
    <3>1. t = 1 /\ u = 2 /\ v = 2 /\ x = -2 /\ y = 1 /\ z = 1
      BY <1>2, <2>1
    <3> QED
      BY <3>1
  <2>2. CASE c > b /\ c = a
    <3>1. t = 2 /\ u = 1 /\ v = 2 /\ x = -1 /\ y = 2 /\ z = -1
      BY <1>2, <2>2
    <3> QED
      BY <3>1
  <2>3. CASE b > c \/ (c > b /\ c # a)
    <3>1. t = 1 /\ u = 1 /\ v = 1
      BY <1>2, <2>3
    <3>2. \/ x = -2 /\ y = 0 /\ z = 2
          \/ x = -2 /\ y = 2 /\ z = 0
          \/ x = 0 /\ y = 2 /\ z = -2
      BY <1>2, <2>3, <3>1
    <3> QED
      BY <3>1, <3>2
  <2> QED
    BY <2>1, <2>2, <2>3
<1>3. CASE a < b
  <2>1. CASE b = c
    <3>1. t = 1 /\ u = 2 /\ v = 2 /\ x = 2 /\ y = -1 /\ z = -1
      BY <1>3, <2>1
    <3> QED
      BY <3>1
  <2>2. CASE c < b /\ c = a
    <3>1. t = 2 /\ u = 1 /\ v = 2 /\ x = 1 /\ y = -2 /\ z = 1
      BY <1>3, <2>2
    <3> QED
      BY <3>1
  <2>3. CASE b < c \/ (c < b /\ c # a)
    <3>1. t = 1 /\ u = 1 /\ v = 1
      BY <1>3, <2>3
    <3>2. \/ x = 2 /\ y = 0 /\ z = -2
          \/ x = 2 /\ y = -2 /\ z = 0
          \/ x = 0 /\ y = -2 /\ z = 2
      BY <1>3, <2>3, <3>1
    <3> QED
      BY <3>1, <3>2
  <2> QED
    BY <2>1, <2>2, <2>3
<1> QED
  BY <1>1, <1>2, <1>3

\* The same of two scores.
LEMMA TwoRanks ==
  ASSUME NEW a \in Int, NEW b \in Int, NEW x, x = Dev2(a, a, b), NEW y, y = Dev2(b, a, b),
         NEW t, t = Equal2(a, a, b), NEW u, u = Equal2(b, a, b)
  PROVE  /\ x \in -2 .. 2 /\ y \in -2 .. 2
         /\ 3 * (x * x + y * y) = 6 - ((t * t - 1) + (u * u - 1))
<1> USE DEF Equal2, More2, Dev2
<1>1. CASE a = b
  <2>1. t = 2 /\ u = 2 /\ x = 0 /\ y = 0
    BY <1>1
  <2> QED
    BY <2>1
<1>2. CASE a # b
  <2>1. t = 1 /\ u = 1 /\ ((x = -1 /\ y = 1) \/ (x = 1 /\ y = -1))
    BY <1>2
  <2> QED
    BY <2>1
<1> QED
  BY <1>1, <1>2

\* Ranks and ties of an expert who gave three scores everybody gave.
LEMMA RanksOfThree ==
  ASSUME PanelTypeOK, NEW e \in Group, NEW p, NEW q, NEW r, p # q, p # r, q # r, Common = {p, q, r}
  PROVE  /\ Dev(e, p) \in -2 .. 2 /\ Dev(e, q) \in -2 .. 2 /\ Dev(e, r) \in -2 .. 2
         /\ \A s \in Common : Rank(e, s) = Dev(e, s) + 4
         /\ Ties(e) = 24 - 3 * (Dev(e, p) * Dev(e, p) + Dev(e, q) * Dev(e, q) + Dev(e, r) * Dev(e, r))
<1> DEFINE a == score[e][p]
           b == score[e][q]
           c == score[e][r]
<1>1. a \in Int /\ b \in Int /\ c \in Int
  <2>1. \A s \in Common : s \in Subs /\ score[e][s] # NONE
    BY DEF Common
  <2>2. e \in Experts
    BY DEF Group
  <2>3. \A s \in Common : score[e][s] \in 0 .. TOP
    BY <2>1, <2>2 DEF PanelTypeOK
  <2> QED
    BY <2>3, PanelAssumption
<1>2. ASSUME NEW s \in Common
      PROVE  /\ Tied(e, s) = Equal3(score[e][s], a, b, c)
             /\ Cardinality({o \in Common : score[e][o] > score[e][s]}) = More3(score[e][s], a, b, c)
  <2> DEFINE u == score[e][s]
             A == {o \in Common : score[e][o] = u}
             B == {o \in Common : score[e][o] > u}
  <2>1. Cardinality(A) = One(p, A) + One(q, A) + One(r, A) /\ Cardinality(B) = One(p, B) + One(q, B) + One(r, B)
    <3>1. A \in SUBSET {p, q, r} /\ B \in SUBSET {p, q, r}
      OBVIOUS
    <3> HIDE DEF A, B
    <3> QED
      BY <3>1, CountThree
  <2>2. /\ One(p, A) = (IF a = u THEN 1 ELSE 0) /\ One(q, A) = (IF b = u THEN 1 ELSE 0)
        /\ One(r, A) = (IF c = u THEN 1 ELSE 0)
    BY DEF One
  <2>3. /\ One(p, B) = (IF a > u THEN 1 ELSE 0) /\ One(q, B) = (IF b > u THEN 1 ELSE 0)
        /\ One(r, B) = (IF c > u THEN 1 ELSE 0)
    BY DEF One
  <2>4. Tied(e, s) = Cardinality(A)
    BY DEF Tied
  <2> HIDE DEF A, B, u, a, b, c
  <2>5. Tied(e, s) = Equal3(u, a, b, c) /\ Cardinality(B) = More3(u, a, b, c)
    BY <2>1, <2>2, <2>3, <2>4 DEF Equal3, More3
  <2> QED
    BY <2>5 DEF u, B
<1>3. \A s \in Common : Rank(e, s) = 2 * More3(score[e][s], a, b, c) + Equal3(score[e][s], a, b, c) + 1
  BY <1>2 DEF Rank
<1>4. Cardinality(Common) = 3 /\ IsFiniteSet(Common)
  <2> DEFINE f == [x \in Common |-> 0]
  <2>1. \A x \in Common : f[x] \in Int
    OBVIOUS
  <2>2. p \in Common /\ q \in Common /\ r \in Common
    OBVIOUS
  <2> HIDE DEF f
  <2> QED
    BY <2>1, <2>2, SumThree
<1> DEFINE x == Dev(e, p)
           y == Dev(e, q)
           z == Dev(e, r)
           t == Tied(e, p)
           u == Tied(e, q)
           v == Tied(e, r)
<1>5. p \in Common /\ q \in Common /\ r \in Common
  OBVIOUS
<1>6. /\ t = Equal3(a, a, b, c) /\ u = Equal3(b, a, b, c) /\ v = Equal3(c, a, b, c)
      /\ x = Dev3(a, a, b, c) /\ y = Dev3(b, a, b, c) /\ z = Dev3(c, a, b, c)
  <2>1. \A s \in Common : Dev(e, s) = Dev3(score[e][s], a, b, c)
    <3> HIDE DEF a, b, c
    <3> SUFFICES ASSUME NEW s \in Common PROVE Dev(e, s) = Dev3(score[e][s], a, b, c)
      OBVIOUS
    <3>1. More3(score[e][s], a, b, c) \in Int /\ Equal3(score[e][s], a, b, c) \in Int
      BY DEF More3, Equal3
    <3>2. Dev(e, s) = (2 * More3(score[e][s], a, b, c) + Equal3(score[e][s], a, b, c) + 1) - (3 + 1)
      BY <1>3, <1>4 DEF Dev
    <3> QED
      BY <3>1, <3>2 DEF Dev3
  <2> QED
    BY <1>2, <1>5, <2>1
<1>7. /\ x \in -2 .. 2 /\ y \in -2 .. 2 /\ z \in -2 .. 2
      /\ 3 * (x * x + y * y + z * z) = 24 - ((t * t - 1) + (u * u - 1) + (v * v - 1))
  <2> HIDE DEF a, b, c, x, y, z, t, u, v
  <2> QED
    BY <1>1, <1>6, ThreeRanks
<1>8. Ties(e) = (t * t - 1) + (u * u - 1) + (v * v - 1)
  <2> DEFINE f == [s \in Common |-> Tied(e, s) * Tied(e, s) - 1]
  <2>1. f[p] = t * t - 1 /\ f[q] = u * u - 1 /\ f[r] = v * v - 1
    BY <1>5
  <2>2. \A s \in Common : f[s] \in Int
    <3>1. \A s \in Common : Tied(e, s) \in Int
      BY <1>2 DEF Equal3
    <3> QED
      BY <3>1
  <2>3. Ties(e) = SumFunctionOnSet(f, Common)
    BY DEF Ties, SumFunction
  <2> HIDE DEF f, t, u, v
  <2>4. SumFunctionOnSet(f, Common) = f[p] + f[q] + f[r]
    BY <1>5, <2>2, SumThree
  <2> QED
    BY <2>1, <2>3, <2>4
<1>9. \A s \in Common : Rank(e, s) = Dev(e, s) + 4
  <2>1. \A s \in Common : Rank(e, s) \in Int
    BY <1>3 DEF Equal3, More3
  <2> QED
    BY <1>4, <2>1 DEF Dev
<1>10. Ties(e) = 24 - 3 * (x * x + y * y + z * z)
  <2>1. t \in Int /\ u \in Int /\ v \in Int
    BY <1>2, <1>5 DEF Equal3
  <2> HIDE DEF x, y, z, t, u, v
  <2> QED
    BY <1>7, <1>8, <2>1
<1> QED
  BY <1>7, <1>9, <1>10

\* The same of two.
LEMMA RanksOfTwo ==
  ASSUME PanelTypeOK, NEW e \in Group, NEW p, NEW q, p # q, Common = {p, q}
  PROVE  /\ Dev(e, p) \in -2 .. 2 /\ Dev(e, q) \in -2 .. 2
         /\ \A s \in Common : Rank(e, s) = Dev(e, s) + 3
         /\ Ties(e) = 6 - 3 * (Dev(e, p) * Dev(e, p) + Dev(e, q) * Dev(e, q))
<1> DEFINE a == score[e][p]
           b == score[e][q]
<1>1. a \in Int /\ b \in Int
  <2>1. \A s \in Common : s \in Subs /\ score[e][s] # NONE
    BY DEF Common
  <2>2. e \in Experts
    BY DEF Group
  <2>3. \A s \in Common : score[e][s] \in 0 .. TOP
    BY <2>1, <2>2 DEF PanelTypeOK
  <2> QED
    BY <2>3, PanelAssumption
<1>2. ASSUME NEW s \in Common
      PROVE  /\ Tied(e, s) = Equal2(score[e][s], a, b)
             /\ Cardinality({o \in Common : score[e][o] > score[e][s]}) = More2(score[e][s], a, b)
  <2> DEFINE u == score[e][s]
             A == {o \in Common : score[e][o] = u}
             B == {o \in Common : score[e][o] > u}
  <2>1. Cardinality(A) = One(p, A) + One(q, A) /\ Cardinality(B) = One(p, B) + One(q, B)
    <3>1. A \in SUBSET {p, q} /\ B \in SUBSET {p, q}
      OBVIOUS
    <3> HIDE DEF A, B
    <3> QED
      BY <3>1, CountTwo
  <2>2. One(p, A) = (IF a = u THEN 1 ELSE 0) /\ One(q, A) = (IF b = u THEN 1 ELSE 0)
    BY DEF One
  <2>3. One(p, B) = (IF a > u THEN 1 ELSE 0) /\ One(q, B) = (IF b > u THEN 1 ELSE 0)
    BY DEF One
  <2>4. Tied(e, s) = Cardinality(A)
    BY DEF Tied
  <2> HIDE DEF A, B, u, a, b
  <2>5. Tied(e, s) = Equal2(u, a, b) /\ Cardinality(B) = More2(u, a, b)
    BY <2>1, <2>2, <2>3, <2>4 DEF Equal2, More2
  <2> QED
    BY <2>5 DEF u, B
<1>3. \A s \in Common : Rank(e, s) = 2 * More2(score[e][s], a, b) + Equal2(score[e][s], a, b) + 1
  BY <1>2 DEF Rank
<1>4. Cardinality(Common) = 2 /\ IsFiniteSet(Common)
  <2> DEFINE f == [x \in Common |-> 0]
  <2>1. f[p] \in Int /\ f[q] \in Int
    OBVIOUS
  <2> HIDE DEF f
  <2> QED
    BY <2>1, SumTwo
<1> DEFINE x == Dev(e, p)
           y == Dev(e, q)
           t == Tied(e, p)
           u == Tied(e, q)
<1>5. p \in Common /\ q \in Common
  OBVIOUS
<1>6. /\ t = Equal2(a, a, b) /\ u = Equal2(b, a, b)
      /\ x = Dev2(a, a, b) /\ y = Dev2(b, a, b)
  <2>1. \A s \in Common : Dev(e, s) = Dev2(score[e][s], a, b)
    <3> HIDE DEF a, b
    <3> SUFFICES ASSUME NEW s \in Common PROVE Dev(e, s) = Dev2(score[e][s], a, b)
      OBVIOUS
    <3>1. More2(score[e][s], a, b) \in Int /\ Equal2(score[e][s], a, b) \in Int
      BY DEF More2, Equal2
    <3>2. Dev(e, s) = (2 * More2(score[e][s], a, b) + Equal2(score[e][s], a, b) + 1) - (2 + 1)
      BY <1>3, <1>4 DEF Dev
    <3> QED
      BY <3>1, <3>2 DEF Dev2
  <2> QED
    BY <1>2, <1>5, <2>1
<1>7. x \in -2 .. 2 /\ y \in -2 .. 2 /\ 3 * (x * x + y * y) = 6 - ((t * t - 1) + (u * u - 1))
  <2> HIDE DEF a, b, x, y, t, u
  <2> QED
    BY <1>1, <1>6, TwoRanks
<1>8. Ties(e) = (t * t - 1) + (u * u - 1)
  <2> DEFINE f == [s \in Common |-> Tied(e, s) * Tied(e, s) - 1]
  <2>1. f[p] = t * t - 1 /\ f[q] = u * u - 1
    BY <1>5
  <2>2. f[p] \in Int /\ f[q] \in Int
    <3>1. t \in Int /\ u \in Int
      BY <1>2, <1>5 DEF Equal2
    <3> QED
      BY <2>1, <3>1
  <2>3. Ties(e) = SumFunctionOnSet(f, Common)
    BY DEF Ties, SumFunction
  <2> HIDE DEF f, t, u
  <2>4. SumFunctionOnSet(f, {p, q}) = f[p] + f[q]
    BY <2>2, SumTwo
  <2> QED
    BY <2>1, <2>3, <2>4
<1>9. \A s \in Common : Rank(e, s) = Dev(e, s) + 3
  <2>1. \A s \in Common : Rank(e, s) \in Int
    BY <1>3 DEF Equal2, More2
  <2> QED
    BY <1>4, <2>1 DEF Dev
<1>10. Ties(e) = 6 - 3 * (x * x + y * y)
  <2>1. t \in Int /\ u \in Int
    BY <1>2, <1>5 DEF Equal2
  <2> HIDE DEF x, y, t, u
  <2> QED
    BY <1>7, <1>8, <2>1
<1> QED
  BY <1>7, <1>9, <1>10

\* A finite set of so many elements.
LEMMA TwoOf == ASSUME NEW S, IsFiniteSet(S), Cardinality(S) = 2 PROVE \E a, b : a # b /\ S = {a, b}
<1>1. PICK a : a \in S
  BY FS_EmptySet
<1>2. IsFiniteSet(S \ {a}) /\ Cardinality(S \ {a}) = 1
  BY <1>1, FS_RemoveElement
<1>3. PICK b : S \ {a} = {b}
  BY <1>2, FS_Singleton
<1> QED
  BY <1>1, <1>3

LEMMA ThreeOf ==
  ASSUME NEW S, IsFiniteSet(S), Cardinality(S) = 3
  PROVE  \E a, b, c : a # b /\ a # c /\ b # c /\ S = {a, b, c}
<1>1. PICK a : a \in S
  BY FS_EmptySet
<1>2. IsFiniteSet(S \ {a}) /\ Cardinality(S \ {a}) = 2
  BY <1>1, FS_RemoveElement
<1>3. PICK b, c : b # c /\ S \ {a} = {b, c}
  BY <1>2, TwoOf
<1>4. a # b /\ a # c /\ S = {a, b, c}
  BY <1>1, <1>3
<1> QED
  BY <1>3, <1>4

\* What the ranks of two or three experts add up to, less the mean of that.
LEMMA AwayOfTwo ==
  ASSUME NEW a, NEW b, a # b, Group = {a, b}, NEW s, NEW k \in Int, Cardinality(Common) + 1 = k,
         \A e \in Group : Dev(e, s) \in Int /\ Rank(e, s) = Dev(e, s) + k
  PROVE  Away(s) = Dev(a, s) + Dev(b, s)
<1> DEFINE f == [e \in Group |-> Rank(e, s)]
           x == Dev(a, s)
           y == Dev(b, s)
<1>1. f[a] = x + k /\ f[b] = y + k /\ x \in Int /\ y \in Int
  OBVIOUS
<1>2. Away(s) = SumFunctionOnSet(f, {a, b}) - Cardinality({a, b}) * k
  BY DEF Away, SumFunction
<1> HIDE DEF f, x, y
<1>3. f[a] \in Int /\ f[b] \in Int
  BY <1>1
<1>4. Cardinality({a, b}) = 2 /\ SumFunctionOnSet(f, {a, b}) = f[a] + f[b]
  BY <1>3, SumTwo
<1>5. Away(s) = ((x + k) + (y + k)) - 2 * k
  BY <1>1, <1>2, <1>4
<1>6. Away(s) = x + y
  BY <1>1, <1>5
<1> QED
  BY <1>6 DEF x, y

\* Three people, and nobody else, are in the panel.
Trio(a, b, c) == a # b /\ a # c /\ b # c /\ Group = {a, b, c}

LEMMA AwayOfThree ==
  ASSUME NEW a, NEW b, NEW c, Trio(a, b, c), NEW s, NEW k \in Int, Cardinality(Common) + 1 = k,
         \A e \in Group : Dev(e, s) \in Int /\ Rank(e, s) = Dev(e, s) + k
  PROVE  Away(s) = Dev(a, s) + Dev(b, s) + Dev(c, s)
<1>0. a # b /\ a # c /\ b # c /\ Group = {a, b, c}
  BY DEF Trio
<1> DEFINE f == [e \in Group |-> Rank(e, s)]
           x == Dev(a, s)
           y == Dev(b, s)
           z == Dev(c, s)
<1>1. f[a] = x + k /\ f[b] = y + k /\ f[c] = z + k /\ x \in Int /\ y \in Int /\ z \in Int
  BY <1>0
<1>2. Away(s) = SumFunctionOnSet(f, Group) - Cardinality(Group) * k
  BY DEF Away, SumFunction
<1>3. (\A e \in Group : f[e] \in Int) /\ a \in Group /\ b \in Group /\ c \in Group
  BY <1>0
<1> HIDE DEF f, x, y, z
<1>4. Cardinality(Group) = 3 /\ SumFunctionOnSet(f, Group) = f[a] + f[b] + f[c]
  <2> DEFINE S == Group
  <2>1. a \in S /\ b \in S /\ c \in S /\ S = {a, b, c} /\ \A e \in S : f[e] \in Int
    BY <1>0, <1>3
  <2> HIDE DEF S
  <2>2. Cardinality(S) = 3
    BY <1>0, <2>1, SumThree
  <2>3. SumFunctionOnSet(f, S) = f[a] + f[b] + f[c]
    BY <1>0, <2>1, SumThree
  <2> QED
    BY <2>2, <2>3 DEF S
<1>5. Away(s) = ((x + k) + (y + k) + (z + k)) - 3 * k
  BY <1>1, <1>2, <1>4
<1>6. Away(s) = x + y + z
  BY <1>1, <1>5
<1> QED
  BY <1>6 DEF x, y, z

\* Squares are not negative, and zero of zero only.
LEMMA Square == ASSUME NEW n \in Int PROVE n * n \in Nat /\ (n * n = 0 <=> n = 0)
<1>1. CASE n >= 0
  BY <1>1
<1>2. CASE n < 0
  <2>1. (0 - n) * (0 - n) = n * n /\ 0 - n \in Nat
    BY <1>2
  <2>2. n * n \in Nat
    BY <1>2, <2>1
  <2> QED
    BY <1>2, <2>2
<1> QED
  BY <1>1, <1>2

\* How far two or three numbers are from each other.
Apart2(x, y) == (x - y) * (x - y)
Apart3(x, y, z) == (x - y) * (x - y) + (y - z) * (y - z) + (x - z) * (x - z)

\* Squares of two or three numbers are the square of their sum and how far they are apart, in parts of as many.
LEMMA ColumnOfTwo ==
  ASSUME NEW x \in Int, NEW y \in Int
  PROVE  Apart2(x, y) \in Nat /\ 2 * (x * x + y * y) = (x + y) * (x + y) + Apart2(x, y)
<1>1. x - y \in Int
  OBVIOUS
<1> QED
  BY <1>1, Square DEF Apart2

LEMMA ColumnOfThree ==
  ASSUME NEW x \in Int, NEW y \in Int, NEW z \in Int
  PROVE  /\ Apart3(x, y, z) \in Nat /\ (Apart3(x, y, z) = 0 <=> x = y /\ x = z)
         /\ 3 * (x * x + y * y + z * z) = (x + y + z) * (x + y + z) + Apart3(x, y, z)
<1> DEFINE u == (x - y) * (x - y)
           v == (y - z) * (y - z)
           w == (x - z) * (x - z)
<1>1. x - y \in Int /\ y - z \in Int /\ x - z \in Int
  OBVIOUS
<1>2. /\ u \in Nat /\ v \in Nat /\ w \in Nat
      /\ (u = 0 <=> x - y = 0) /\ (v = 0 <=> y - z = 0) /\ (w = 0 <=> x - z = 0)
  BY <1>1, Square
<1>3. 3 * (x * x + y * y + z * z) = (x + y + z) * (x + y + z) + (u + v + w)
  OBVIOUS
<1>4. Apart3(x, y, z) = u + v + w
  BY DEF Apart3
<1> HIDE DEF u, v, w
<1>5. u + v + w \in Nat /\ (u + v + w = 0 <=> x = y /\ x = z)
  BY <1>2
<1> QED
  BY <1>3, <1>4, <1>5

\* Three columns of experts' deviations, or two: the denominator of W and three times its numerator.
LEMMA WithinThree ==
  ASSUME NEW m \in {2, 3}, NEW A \in Int, NEW B \in Int, NEW C \in Int,
         NEW d \in Nat, NEW e \in Nat, NEW f \in Nat, NEW k \in Int, NEW l \in Int, NEW n \in Int,
         m * k = A * A + d, m * l = B * B + e, m * n = C * C + f
  PROVE  3 * m * (k + l + n) = 3 * ((A * A + B * B + C * C) + (d + e + f))
<1>1. m * (k + l + n) = m * k + m * l + m * n
  OBVIOUS
<1> DEFINE a == A * A
           b == B * B
           c == C * C
<1>2. a \in Int /\ b \in Int /\ c \in Int
  OBVIOUS
<1>3. m * (k + l + n) = (a + b + c) + (d + e + f)
  <2> DEFINE u == m * k
             v == m * l
             w == m * n
             z == m * (k + l + n)
  <2>1. z = u + v + w /\ u = a + d /\ v = b + e /\ w = c + f
    BY <1>1
  <2> HIDE DEF a, b, c, u, v, w, z
  <2>2. z = (a + b + c) + (d + e + f)
    BY <1>2, <2>1
  <2> QED
    BY <2>2 DEF z
<1>4. 3 * m * (k + l + n) = 3 * (m * (k + l + n))
  OBVIOUS
<1> QED
  BY <1>3, <1>4

\* Sums of the panel, over its characteristics and over its experts.
LEMMA SpreadOfThree ==
  ASSUME NEW p, NEW q, NEW r, p # q, p # r, q # r, Common = {p, q, r},
         \A s \in Common : Away(s) \in Int
  PROVE  /\ Spread = Away(p) * Away(p) + Away(q) * Away(q) + Away(r) * Away(r)
         /\ Cardinality(Common) = 3 /\ Spread \in Nat
<1> DEFINE f == [s \in Common |-> Away(s) * Away(s)]
           S == Common
<1>1. p \in S /\ q \in S /\ r \in S /\ S = {p, q, r} /\ \A s \in S : f[s] \in Int
  OBVIOUS
<1>2. /\ f[p] = Away(p) * Away(p) /\ f[q] = Away(q) * Away(q) /\ f[r] = Away(r) * Away(r)
      /\ Spread = SumFunctionOnSet(f, S)
  BY DEF Spread, SumFunction
<1>3. Away(p) \in Int /\ Away(q) \in Int /\ Away(r) \in Int
  OBVIOUS
<1> HIDE DEF f, S
<1>4. SumFunctionOnSet(f, S) = f[p] + f[q] + f[r]
  BY <1>1, SumThree
<1>5. Cardinality(S) = 3
  BY <1>1, SumThree
<1>6. Spread = Away(p) * Away(p) + Away(q) * Away(q) + Away(r) * Away(r)
  BY <1>2, <1>4
<1>7. Away(p) * Away(p) \in Nat /\ Away(q) * Away(q) \in Nat /\ Away(r) * Away(r) \in Nat
  BY <1>3, Square
<1> QED
  BY <1>5, <1>6, <1>7 DEF S

LEMMA SpreadOfTwo ==
  ASSUME NEW p, NEW q, p # q, Common = {p, q}, \A s \in Common : Away(s) \in Int
  PROVE  /\ Spread = Away(p) * Away(p) + Away(q) * Away(q)
         /\ Cardinality(Common) = 2 /\ Spread \in Nat
<1> DEFINE f == [s \in Common |-> Away(s) * Away(s)]
<1>1. f[p] \in Int /\ f[q] \in Int
  OBVIOUS
<1>2. /\ f[p] = Away(p) * Away(p) /\ f[q] = Away(q) * Away(q)
      /\ Spread = SumFunctionOnSet(f, {p, q})
  BY DEF Spread, SumFunction
<1>3. Away(p) \in Int /\ Away(q) \in Int
  OBVIOUS
<1> HIDE DEF f
<1>4. Cardinality({p, q}) = 2 /\ SumFunctionOnSet(f, {p, q}) = f[p] + f[q]
  BY <1>1, SumTwo
<1>5. Spread = Away(p) * Away(p) + Away(q) * Away(q)
  BY <1>2, <1>4
<1>6. Away(p) * Away(p) \in Nat /\ Away(q) * Away(q) \in Nat
  BY <1>3, Square
<1> QED
  BY <1>4, <1>5, <1>6

LEMMA TiesOfTwo ==
  ASSUME NEW a, NEW b, a # b, Group = {a, b}, \A e \in Group : Ties(e) \in Int
  PROVE  SumFunction([e \in Group |-> Ties(e)]) = Ties(a) + Ties(b) /\ Cardinality(Group) = 2
<1> DEFINE f == [e \in Group |-> Ties(e)]
<1>1. f[a] \in Int /\ f[b] \in Int /\ f[a] = Ties(a) /\ f[b] = Ties(b)
  OBVIOUS
<1>2. SumFunction(f) = SumFunctionOnSet(f, {a, b})
  BY DEF SumFunction
<1> HIDE DEF f
<1>3. Cardinality({a, b}) = 2 /\ SumFunctionOnSet(f, {a, b}) = f[a] + f[b]
  BY <1>1, SumTwo
<1> QED
  BY <1>1, <1>2, <1>3 DEF f

LEMMA TiesOfThree ==
  ASSUME NEW a, NEW b, NEW c, a # b, a # c, b # c, Group = {a, b, c}, \A e \in Group : Ties(e) \in Int
  PROVE  SumFunction([e \in Group |-> Ties(e)]) = Ties(a) + Ties(b) + Ties(c) /\ Cardinality(Group) = 3
<1> DEFINE f == [e \in Group |-> Ties(e)]
           S == Group
<1>1. a \in S /\ b \in S /\ c \in S /\ S = {a, b, c} /\ \A s \in S : f[s] \in Int
  OBVIOUS
<1>2. f[a] = Ties(a) /\ f[b] = Ties(b) /\ f[c] = Ties(c) /\ SumFunction(f) = SumFunctionOnSet(f, S)
  BY DEF SumFunction
<1> HIDE DEF f, S
<1>3. SumFunctionOnSet(f, S) = f[a] + f[b] + f[c]
  BY <1>1, SumThree
<1>4. Cardinality(S) = 3
  BY <1>1, SumThree
<1> QED
  BY <1>2, <1>3, <1>4 DEF f, S

\* The same of two columns.
LEMMA WithinTwo ==
  ASSUME NEW m \in {2, 3}, NEW A \in Int, NEW B \in Int,
         NEW d \in Nat, NEW e \in Nat, NEW k \in Int, NEW l \in Int,
         m * k = A * A + d, m * l = B * B + e
  PROVE  3 * m * (k + l) = 3 * ((A * A + B * B) + (d + e))
<1> DEFINE a == A * A
           b == B * B
           u == m * k
           v == m * l
           z == m * (k + l)
<1>1. a \in Int /\ b \in Int /\ z = u + v /\ u = a + d /\ v = b + e /\ 3 * m * (k + l) = 3 * z
  OBVIOUS
<1> HIDE DEF a, b, u, v, z
<1>2. z = (a + b) + (d + e)
  BY <1>1
<1> QED
  BY <1>1, <1>2 DEF a, b

\* Elements that differ are as many as are named.
LEMMA CardTwo == ASSUME NEW a, NEW b, a # b PROVE Cardinality({a, b}) = 2
<1> DEFINE f == [s \in {a, b} |-> 0]
<1>1. f[a] \in Int /\ f[b] \in Int
  OBVIOUS
<1> HIDE DEF f
<1> QED
  BY <1>1, SumTwo

LEMMA CardThree ==
  ASSUME NEW a, NEW b, NEW c, a # b, a # c, b # c PROVE Cardinality({a, b, c}) = 3
<1> DEFINE S == {a, b, c}
           f == [s \in S |-> 0]
<1>1. a \in S /\ b \in S /\ c \in S /\ S = {a, b, c} /\ \A s \in S : f[s] \in Int
  OBVIOUS
<1> HIDE DEF S, f
<1>2. Cardinality(S) = 3
  BY <1>1, SumThree
<1> QED
  BY <1>2 DEF S

\* Squares of deviations in doubled ranks.
LEMMA Square2 == ASSUME NEW x \in -2 .. 2 PROVE x * x \in 0 .. 4
OBVIOUS

\* W with its denominator: three times the spread, and how far the experts are apart besides.
MostIs(D) == D \in Nat /\ Spread \in Nat /\ Most = 3 * (Spread + D)

\* For each size of a panel of two or three, of two or three characteristics: the denominator.
LEMMA TwoByTwo ==
  ASSUME PanelTypeOK, NEW a, NEW b, a # b, Group = {a, b}, NEW p, NEW q, p # q, Common = {p, q}
  PROVE  \E D : MostIs(D)
<1>1. \A e \in Group : /\ Dev(e, p) \in -2 .. 2 /\ Dev(e, q) \in -2 .. 2
                       /\ \A s \in Common : Rank(e, s) = Dev(e, s) + 3
                       /\ Ties(e) = 6 - 3 * (Dev(e, p) * Dev(e, p) + Dev(e, q) * Dev(e, q))
  BY RanksOfTwo
<1> DEFINE x == Dev(a, p)
           y == Dev(b, p)
           u == Dev(a, q)
           v == Dev(b, q)
<1>2. x \in -2 .. 2 /\ y \in -2 .. 2 /\ u \in -2 .. 2 /\ v \in -2 .. 2
  BY <1>1
<1>0. x \in Int /\ y \in Int /\ u \in Int /\ v \in Int
  BY <1>2
<1>3. Cardinality(Common) = 2 /\ Cardinality(Group) = 2
  BY CardTwo
<1>4. ASSUME NEW s \in Common PROVE Away(s) = Dev(a, s) + Dev(b, s)
  <2>1. \A e \in Group : Dev(e, s) \in Int /\ Rank(e, s) = Dev(e, s) + 3
    BY <1>1
  <2> QED
    BY <1>3, <2>1, AwayOfTwo
<1>5. Away(p) = x + y /\ Away(q) = u + v
  BY <1>4
<1> HIDE DEF x, y, u, v
<1>6. \A s \in Common : Away(s) \in Int
  BY <1>2, <1>5
<1>7. Spread = (x + y) * (x + y) + (u + v) * (u + v) /\ Spread \in Nat
  BY <1>5, <1>6, SpreadOfTwo
<1>8. Ties(a) = 6 - 3 * (x * x + u * u) /\ Ties(b) = 6 - 3 * (y * y + v * v)
  BY <1>1 DEF x, y, u, v
<1> DEFINE k == x * x + y * y
           l == u * u + v * v
           d == Apart2(x, y)
           e == Apart2(u, v)
           A == x + y
           B == u + v
<1>9. d \in Nat /\ e \in Nat /\ 2 * k = A * A + d /\ 2 * l = B * B + e
  <2>1. d \in Nat /\ 2 * k = A * A + d
    BY <1>0, ColumnOfTwo
  <2>2. e \in Nat /\ 2 * l = B * B + e
    BY <1>0, ColumnOfTwo
  <2> QED
    BY <2>1, <2>2
<1>10. k \in Int /\ l \in Int /\ A \in Int /\ B \in Int
  BY <1>2
<1>11. Most = 3 * 2 * (k + l)
  <2> DEFINE T == SumFunction([g \in Group |-> Ties(g)])
  <2>0. x * x \in 0 .. 4 /\ y * y \in 0 .. 4 /\ u * u \in 0 .. 4 /\ v * v \in 0 .. 4
    BY <1>2, Square2
  <2>1. \A g \in Group : Ties(g) \in Int
    BY <1>8, <2>0
  <2>2. T = Ties(a) + Ties(b)
    BY <2>1, TiesOfTwo
  <2>3. Most = 2 * 2 * (2 * 2 * 2 - 2) - 2 * T
    BY <1>3 DEF Most
  <2> HIDE DEF T
  <2>4. Most = 24 - 2 * T
    BY <1>8, <2>0, <2>2, <2>3
  <2> QED
    BY <1>8, <2>0, <2>2, <2>4
<1> HIDE DEF k, l, d, e
<1>12. 3 * 2 * (k + l) = 3 * ((A * A + B * B) + (d + e))
  BY <1>9, <1>10, WithinTwo
<1>13. Spread = A * A + B * B
  BY <1>7
<1>14. d + e \in Nat
  BY <1>9
<1>15. MostIs(d + e)
  BY <1>7, <1>11, <1>12, <1>13, <1>14 DEF MostIs
<1> QED
  BY <1>15

LEMMA ThreeByTwo ==
  ASSUME PanelTypeOK, NEW a, NEW b, NEW c, a # b, a # c, b # c, Group = {a, b, c},
         NEW p, NEW q, p # q, Common = {p, q}
  PROVE  \E D : MostIs(D)
<1>1. \A e \in Group : /\ Dev(e, p) \in -2 .. 2 /\ Dev(e, q) \in -2 .. 2
                       /\ \A s \in Common : Rank(e, s) = Dev(e, s) + 3
                       /\ Ties(e) = 6 - 3 * (Dev(e, p) * Dev(e, p) + Dev(e, q) * Dev(e, q))
  BY RanksOfTwo
<1> DEFINE x == Dev(a, p)
           y == Dev(b, p)
           z == Dev(c, p)
           u == Dev(a, q)
           v == Dev(b, q)
           w == Dev(c, q)
<1>2. x \in -2 .. 2 /\ y \in -2 .. 2 /\ z \in -2 .. 2 /\ u \in -2 .. 2 /\ v \in -2 .. 2 /\ w \in -2 .. 2
  BY <1>1
<1>0. x \in Int /\ y \in Int /\ z \in Int /\ u \in Int /\ v \in Int /\ w \in Int
  BY <1>2
<1>3. Cardinality(Common) = 2
  BY CardTwo
<1>4. ASSUME NEW s \in Common PROVE Away(s) = Dev(a, s) + Dev(b, s) + Dev(c, s)
  <2>1. \A e \in Group : Dev(e, s) \in Int /\ Rank(e, s) = Dev(e, s) + 3
    BY <1>1
  <2>2. Cardinality(Common) + 1 = 3 /\ Trio(a, b, c)
    BY <1>3 DEF Trio
  <2> QED
    BY <2>1, <2>2, AwayOfThree
<1>5. Away(p) = x + y + z /\ Away(q) = u + v + w
  BY <1>4
<1>6. Ties(a) = 6 - 3 * (x * x + u * u) /\ Ties(b) = 6 - 3 * (y * y + v * v)
      /\ Ties(c) = 6 - 3 * (z * z + w * w)
  BY <1>1
<1> HIDE DEF x, y, z, u, v, w
<1>7. \A s \in Common : Away(s) \in Int
  BY <1>2, <1>5
<1>8. Spread = (x + y + z) * (x + y + z) + (u + v + w) * (u + v + w) /\ Spread \in Nat
  BY <1>5, <1>7, SpreadOfTwo
<1> DEFINE k == x * x + y * y + z * z
           l == u * u + v * v + w * w
           d == Apart3(x, y, z)
           e == Apart3(u, v, w)
           A == x + y + z
           B == u + v + w
<1>9. d \in Nat /\ e \in Nat /\ 3 * k = A * A + d /\ 3 * l = B * B + e
  <2>1. d \in Nat /\ 3 * k = A * A + d
    BY <1>0, ColumnOfThree
  <2>2. e \in Nat /\ 3 * l = B * B + e
    BY <1>0, ColumnOfThree
  <2> QED
    BY <2>1, <2>2
<1>10. k \in Int /\ l \in Int /\ A \in Int /\ B \in Int
  BY <1>2
<1>11. Most = 3 * 3 * (k + l)
  <2> DEFINE T == SumFunction([g \in Group |-> Ties(g)])
  <2>0. x * x \in 0 .. 4 /\ y * y \in 0 .. 4 /\ z * z \in 0 .. 4 /\ u * u \in 0 .. 4
        /\ v * v \in 0 .. 4 /\ w * w \in 0 .. 4
    BY <1>2, Square2
  <2>1. \A g \in Group : Ties(g) \in Int
    BY <1>6, <2>0
  <2>2. T = Ties(a) + Ties(b) + Ties(c) /\ Cardinality(Group) = 3
    BY <2>1, TiesOfThree
  <2>3. Most = 3 * 3 * (2 * 2 * 2 - 2) - 3 * T
    BY <1>3, <2>2 DEF Most
  <2> HIDE DEF T
  <2>4. Most = 54 - 3 * T
    BY <1>6, <2>0, <2>2, <2>3
  <2> DEFINE xx == x * x
             yy == y * y
             zz == z * z
             uu == u * u
             vv == v * v
             ww == w * w
  <2>5. Ties(a) = 6 - 3 * (xx + uu) /\ Ties(b) = 6 - 3 * (yy + vv) /\ Ties(c) = 6 - 3 * (zz + ww)
    BY <1>6
  <2>7. xx \in Int /\ yy \in Int /\ zz \in Int /\ uu \in Int /\ vv \in Int /\ ww \in Int
    BY <2>0
  <2>6. k = xx + yy + zz /\ l = uu + vv + ww
    OBVIOUS
  <2> HIDE DEF xx, yy, zz, uu, vv, ww
  <2> QED
    BY <2>2, <2>4, <2>5, <2>6, <2>7
<1> HIDE DEF k, l, d, e
<1>12. 3 * 3 * (k + l) = 3 * ((A * A + B * B) + (d + e))
  BY <1>9, <1>10, WithinTwo
<1>13. Spread = A * A + B * B /\ d + e \in Nat
  BY <1>8, <1>9
<1>14. MostIs(d + e)
  BY <1>8, <1>11, <1>12, <1>13 DEF MostIs
<1> QED
  BY <1>14

LEMMA TwoByThree ==
  ASSUME PanelTypeOK, NEW a, NEW b, a # b, Group = {a, b},
         NEW p, NEW q, NEW r, p # q, p # r, q # r, Common = {p, q, r}
  PROVE  \E D : MostIs(D)
<1>1. \A e \in Group :
        /\ Dev(e, p) \in -2 .. 2 /\ Dev(e, q) \in -2 .. 2 /\ Dev(e, r) \in -2 .. 2
        /\ \A s \in Common : Rank(e, s) = Dev(e, s) + 4
        /\ Ties(e) = 24 - 3 * (Dev(e, p) * Dev(e, p) + Dev(e, q) * Dev(e, q) + Dev(e, r) * Dev(e, r))
  BY RanksOfThree
<1> DEFINE x == Dev(a, p)
           y == Dev(b, p)
           u == Dev(a, q)
           v == Dev(b, q)
           i == Dev(a, r)
           j == Dev(b, r)
<1>2. x \in -2 .. 2 /\ y \in -2 .. 2 /\ u \in -2 .. 2 /\ v \in -2 .. 2 /\ i \in -2 .. 2 /\ j \in -2 .. 2
  BY <1>1
<1>0. x \in Int /\ y \in Int /\ u \in Int /\ v \in Int /\ i \in Int /\ j \in Int
  BY <1>2
<1>3. Cardinality(Common) = 3
  BY CardThree
<1>4. ASSUME NEW s \in Common PROVE Away(s) = Dev(a, s) + Dev(b, s)
  <2>1. \A e \in Group : Dev(e, s) \in Int /\ Rank(e, s) = Dev(e, s) + 4
    BY <1>1
  <2> QED
    BY <1>3, <2>1, AwayOfTwo
<1>5. Away(p) = x + y /\ Away(q) = u + v /\ Away(r) = i + j
  BY <1>4
<1>6. Ties(a) = 24 - 3 * (x * x + u * u + i * i) /\ Ties(b) = 24 - 3 * (y * y + v * v + j * j)
  BY <1>1
<1> HIDE DEF x, y, u, v, i, j
<1>7. \A s \in Common : Away(s) \in Int
  BY <1>2, <1>5
<1>8. Spread = (x + y) * (x + y) + (u + v) * (u + v) + (i + j) * (i + j)
  BY <1>5, <1>7, SpreadOfThree
<1>15. Spread \in Nat
  BY <1>7, SpreadOfThree
<1> DEFINE k == x * x + y * y
           l == u * u + v * v
           n == i * i + j * j
           d == Apart2(x, y)
           e == Apart2(u, v)
           f == Apart2(i, j)
           A == x + y
           B == u + v
           C == i + j
<1>9. d \in Nat /\ e \in Nat /\ f \in Nat /\ 2 * k = A * A + d /\ 2 * l = B * B + e /\ 2 * n = C * C + f
  <2>1. d \in Nat /\ 2 * k = A * A + d
    BY <1>0, ColumnOfTwo
  <2>2. e \in Nat /\ 2 * l = B * B + e
    BY <1>0, ColumnOfTwo
  <2>3. f \in Nat /\ 2 * n = C * C + f
    BY <1>0, ColumnOfTwo
  <2> QED
    BY <2>1, <2>2, <2>3
<1>10. k \in Int /\ l \in Int /\ n \in Int /\ A \in Int /\ B \in Int /\ C \in Int
  BY <1>2
<1>11. Most = 3 * 2 * (k + l + n)
  <2> DEFINE T == SumFunction([g \in Group |-> Ties(g)])
  <2>0. x * x \in 0 .. 4 /\ y * y \in 0 .. 4 /\ u * u \in 0 .. 4
        /\ v * v \in 0 .. 4 /\ i * i \in 0 .. 4 /\ j * j \in 0 .. 4
    BY <1>2, Square2
  <2>1. \A g \in Group : Ties(g) \in Int
    BY <1>6, <2>0
  <2>2. T = Ties(a) + Ties(b) /\ Cardinality(Group) = 2
    BY <2>1, TiesOfTwo
  <2>3. Most = 2 * 2 * (3 * 3 * 3 - 3) - 2 * T
    BY <1>3, <2>2 DEF Most
  <2> HIDE DEF T
  <2>4. Most = 96 - 2 * T
    BY <1>6, <2>0, <2>2, <2>3
  <2> DEFINE xx == x * x
             yy == y * y
             uu == u * u
             vv == v * v
             ii == i * i
             jj == j * j
  <2>5. Ties(a) = 24 - 3 * (xx + uu + ii) /\ Ties(b) = 24 - 3 * (yy + vv + jj)
    BY <1>6
  <2>7. xx \in Int /\ yy \in Int /\ uu \in Int /\ vv \in Int /\ ii \in Int /\ jj \in Int
    BY <2>0
  <2>6. k = xx + yy /\ l = uu + vv /\ n = ii + jj
    OBVIOUS
  <2> HIDE DEF xx, yy, uu, vv, ii, jj
  <2> QED
    BY <2>2, <2>4, <2>5, <2>6, <2>7
<1> HIDE DEF k, l, n, d, e, f
<1>12. 3 * 2 * (k + l + n) = 3 * ((A * A + B * B + C * C) + (d + e + f))
  BY <1>9, <1>10, WithinThree
<1>13. Spread = A * A + B * B + C * C /\ d + e + f \in Nat
  BY <1>8, <1>9
<1>14. MostIs(d + e + f)
  BY <1>15, <1>11, <1>12, <1>13 DEF MostIs
<1> QED
  BY <1>14

\* For three by three nobody is apart just when the ranks are the same.
LEMMA ThreeByThree ==
  ASSUME PanelTypeOK, NEW a, NEW b, NEW c, a # b, a # c, b # c, Group = {a, b, c},
         NEW p, NEW q, NEW r, p # q, p # r, q # r, Common = {p, q, r}
  PROVE  \E D : /\ MostIs(D) /\ Spread + D <= 108
                /\ D = 0 <=> \A e, g \in Group : \A s \in Common : Rank(e, s) = Rank(g, s)
<1>1. \A e \in Group :
        /\ Dev(e, p) \in -2 .. 2 /\ Dev(e, q) \in -2 .. 2 /\ Dev(e, r) \in -2 .. 2
        /\ \A s \in Common : Rank(e, s) = Dev(e, s) + 4
        /\ Ties(e) = 24 - 3 * (Dev(e, p) * Dev(e, p) + Dev(e, q) * Dev(e, q) + Dev(e, r) * Dev(e, r))
  BY RanksOfThree
<1> DEFINE x == Dev(a, p)
           y == Dev(b, p)
           z == Dev(c, p)
           u == Dev(a, q)
           v == Dev(b, q)
           w == Dev(c, q)
           i == Dev(a, r)
           j == Dev(b, r)
           h == Dev(c, r)
<1>2. /\ x \in -2 .. 2 /\ y \in -2 .. 2 /\ z \in -2 .. 2
      /\ u \in -2 .. 2 /\ v \in -2 .. 2 /\ w \in -2 .. 2
      /\ i \in -2 .. 2 /\ j \in -2 .. 2 /\ h \in -2 .. 2
  BY <1>1
<1>3. /\ x \in Int /\ y \in Int /\ z \in Int /\ u \in Int /\ v \in Int /\ w \in Int
      /\ i \in Int /\ j \in Int /\ h \in Int
  BY <1>2
<1>4. Cardinality(Common) = 3
  BY CardThree
<1>5. ASSUME NEW s \in Common PROVE Away(s) = Dev(a, s) + Dev(b, s) + Dev(c, s)
  <2>1. \A e \in Group : Dev(e, s) \in Int /\ Rank(e, s) = Dev(e, s) + 4
    BY <1>1
  <2>2. Cardinality(Common) + 1 = 4 /\ Trio(a, b, c)
    BY <1>4 DEF Trio
  <2> QED
    BY <2>1, <2>2, AwayOfThree
<1>6. Away(p) = x + y + z /\ Away(q) = u + v + w /\ Away(r) = i + j + h
  BY <1>5
<1>7. /\ Ties(a) = 24 - 3 * (x * x + u * u + i * i)
      /\ Ties(b) = 24 - 3 * (y * y + v * v + j * j)
      /\ Ties(c) = 24 - 3 * (z * z + w * w + h * h)
  BY <1>1
<1>8. (x = y /\ x = z /\ u = v /\ u = w /\ i = j /\ i = h)
        <=> \A e, g \in Group : \A s \in Common : Rank(e, s) = Rank(g, s)
  <2>1. \A s \in Common : /\ Rank(a, s) = Dev(a, s) + 4 /\ Rank(b, s) = Dev(b, s) + 4
                          /\ Rank(c, s) = Dev(c, s) + 4
    BY <1>1
  <2>2. ASSUME x = y, x = z, u = v, u = w, i = j, i = h
        PROVE  \A s \in Common : Rank(a, s) = Rank(b, s) /\ Rank(a, s) = Rank(c, s)
    BY <2>1, <2>2
  <2>3. (\A e, g \in Group : \A s \in Common : Rank(e, s) = Rank(g, s))
          <=> \A s \in Common : Rank(a, s) = Rank(b, s) /\ Rank(a, s) = Rank(c, s)
    OBVIOUS
  <2>4. ASSUME \A s \in Common : Rank(a, s) = Rank(b, s) /\ Rank(a, s) = Rank(c, s)
        PROVE  x = y /\ x = z /\ u = v /\ u = w /\ i = j /\ i = h
    BY <1>3, <2>1, <2>4
  <2> QED
    BY <2>2, <2>3, <2>4
<1> HIDE DEF x, y, z, u, v, w, i, j, h
<1>9. \A s \in Common : Away(s) \in Int
  BY <1>3, <1>6
<1>10. Spread = (x + y + z) * (x + y + z) + (u + v + w) * (u + v + w) + (i + j + h) * (i + j + h)
  BY <1>6, <1>9, SpreadOfThree
<1>11. Spread \in Nat
  BY <1>9, SpreadOfThree
<1> DEFINE k == x * x + y * y + z * z
           l == u * u + v * v + w * w
           n == i * i + j * j + h * h
           d == Apart3(x, y, z)
           e == Apart3(u, v, w)
           f == Apart3(i, j, h)
           A == x + y + z
           B == u + v + w
           C == i + j + h
<1>12. d \in Nat /\ 3 * k = A * A + d /\ (d = 0 <=> x = y /\ x = z)
  BY <1>3, ColumnOfThree
<1>13. e \in Nat /\ 3 * l = B * B + e /\ (e = 0 <=> u = v /\ u = w)
  BY <1>3, ColumnOfThree
<1>14. f \in Nat /\ 3 * n = C * C + f /\ (f = 0 <=> i = j /\ i = h)
  BY <1>3, ColumnOfThree
<1>15. k \in 0 .. 12 /\ l \in 0 .. 12 /\ n \in 0 .. 12 /\ A \in Int /\ B \in Int /\ C \in Int
  <2>1. /\ x * x \in 0 .. 4 /\ y * y \in 0 .. 4 /\ z * z \in 0 .. 4
        /\ u * u \in 0 .. 4 /\ v * v \in 0 .. 4 /\ w * w \in 0 .. 4
        /\ i * i \in 0 .. 4 /\ j * j \in 0 .. 4 /\ h * h \in 0 .. 4
    BY <1>2, Square2
  <2> QED
    BY <1>3, <2>1
<1>16. Most = 3 * 3 * (k + l + n)
  <2> DEFINE T == SumFunction([g \in Group |-> Ties(g)])
             xx == x * x
             yy == y * y
             zz == z * z
             uu == u * u
             vv == v * v
             ww == w * w
             ii == i * i
             jj == j * j
             hh == h * h
  <2>1. /\ xx \in Int /\ yy \in Int /\ zz \in Int /\ uu \in Int /\ vv \in Int /\ ww \in Int
        /\ ii \in Int /\ jj \in Int /\ hh \in Int
    BY <1>3
  <2>2. Ties(a) = 24 - 3 * (xx + uu + ii) /\ Ties(b) = 24 - 3 * (yy + vv + jj)
        /\ Ties(c) = 24 - 3 * (zz + ww + hh)
    BY <1>7
  <2>3. k = xx + yy + zz /\ l = uu + vv + ww /\ n = ii + jj + hh
    OBVIOUS
  <2> HIDE DEF xx, yy, zz, uu, vv, ww, ii, jj, hh, k, l, n
  <2>4. \A g \in Group : Ties(g) \in Int
    BY <2>1, <2>2
  <2>5. T = Ties(a) + Ties(b) + Ties(c) /\ Cardinality(Group) = 3
    BY <2>4, TiesOfThree
  <2>6. Most = 3 * 3 * (3 * 3 * 3 - 3) - 3 * T
    BY <1>4, <2>5 DEF Most
  <2> HIDE DEF T
  <2>7. Most = 216 - 3 * T
    BY <2>1, <2>2, <2>5, <2>6
  <2> QED
    BY <2>1, <2>2, <2>3, <2>5, <2>7
<1> HIDE DEF k, l, n, d, e, f
<1>17. k \in Int /\ l \in Int /\ n \in Int
  BY <1>15
<1>18. 3 * 3 * (k + l + n) = 3 * ((A * A + B * B + C * C) + (d + e + f))
  BY <1>12, <1>13, <1>14, <1>15, <1>17, WithinThree
<1>19. Spread = A * A + B * B + C * C /\ d + e + f \in Nat
  BY <1>10, <1>12, <1>13, <1>14
<1>20. MostIs(d + e + f)
  BY <1>11, <1>16, <1>18, <1>19 DEF MostIs
<1>21. Spread + (d + e + f) <= 108
  BY <1>15, <1>16, <1>20 DEF MostIs
<1>22. d + e + f = 0 <=> d = 0 /\ e = 0 /\ f = 0
  BY <1>12, <1>13, <1>14
<1>23. d + e + f = 0 <=> \A m, g \in Group : \A s \in Common : Rank(m, s) = Rank(g, s)
  BY <1>8, <1>12, <1>13, <1>14, <1>22
<1> QED
  BY <1>20, <1>21, <1>23

\* With two experts or two characteristics to agree on, no W reaches the critical value.
LEMMA FewNeverAgree ==
  ASSUME NEW D, MostIs(D), Cardinality(Group) \in {2, 3}, Cardinality(Common) \in {2, 3},
         ~(Cardinality(Group) = 3 /\ Cardinality(Common) = 3)
  PROVE  ~Consistent
<1> DEFINE m == Cardinality(Group)
           n == Cardinality(Common)
           num == IF Most > 0 THEN 3 * Spread ELSE 1
           den == IF Most > 0 THEN Most ELSE 1
<1>1. num \in Nat /\ den \in Nat /\ num <= den /\ den > 0
  BY DEF MostIs
<1>2. Consistent => 1000 * m * (n - 1) * num > CHI2[n - 1] * den
  BY DEF Consistent
<1> HIDE DEF num, den, m, n
<1>3. m \in {2, 3} /\ n \in {2, 3} /\ ~(m = 3 /\ n = 3)
  BY DEF m, n
<1>4. CASE m = 2 /\ n = 2
  <2>1. Consistent => 1000 * 2 * (2 - 1) * num > 3841 * den
    BY <1>2, <1>4, PanelAssumption
  <2> QED
    BY <1>1, <2>1
<1>5. CASE m = 3 /\ n = 2
  <2>1. Consistent => 1000 * 3 * (2 - 1) * num > 3841 * den
    BY <1>2, <1>5, PanelAssumption
  <2> QED
    BY <1>1, <2>1
<1>6. CASE m = 2 /\ n = 3
  <2>1. Consistent => 1000 * 2 * (3 - 1) * num > 5991 * den
    BY <1>2, <1>6, PanelAssumption
  <2> QED
    BY <1>1, <2>1
<1> QED
  BY <1>3, <1>4, <1>5, <1>6

\* With three and three, only ranks that are all the same do.
LEMMA ThreeAgreeWhenAlike ==
  ASSUME NEW D, MostIs(D), Spread + D <= 108, Cardinality(Group) = 3, Cardinality(Common) = 3
  PROVE  Consistent <=> D = 0
<1> DEFINE num == IF Most > 0 THEN 3 * Spread ELSE 1
           den == IF Most > 0 THEN Most ELSE 1
<1>1. Consistent <=> 2 * num >= den /\ 1000 * 3 * (3 - 1) * num > 5991 * den
  BY PanelAssumption DEF Consistent
<1>2. D \in Nat /\ Spread \in Nat /\ Most = 3 * (Spread + D)
  BY DEF MostIs
<1>3. CASE Most > 0
  <2>1. num = 3 * Spread /\ den = 3 * (Spread + D)
    BY <1>2, <1>3
  <2> HIDE DEF num, den
  <2> QED
    BY <1>1, <1>2, <1>3, <2>1
<1>4. CASE ~(Most > 0)
  <2>1. num = 1 /\ den = 1 /\ D = 0
    BY <1>2, <1>4
  <2> HIDE DEF num, den
  <2> QED
    BY <1>1, <2>1
<1> QED
  BY <1>3, <1>4

\* Panels of one, two or three agree as AgreedAlike says.
LEMMA AgreedOf == ASSUME PanelTypeOK PROVE AgreedAlike
<1> DEFINE m == Cardinality(Group)
           n == Cardinality(Common)
           Alike == \A e, f \in Group : \A s \in Common : Rank(e, s) = Rank(f, s)
<1>1. IsFiniteSet(Group) /\ IsFiniteSet(Common) /\ m \in Nat /\ n \in Nat
  <2>1. Group \subseteq Experts /\ Common \subseteq Subs
    BY DEF Group, Common
  <2>2. IsFiniteSet(Group) /\ IsFiniteSet(Common)
    BY <2>1, FS_Subset, PanelAssumption
  <2> QED
    BY <2>2, FS_CardinalityType
<1>2. Consistent => m >= 2 /\ n >= 2
  BY DEF Consistent
<1>3. ASSUME m = 2, n = 2 PROVE ~Consistent
  <2>1. PICK a, b : a # b /\ Group = {a, b}
    BY <1>1, <1>3, TwoOf
  <2>2. PICK p, q : p # q /\ Common = {p, q}
    BY <1>1, <1>3, TwoOf
  <2>3. PICK D : MostIs(D)
    BY <2>1, <2>2, TwoByTwo
  <2> QED
    BY <1>3, <2>3, FewNeverAgree
<1>4. ASSUME m = 3, n = 2 PROVE ~Consistent
  <2>1. PICK a, b, c : a # b /\ a # c /\ b # c /\ Group = {a, b, c}
    BY <1>1, <1>4, ThreeOf
  <2>2. PICK p, q : p # q /\ Common = {p, q}
    BY <1>1, <1>4, TwoOf
  <2>3. PICK D : MostIs(D)
    BY <2>1, <2>2, ThreeByTwo
  <2> QED
    BY <1>4, <2>3, FewNeverAgree
<1>5. ASSUME m = 2, n = 3 PROVE ~Consistent
  <2>1. PICK a, b : a # b /\ Group = {a, b}
    BY <1>1, <1>5, TwoOf
  <2>2. PICK p, q, r : p # q /\ p # r /\ q # r /\ Common = {p, q, r}
    BY <1>1, <1>5, ThreeOf
  <2>3. PICK D : MostIs(D)
    BY <2>1, <2>2, TwoByThree
  <2> QED
    BY <1>5, <2>3, FewNeverAgree
<1>6. ASSUME m = 3, n = 3 PROVE Consistent <=> Alike
  <2>1. PICK a, b, c : a # b /\ a # c /\ b # c /\ Group = {a, b, c}
    BY <1>1, <1>6, ThreeOf
  <2>2. PICK p, q, r : p # q /\ p # r /\ q # r /\ Common = {p, q, r}
    BY <1>1, <1>6, ThreeOf
  <2>3. PICK D : MostIs(D) /\ Spread + D <= 108 /\ (D = 0 <=> Alike)
    BY <2>1, <2>2, ThreeByThree
  <2> QED
    BY <1>6, <2>3, ThreeAgreeWhenAlike
<1> HIDE DEF m, n, Alike
<1>7. ASSUME m <= 3, n <= 3 PROVE Consistent <=> m = 3 /\ n = 3 /\ Alike
  BY <1>1, <1>2, <1>3, <1>4, <1>5, <1>6, <1>7
<1> QED
  BY <1>7 DEF AgreedAlike, m, n, Alike

(***************************************************************************)
(* Groups of up to three on up to three subcharacteristics reach the       *)
(* critical value of Kendall's W only when three experts rank three of     *)
(* them alike, ties included: two of anything never suffice, and a single  *)
(* pair ranked otherwise loses the scores of all (_ranks, kendall_w,       *)
(* chi2_sf).                                                               *)
(***************************************************************************)
THEOREM AgreedAlikeAlways == PanelSpec => []AgreedAlike
<1>1. PanelSpec => []PanelTypeOK
  BY PanelTypeCorrect
<1>2. PanelTypeOK => AgreedAlike
  BY AgreedOf
<1> QED
  BY <1>1, <1>2, PTL

--------------------------------------------------------------------------
(***************************************************************************)
(* Dashboards. The quarters of a year and the years order the labels, no   *)
(* two of them alike: of some quarters there is one newest, and one        *)
(* earliest.                                                               *)
(***************************************************************************)
QuarterLabel == [q : 1 .. 4, year : Nat]

LEMMA KeysDiffer ==
  ASSUME NEW p \in QuarterLabel, NEW o \in QuarterLabel
  PROVE  /\ PeriodKey(p) \in Nat
         /\ PeriodKey(p) = PeriodKey(o) => p = o
<1>1. /\ p.q \in 1 .. 4 /\ p.year \in Nat /\ o.q \in 1 .. 4 /\ o.year \in Nat
      /\ p = [q |-> p.q, year |-> p.year] /\ o = [q |-> o.q, year |-> o.year]
  BY DEF QuarterLabel
<1>2. PeriodKey(p) = PeriodKey(o) => p.q = o.q /\ p.year = o.year
  BY <1>1 DEF PeriodKey
<1> QED
  BY <1>1, <1>2 DEF PeriodKey

Ordered(P) ==
  /\ \E p \in P : \A o \in P : PeriodKey(o) <= PeriodKey(p)
  /\ \E p \in P : \A o \in P : PeriodKey(p) <= PeriodKey(o)

\* Some quarters have a newest one and an earliest one.
LEMMA NewestAndEarliest ==
  ASSUME NEW P, IsFiniteSet(P), P \subseteq QuarterLabel, P # {}
  PROVE  Ordered(P)
<1> DEFINE Bad == {S \in SUBSET P : S # {} /\ ~ Ordered(S)}
<1>1. \A x \in P : PeriodKey(x) \in Nat
  BY KeysDiffer
<1>2. ASSUME NEW S \in SUBSET P, NEW x \in P, S # {}, Ordered(S) PROVE Ordered(S \cup {x})
  <2>1. PICK t \in S : \A o \in S : PeriodKey(o) <= PeriodKey(t)
    BY <1>2 DEF Ordered
  <2>2. PICK b \in S : \A o \in S : PeriodKey(b) <= PeriodKey(o)
    BY <1>2 DEF Ordered
  <2>3. PeriodKey(t) \in Nat /\ PeriodKey(b) \in Nat /\ PeriodKey(x) \in Nat
        /\ \A o \in S : PeriodKey(o) \in Nat
    BY <1>1
  <2>4. \E p \in {t, x} : \A o \in S \cup {x} : PeriodKey(o) <= PeriodKey(p)
    BY <2>1, <2>3
  <2>5. \E p \in {b, x} : \A o \in S \cup {x} : PeriodKey(p) <= PeriodKey(o)
    BY <2>2, <2>3
  <2> QED
    BY <2>4, <2>5 DEF Ordered
<1>3. \A x \in P : Ordered({x})
  BY <1>1 DEF Ordered
<1>4. ASSUME Bad # {} PROVE FALSE
  <2>0. Bad \in SUBSET (SUBSET P)
    OBVIOUS
  <2> HIDE DEF Bad
  <2>1. PICK T \in Bad : \A U \in SUBSET T : U \in Bad => U = T
    BY <1>4, <2>0, SmallestSet
  <2> USE DEF Bad
  <2>2. PICK x \in T : TRUE
    BY <2>1
  <2>3. T \ {x} \notin Bad
    BY <2>1, <2>2
  <2>4. T = (T \ {x}) \cup {x} /\ T \in SUBSET P /\ ~ Ordered(T)
    BY <2>1, <2>2
  <2>5. T \ {x} = {} \/ Ordered(T \ {x})
    BY <2>3, <2>4
  <2>6. CASE T \ {x} = {}
    <3>1. T = {x}
      BY <2>4, <2>6
    <3> QED
      BY <1>3, <2>4, <3>1
  <2>7. CASE T \ {x} # {} /\ Ordered(T \ {x})
    <3>1. Ordered((T \ {x}) \cup {x})
      BY <1>2, <2>2, <2>4, <2>7
    <3> QED
      BY <2>4, <3>1
  <2> QED
    BY <2>5, <2>6, <2>7
<1>5. P \notin Bad
  BY <1>4
<1>6. Ordered(P)
  BY <1>5
<1> QED
  BY <1>6

\* The newest of some quarters is the one that none of them follows.
LEMMA NewestIs ==
  ASSUME NEW P, IsFiniteSet(P), P \subseteq QuarterLabel, P # {}
  PROVE  /\ Newest(P) \in P /\ \A o \in P : PeriodKey(o) <= PeriodKey(Newest(P))
         /\ \A p \in P : (\A o \in P : PeriodKey(o) <= PeriodKey(p)) => p = Newest(P)
<1>0. \E p \in P : \A o \in P : PeriodKey(o) <= PeriodKey(p)
  BY NewestAndEarliest DEF Ordered
<1>1. Newest(P) \in P /\ \A o \in P : PeriodKey(o) <= PeriodKey(Newest(P))
  BY <1>0 DEF Newest
<1>2. ASSUME NEW p \in P, \A o \in P : PeriodKey(o) <= PeriodKey(p) PROVE p = Newest(P)
  <2>1. PeriodKey(p) <= PeriodKey(Newest(P)) /\ PeriodKey(Newest(P)) <= PeriodKey(p)
    BY <1>1, <1>2
  <2>2. PeriodKey(p) \in Nat /\ PeriodKey(Newest(P)) \in Nat
    BY <1>1, KeysDiffer
  <2>3. PeriodKey(p) = PeriodKey(Newest(P))
    BY <2>1, <2>2
  <2> QED
    BY <1>1, <2>3, KeysDiffer
<1> QED
  BY <1>1, <1>2

LEMMA EarliestIs ==
  ASSUME NEW P, IsFiniteSet(P), P \subseteq QuarterLabel, P # {}
  PROVE  Earliest(P) \in P /\ \A o \in P : PeriodKey(Earliest(P)) <= PeriodKey(o)
<1>1. \E p \in P : \A o \in P : PeriodKey(p) <= PeriodKey(o)
  BY NewestAndEarliest DEF Ordered
<1> QED
  BY <1>1 DEF Earliest

\* The quarters a screen reads are labels, finitely many, and in the register.
LEMMA ReadQuarters ==
  ASSUME NEW x
  PROVE  /\ Quarters \subseteq QuarterLabel
         /\ Counted(x) \subseteq Opened(x) /\ Opened(x) \subseteq Quarters
         /\ \A P \in SUBSET Quarters : IsFiniteSet(P) /\ P \subseteq QuarterLabel
<1>1. \A P \in SUBSET Quarters : IsFiniteSet(P)
  BY DashboardsAssumption, FS_Subset
<1> QED
  BY <1>1, DashboardsAssumption DEF QuarterLabel, Counted, Opened

(***************************************************************************)
(* Every row of a quarter holds an X in hundredths, nothing, or the mark   *)
(* of what cannot be measured, whatever is opened, saved and judged        *)
(* (AssessmentValue, ProfessionalJudgment).                                *)
(***************************************************************************)
THEOREM DashboardsTypeCorrect == DashboardsSpec => []DashboardsTypeOK
<1> USE DashboardsAssumption
<1>1. DashboardsInit => DashboardsTypeOK
  BY FS_EmptySet DEF DashboardsInit, DashboardsTypeOK
<1>2. ASSUME DashboardsTypeOK, [DashboardsNext]_dashboardVars PROVE DashboardsTypeOK'
  <2> USE DEF DashboardsTypeOK
  <2>1. ASSUME NEW x \in Systems, NEW q \in Quarters, OpenPeriod(x, q) PROVE DashboardsTypeOK'
    <3>1. Blank \in Sheet
      BY DEF Blank, Sheet
    <3> QED
      BY <1>2, <2>1, <3>1 DEF OpenPeriod
  <2>2. ASSUME NEW x \in Systems, NEW q \in Quarters, NEW sheet \in Fillings, SaveSheet(x, q, sheet)
        PROVE  DashboardsTypeOK'
    <3>1. sheet \in Sheet
      BY DEF Sheet, X
    <3> QED
      BY <1>2, <2>2, <3>1 DEF SaveSheet
  <2>3. ASSUME NEW x \in Systems, NEW q \in Quarters, NEW pair \in Metrics \cup OtherPairs,
               SaveJudgment(x, q, pair)
        PROVE  DashboardsTypeOK'
    <3>1. IsFiniteSet(judged) /\ Cardinality(judged) \in Nat
      BY <1>2, FS_CardinalityType
    <3>2. judged' = judged \cup {<<x, q, pair>>} /\ Cardinality(judged) < MaxJudgments
      BY <2>3 DEF SaveJudgment
    <3>3. /\ IsFiniteSet(judged') /\ Cardinality(judged') \in Nat
          /\ Cardinality(judged') <= Cardinality(judged) + 1
      <4>1. /\ IsFiniteSet(judged \cup {<<x, q, pair>>})
            /\ Cardinality(judged \cup {<<x, q, pair>>}) =
                 IF <<x, q, pair>> \in judged THEN Cardinality(judged) ELSE Cardinality(judged) + 1
        BY <3>1, FS_AddElement
      <4> QED
        BY <3>1, <3>2, <4>1
    <3> QED
      BY <1>2, <2>3, <3>1, <3>2, <3>3 DEF SaveJudgment
  <2>4. CASE UNCHANGED dashboardVars
    BY <1>2, <2>4 DEF dashboardVars
  <2> QED
    BY <1>2, <2>1, <2>2, <2>3, <2>4 DEF DashboardsNext, ScoresNext, JudgmentsNext
<1> QED
  BY <1>1, <1>2, PTL DEF DashboardsSpec

-----------------------------------------------------------------------------
(***************************************************************************)
(* The dashboard of the assessments. What a step makes of the quarters of  *)
(* a system leaves its last counted one the last, if it only touches       *)
(* earlier ones and opens new ones.                                        *)
(***************************************************************************)

\* A system whose quarters a step does not touch keeps what it is shown as.
LEMMA UntouchedScore ==
  ASSUME NEW x \in Systems, UNCHANGED <<scorebook[x], inUse>>
  PROVE  ScoreOf(x, Seen(x))' = ScoreOf(x, Seen(x))
BY DEF ScoreOf, Seen, Counted, Opened

LEMMA LastStaysLast ==
  ASSUME DashboardsTypeOK, DashboardsTypeOK', NEW x \in Systems, inUse' = inUse, Counted(x) # {},
         scorebook'[x][Newest(Counted(x))] = scorebook[x][Newest(Counted(x))],
         \A q \in Quarters : scorebook'[x][q] # scorebook[x][q] =>
           PeriodKey(q) < PeriodKey(Newest(Counted(x))) \/ scorebook'[x][q] \in {Blank, NONE}
  PROVE  ScoreOf(x, Seen(x))' = ScoreOf(x, Seen(x))
<1> DEFINE last == Newest(Counted(x))
<1>1. last \in Counted(x) /\ \A o \in Counted(x) : PeriodKey(o) <= PeriodKey(last)
  BY NewestIs, ReadQuarters
<1>2. last \in Quarters /\ scorebook[x][last] # NONE /\ \E s \in Metrics : scorebook[x][last][s] # EMPTY
  BY <1>1 DEF Counted, Opened
<1>3. last \in Counted(x)'
  BY <1>2 DEF Counted, Opened
<1>4. ASSUME NEW o \in Counted(x)' PROVE PeriodKey(o) <= PeriodKey(last)
  <2>1. o \in Quarters /\ scorebook'[x][o] # NONE /\ \E s \in Metrics : scorebook'[x][o][s] # EMPTY
    BY DEF Counted, Opened
  <2>2. scorebook'[x][o] # Blank
    BY <2>1 DEF Blank
  <2>3. CASE scorebook'[x][o] = scorebook[x][o]
    BY <1>1, <2>1, <2>3 DEF Counted, Opened
  <2>4. CASE PeriodKey(o) < PeriodKey(last)
    BY <2>1, <2>4, <1>2, KeysDiffer, ReadQuarters
  <2> QED
    BY <2>1, <2>2, <2>3, <2>4
<1>5. Counted(x)' \subseteq Quarters
  BY DEF Counted, Opened
<1>6. last = Newest(Counted(x)')
  <2>1. \A P \in SUBSET Quarters : last \in P /\ (\A o \in P : PeriodKey(o) <= PeriodKey(last)) => last = Newest(P)
    BY NewestIs, ReadQuarters
  <2> QED
    BY <1>3, <1>4, <1>5, <2>1
<1>7. Newest(Counted(x))' = Newest(Counted(x)')
  BY DEF Newest, PeriodKey
<1> QED
  BY <1>1, <1>3, <1>6, <1>7 DEF ScoreOf, Seen

(***************************************************************************)
(* Opening the next quarter of a system, or correcting any before the last *)
(* that says something, leaves the scores of the dashboard where they      *)
(* were, for any systems, quarters and weights.                            *)
(***************************************************************************)
THEOREM OnlyLastQuarterSpeaks == DashboardsSpec => LastQuarterSpeaks
<1>1. ASSUME DashboardsTypeOK, DashboardsTypeOK', [DashboardsNext]_dashboardVars, NEW x \in Systems,
             \A y \in Systems \ {x} : scorebook'[y] = scorebook[y],
             Counted(x) # {},
             scorebook'[x][Newest(Counted(x))] = scorebook[x][Newest(Counted(x))],
             \A q \in Quarters : scorebook'[x][q] # scorebook[x][q] =>
               PeriodKey(q) < PeriodKey(Newest(Counted(x))) \/ scorebook'[x][q] \in {Blank, NONE}
      PROVE  Present' = Present
  <2>1. inUse' = inUse
    BY <1>1 DEF DashboardsNext, ScoresNext, JudgmentsNext, OpenPeriod, SaveSheet, SaveJudgment, dashboardVars
  <2>2. ScoreOf(x, Seen(x))' = ScoreOf(x, Seen(x))
    BY <1>1, <2>1, LastStaysLast
  <2>3. \A y \in Systems \ {x} : ScoreOf(y, Seen(y))' = ScoreOf(y, Seen(y))
    BY <1>1, <2>1, UntouchedScore
  <2>4. \A y \in Systems : ScoreOf(y, Seen(y))' = ScoreOf(y, Seen(y))
    BY <2>2, <2>3
  <2> QED
    BY <2>4 DEF Present
<1>2. DashboardsTypeOK /\ DashboardsTypeOK' /\ [DashboardsNext]_dashboardVars =>
        [\A x \in Systems :
           (/\ \A y \in Systems \ {x} : scorebook'[y] = scorebook[y]
            /\ Counted(x) # {}
            /\ LET last == Newest(Counted(x))
               IN /\ scorebook'[x][last] = scorebook[x][last]
                  /\ \A q \in Quarters : scorebook'[x][q] # scorebook[x][q] =>
                       PeriodKey(q) < PeriodKey(last) \/ scorebook'[x][q] \in {Blank, NONE})
           => Present' = Present]_dashboardVars
  BY <1>1
<1> QED
  BY <1>2, DashboardsTypeCorrect, PTL DEF DashboardsSpec, LastQuarterSpeaks

-----------------------------------------------------------------------------
(***************************************************************************)
(* The two screens.                                                        *)
(***************************************************************************)

\* A system whose last quarter with rows says something is scored by it on both.
LEMMA FilledAlike ==
  ASSUME NEW x \in Systems, NEW q \in Counted(x), \A p \in Opened(x) : PeriodKey(p) <= PeriodKey(q)
  PROVE  ExecutiveScores[x] = Present[x]
<1>1. q \in Opened(x) /\ Counted(x) \subseteq Opened(x) /\ Opened(x) \in SUBSET Quarters
  BY ReadQuarters
<1>2. q = Newest(Opened(x)) /\ q = Newest(Counted(x))
  BY <1>1, NewestIs, ReadQuarters
<1>3. x \in inUse => ExecutiveScores[x] = SystemScore(x, scorebook[x][q])
  BY <1>1, <1>2 DEF ExecutiveScores, ExecutiveQuarters
<1>4. x \in inUse => Present[x] = SystemScore(x, scorebook[x][q])
  BY <1>2 DEF Present, ScoreOf, Seen
<1>5. x \notin inUse => ExecutiveScores[x] = NONE /\ Present[x] = NONE
  BY DEF Present, ScoreOf, Seen, ExecutiveScores, ExecutiveQuarters
<1> QED
  BY <1>3, <1>4, <1>5

\* A set of quarters but for the newest is empty just if it has fewer than two.
LEMMA ButTheNewest ==
  ASSUME NEW P \in SUBSET Quarters
  PROVE  Cardinality(P) < 2 <=> (P = {} \/ P \ {Newest(P)} = {})
<1>1. IsFiniteSet(P) /\ P \subseteq QuarterLabel /\ Cardinality(P) \in Nat
  BY ReadQuarters, FS_CardinalityType
<1>2. CASE P = {}
  BY <1>2, FS_EmptySet
<1>3. CASE P # {}
  <2>1. Newest(P) \in P
    BY <1>1, <1>3, NewestIs
  <2>2. IsFiniteSet(P \ {Newest(P)}) /\ Cardinality(P \ {Newest(P)}) = Cardinality(P) - 1
    BY <1>1, <2>1, FS_RemoveElement
  <2>3. Cardinality(P \ {Newest(P)}) = 0 <=> P \ {Newest(P)} = {}
    BY <2>2, FS_EmptySet
  <2>4. Cardinality(P) # 0
    BY <1>1, <1>3, FS_EmptySet
  <2> QED
    BY <1>1, <1>3, <2>2, <2>3, <2>4
<1> QED
  BY <1>2, <1>3

(***************************************************************************)
(* Of any register in which the last quarter opened is not empty, the      *)
(* dashboard and the executive screen show one score, and one change       *)
(* (get_dashboard, get_executive_dashboard).                               *)
(***************************************************************************)
THEOREM ScreensShowTheSame == SameScoreOnceFilled
<1>1. \A x \in Systems :
        (\E q \in Counted(x) : \A p \in Opened(x) : PeriodKey(p) <= PeriodKey(q))
          => ExecutiveScores[x] = Present[x]
  BY FilledAlike
<1>2. ASSUME \A x \in inUse : Opened(x) = Counted(x) PROVE Executive = Dashboard
  <2>1. \A x \in Systems : ExecutiveQuarters(x) = Seen(x) /\ Seen(x) \in SUBSET Quarters
    BY <1>2 DEF ExecutiveQuarters, Seen, Opened
  <2>2. ASSUME NEW x \in Systems PROVE ExecutiveScores[x] = Present[x] /\ ExecutivePast[x] = Past[x]
    <3>1. ExecutiveScores[x] = Present[x]
      BY <2>1 DEF ExecutiveScores, Present, ScoreOf
    <3>2. Cardinality(Seen(x)) < 2 <=> (Seen(x) = {} \/ Seen(x) \ {Newest(Seen(x))} = {})
      BY <2>1, ButTheNewest
    <3>3. ExecutivePast[x] = IF Cardinality(Seen(x)) < 2 THEN NONE
                             ELSE SystemScore(x, scorebook[x][Newest(Seen(x) \ {Newest(Seen(x))})])
      BY <2>1 DEF ExecutivePast
    <3>4. Past[x] = IF Seen(x) = {} \/ Seen(x) \ {Newest(Seen(x))} = {} THEN NONE
                    ELSE SystemScore(x, scorebook[x][Newest(Seen(x) \ {Newest(Seen(x))})])
      BY DEF Past, ScoreOf
    <3> QED
      BY <3>1, <3>2, <3>3, <3>4
  <2>3. ExecutiveScores = Present /\ ExecutivePast = Past
    BY <2>2 DEF ExecutiveScores, Present, ExecutivePast, Past
  <2> QED
    BY <2>3 DEF Executive, Dashboard
<1> QED
  BY <1>1, <1>2 DEF SameScoreOnceFilled

-----------------------------------------------------------------------------
(***************************************************************************)
(* The lists of judgments. A metric without a judgment leaves the count of *)
(* the written ones below that of the metrics, so its quarter is among     *)
(* those not all written; judgments about anything else do not count. What *)
(* the cut leaves out is no fuller than what it keeps.                     *)
(***************************************************************************)
LEMMA PendingIsIncomplete == ASSUME NEW x \in Systems, Pending(x) # {} PROVE x \in Incomplete
<1>1. Counted(x) # {}
  BY DEF Pending
<1>2. PICK s \in Metrics : <<x, Newest(Counted(x)), s>> \notin judged
  BY <1>1 DEF Pending
<1>3. Written(x, Newest(Counted(x))) \subseteq Metrics \ {s}
  BY <1>2 DEF Written
<1>4. /\ IsFiniteSet(Metrics \ {s}) /\ Cardinality(Metrics \ {s}) = Cardinality(Metrics) - 1
      /\ Cardinality(Metrics) \in Nat /\ Cardinality(Metrics \ {s}) \in Nat
  BY <1>2, DashboardsAssumption, FS_RemoveElement, FS_CardinalityType
<1>5. /\ Cardinality(Written(x, Newest(Counted(x)))) <= Cardinality(Metrics \ {s})
      /\ Cardinality(Written(x, Newest(Counted(x)))) \in Nat
  BY <1>3, <1>4, FS_Subset, FS_CardinalityType
<1> QED
  BY <1>1, <1>4, <1>5 DEF Incomplete, FilledFor

LEMMA FilledType == ASSUME NEW x PROVE FilledFor(x) \in Nat
BY DashboardsAssumption, FS_Subset, FS_CardinalityType DEF FilledFor, Written

\* What is left out of the first so many: there are that many, and they come no later.
LEMMA LeftOut ==
  ASSUME NEW S, IsFiniteSet(S), NEW n \in Nat, NEW key, NEW L \in Firsts(S, n, key), NEW o \in S \ L
  PROVE  Cardinality(L) = n /\ \A r \in L : key[r] <= key[o]
<1>1. L \in SUBSET S /\ Cardinality(L) = (IF Cardinality(S) < n THEN Cardinality(S) ELSE n)
      /\ \A r \in L : key[r] <= key[o]
  BY DEF Firsts
<1>2. Cardinality(L) # Cardinality(S)
  BY <1>1, FS_Subset
<1> QED
  BY <1>1, <1>2

\* judgments_pending and judgments_status: what is to be written is on the manager's list, or that is full.
THEOREM NothingPendingUnlisted == PendingIsListed
<1> SUFFICES ASSUME NEW limit \in Limits, NEW rows \in ToWrite(limit), NEW told \in ToldOf,
                    NEW r \in rows, r[1] \notin told
             PROVE  Cardinality(told) = LISTED /\ \A y \in told : FilledFor(r[1]) <= FilledFor(y)
  BY DEF PendingIsListed
<1> DEFINE x == r[1]
           key == [y \in Incomplete |-> 0 - FilledFor(y)]
<1>1. r \in PendingRows
  BY DEF ToWrite, Firsts
<1>2. x \in Systems /\ Pending(x) # {}
  BY <1>1 DEF PendingRows
<1>3. x \in Incomplete \ told
  BY <1>2, PendingIsIncomplete
<1>4. IsFiniteSet(Incomplete) /\ LISTED \in Nat
  BY DashboardsAssumption, FS_Subset DEF Incomplete
<1>5. told \in Firsts(Incomplete, LISTED, key) /\ told \subseteq Incomplete
  BY DEF ToldOf, Firsts
<1>6. key[x] = 0 - FilledFor(x) /\ \A y \in told : key[y] = 0 - FilledFor(y)
  BY <1>3, <1>5
<1> HIDE DEF key, x
<1>7. Cardinality(told) = LISTED /\ \A y \in told : key[y] <= key[x]
  BY <1>3, <1>4, <1>5, LeftOut
<1>8. \A y \in told : FilledFor(x) <= FilledFor(y)
  BY <1>6, <1>7, FilledType
<1> QED
  BY <1>7, <1>8 DEF x

(***************************************************************************)
(* The two screens and the two lists agree, whatever the register holds.   *)
(***************************************************************************)
THEOREM DashboardsAgree == DashboardsSpec => []ScreensAgree
BY ScreensShowTheSame, NothingPendingUnlisted, PTL DEF ScreensAgree

(***************************************************************************)
(* The effect of a measure is told from the last quarter that began no     *)
(* later than it and the next one with numbers, whatever the quarters.     *)
(***************************************************************************)
THEOREM EffectsStraddle == EffectStraddles
<1>1. ASSUME NEW x \in Systems, NEW m \in Decided, Effect(x, m) # NONE
      PROVE  LET e == Effect(x, m)
             IN /\ PeriodKey(e.from) <= PeriodKey(m.quarter) /\ PeriodKey(m.quarter) < PeriodKey(e.to)
                /\ ~ \E q \in Points(x) :
                       PeriodKey(e.from) < PeriodKey(q) /\ PeriodKey(q) < PeriodKey(e.to)
  <2> DEFINE from == Newest(Before(x, m))
             to == Earliest(After(x, m))
  <2>1. Before(x, m) # {} /\ After(x, m) # {} /\ MeanOf(x, to, m.on) # NONE
    BY <1>1 DEF Effect
  <2>2. Effect(x, m).from = from /\ Effect(x, m).to = to
    BY <2>1 DEF Effect
  <2>3. Points(x) \subseteq Quarters /\ Before(x, m) \subseteq Points(x) /\ After(x, m) \subseteq Points(x)
    BY DEF Points, Opened, Before, After
  <2>4. /\ Quarters \subseteq QuarterLabel /\ m.quarter \in QuarterLabel
        /\ IsFiniteSet(Before(x, m)) /\ IsFiniteSet(After(x, m))
    BY <2>3, ReadQuarters, DashboardsAssumption DEF QuarterLabel
  <2>5. from \in Before(x, m) /\ \A o \in Before(x, m) : PeriodKey(o) <= PeriodKey(from)
    BY <2>1, <2>3, <2>4, NewestIs
  <2>6. to \in After(x, m) /\ \A o \in After(x, m) : PeriodKey(to) <= PeriodKey(o)
    BY <2>1, <2>3, <2>4, EarliestIs
  <2>7. PeriodKey(m.quarter) \in Nat /\ \A q \in Points(x) : PeriodKey(q) \in Nat
    BY <2>3, <2>4, KeysDiffer
  <2>8. PeriodKey(from) <= PeriodKey(m.quarter)
    BY <2>5 DEF Before
  <2>9. PeriodKey(m.quarter) < PeriodKey(to)
    <3>1. PeriodKey(from) < PeriodKey(to) /\ to \notin Before(x, m) /\ to \in Points(x)
      BY <2>3, <2>5, <2>6, <2>7 DEF After
    <3>2. ~ (PeriodKey(to) <= PeriodKey(m.quarter))
      BY <2>1, <3>1 DEF Before
    <3> QED
      BY <2>7, <3>1, <3>2
  <2>10. ASSUME NEW q \in Points(x), PeriodKey(from) < PeriodKey(q), PeriodKey(q) < PeriodKey(to)
         PROVE  FALSE
    <3>1. \A p \in Before(x, m) : PeriodKey(q) > PeriodKey(p)
      BY <2>3, <2>5, <2>7, <2>10
    <3>2. q \in After(x, m)
      BY <3>1 DEF After
    <3> QED
      BY <2>3, <2>6, <2>7, <2>10, <3>2
  <2> QED
    BY <2>2, <2>8, <2>9, <2>10
<1> QED
  BY <1>1 DEF EffectStraddles

-----------------------------------------------------------------------------
(***************************************************************************)
(* FailureCosts: what the operators of a cost return.                      *)
(***************************************************************************)

\* A column of a row is what its type says.
LEMMA RowTyped ==
  ASSUME NEW row \in OutageRow
  PROVE  /\ row.system \in Estate \cup {NONE} /\ row.name \in Estate /\ row.at \in Moments
         /\ row.resolved \in Moments \cup {NONE} /\ row.type \in Types
         /\ row.inputs \in Inputs \cup {NONE} /\ row.minutes \in Int \cup {NONE}
         /\ row.k \in 0 .. PARTS \cup {NONE} /\ row.labor \in Labor /\ row.vendor \in SUBSET SupportLines
         /\ row.counts \in BOOLEAN \cup {NONE} /\ row.bill \in Bill \cup {NONE}
BY DEF OutageRow

LEMMA ClippedType ==
  ASSUME NEW k \in Int
  PROVE  Clipped(k) \in 0 .. PARTS
BY FailureCostsAssumption DEF Clipped

LEMMA NearestType ==
  ASSUME NEW a \in Int, NEW b \in Int, b > 0
  PROVE  Nearest(a, b) \in Int
<1>1. 2 * a + b \in Int /\ 2 * b \in Int /\ 2 * b > 0
  OBVIOUS
<1> QED
  BY <1>1 DEF Nearest

\* What the inputs of a degradation say is a part of the whole.
LEMMA ComputedKType ==
  ASSUME NEW d \in Inputs \cup {NONE}
  PROVE  ComputedK(d) \in 0 .. PARTS \cup {NONE}
<1> USE FailureCostsAssumption
<1>1. CASE d = NONE
  BY <1>1 DEF ComputedK
<1>2. CASE d # NONE /\ d.kind = "FUNCTIONAL"
  <2>1. d.of \in Int /\ d.lost \in Int
    BY <1>2 DEF Inputs
  <2>2. ComputedK(d) = FunctionalK(d)
    BY <1>2 DEF ComputedK
  <2>3. PARTS * d.lost \in Int
    BY <2>1
  <2>4. d.of > 0 => Nearest(PARTS * d.lost, d.of) \in Int
    BY <2>1, <2>3, NearestType
  <2> QED
    BY <2>1, <2>2, <2>4, ClippedType DEF FunctionalK
<1>3. CASE d # NONE /\ d.kind = "THROUGHPUT"
  <2>1. d.of \in Int /\ d.actual \in Int
    BY <1>3 DEF Inputs
  <2>2. ComputedK(d) = ThroughputK(d)
    BY <1>3 DEF ComputedK
  <2>3. PARTS * (d.of - d.actual) \in Int
    BY <2>1
  <2>4. d.of > 0 => Nearest(PARTS * (d.of - d.actual), d.of) \in Int
    BY <2>1, <2>3, NearestType
  <2> QED
    BY <2>1, <2>2, <2>4, ClippedType DEF ThroughputK
<1>4. CASE d # NONE /\ d.kind = "PERFORMANCE"
  <2> DEFINE enough == {i \in DOMAIN Slower : d.ratio <= Slower[i][1]}
             i0 == CHOOSE i \in enough : \A j \in enough : i <= j
  <2>0. d.ratio \in Int
    BY <1>4 DEF Inputs
  <2>1. ComputedK(d) = PerformanceK(d)
    BY <1>4 DEF ComputedK
  <2>2. DOMAIN Slower = 1 .. 5 /\ \A i \in 1 .. 5 : Slower[i][1] \in Int /\ Slower[i][2] \in 0 .. 80
    BY DEF Slower
  <2>3. ASSUME enough # {} PROVE i0 \in 1 .. 5
    <3>1. \E i \in enough : \A j \in enough : i <= j
      <4>1. enough \in SUBSET Nat
        BY <2>2
      <4> HIDE DEF enough
      <4> QED
        BY <2>3, <4>1, Least
    <3>2. i0 \in enough
      BY <3>1
    <3> QED
      BY <2>2, <3>2
  <2>4. ASSUME NEW q \in 0 .. 80 PROVE (PARTS * q) \div 100 \in 0 .. PARTS
    <3>1. PARTS * q \in Int /\ 0 <= PARTS * q /\ PARTS * q <= PARTS * 80
      BY <2>4
    <3> QED
      BY <3>1
  <2>5. PerformanceK(d) = IF enough = {} THEN PARTS ELSE (PARTS * Slower[i0][2]) \div 100
    BY DEF PerformanceK
  <2> HIDE DEF i0, enough
  <2> QED
    BY <2>1, <2>2, <2>3, <2>4, <2>5
<1> QED
  BY <1>1, <1>2, <1>3, <1>4 DEF Inputs

\* A row takes a sum and its kind.
Summed(row, c, b) == [row EXCEPT !.counts = c, !.bill = b]

LEMMA SummedType ==
  ASSUME NEW row \in OutageRow, NEW c \in BOOLEAN \cup {NONE}, NEW b \in Bill \cup {NONE}
  PROVE  Summed(row, c, b) \in OutageRow /\ Summed(row, c, b).bill = b /\ Summed(row, c, b).counts = c
<1> DEFINE x == [row EXCEPT !.counts = c]
<1>1. x \in OutageRow /\ x.counts = c
  BY DEF OutageRow
<1>2. Summed(row, c, b) = [x EXCEPT !.bill = b]
  BY DEF Summed
<1> HIDE DEF x
<1>3. [x EXCEPT !.bill = b] \in OutageRow
  BY <1>1 DEF OutageRow
<1>4. [x EXCEPT !.bill = b].bill = b /\ [x EXCEPT !.bill = b].counts = c
  BY <1>1 DEF OutageRow
<1> QED
  BY <1>2, <1>3, <1>4

\* The coefficient the inputs of a card say is entered once and stays.
LEMMA KeyedType ==
  ASSUME NEW row \in OutageRow
  PROVE  /\ Keyed(row) \in OutageRow
         /\ \E k \in 0 .. PARTS \cup {NONE} : Keyed(row) = [row EXCEPT !.k = k]
<1>1. ComputedK(row.inputs) \in 0 .. PARTS \cup {NONE} /\ row.k \in 0 .. PARTS \cup {NONE}
  BY RowTyped, ComputedKType
<1>2. [row EXCEPT !.k = row.k] = row
  BY DEF OutageRow
<1>3. \A k \in 0 .. PARTS \cup {NONE} : [row EXCEPT !.k = k] \in OutageRow
  BY DEF OutageRow
<1> QED
  BY <1>1, <1>2, <1>3 DEF Keyed

LEMMA KeyedKept ==
  ASSUME NEW row \in OutageRow, NEW c \in BOOLEAN \cup {NONE}, NEW b \in Bill \cup {NONE}
  PROVE  Keyed(Summed(Keyed(row), c, b)) = Summed(Keyed(row), c, b)
<1> DEFINE x == Summed(Keyed(row), c, b)
<1>1. /\ x \in OutageRow /\ x.inputs = Keyed(row).inputs /\ x.type = Keyed(row).type
      /\ x.k = Keyed(row).k
  BY KeyedType DEF Summed, OutageRow
<1>2. Keyed(row).inputs = row.inputs /\ Keyed(row).type = row.type
  BY KeyedType DEF OutageRow
<1>3. row.type = "DEGRADATION" /\ ComputedK(row.inputs) # NONE => Keyed(row).k = ComputedK(row.inputs)
  BY DEF Keyed, OutageRow
<1> HIDE DEF x
<1>4. [x EXCEPT !.k = x.k] = x
  BY <1>1 DEF OutageRow
<1>5. Keyed(x) = x
  BY <1>1, <1>2, <1>3, <1>4 DEF Keyed
<1> QED
  BY <1>5 DEF x

LEMMA CountsType ==
  ASSUME NEW row \in OutageRow, threshold \in Thresholds
  PROVE  CountsAsDowntime(row) \in BOOLEAN \cup {NONE}
BY RowTyped DEF CountsAsDowntime

LEMMA BilledType ==
  ASSUME NEW m \in Nat, NEW q \in Nat
  PROVE  Billed(m, q) \in Nat /\ m <= Billed(m, q)
<1>1. CASE q = 0
  BY <1>1 DEF Billed
<1>2. CASE q > 0
  <2> DEFINE n == (- m) \div q
  <2>1. n \in Int /\ q * n <= - m /\ n <= 0
    BY <1>2
  <2>2. Billed(m, q) = q * (- n)
    BY <1>2 DEF Billed
  <2> HIDE DEF n
  <2>3. q * (- n) = - (q * n) /\ q * n \in Int /\ - n \in Nat
    BY <2>1
  <2> QED
    BY <2>1, <2>2, <2>3
<1> QED
  BY <1>1, <1>2

LEMMA TimeFactorType ==
  ASSUME NEW t \in SupportRate, NEW at \in Moments
  PROVE  TimeFactor(t, at) \in Nat
BY FailureCostsAssumption DEF TimeFactor, SupportRate

(***************************************************************************)
(* The bill of a line is made of numbers; it is inside the package by no   *)
(* more than what is left of it, and by no more than what it bills.        *)
(***************************************************************************)
LEMMA LineBillType ==
  ASSUME NEW t \in SupportRate, NEW minutes \in Nat, NEW at \in Moments, NEW used \in Nat
  PROVE  /\ LineBill(t, minutes, at, used) \in LineBills
         /\ minutes <= LineBill(t, minutes, at, used).billed
         /\ LineBill(t, minutes, at, used).packaged <= LineBill(t, minutes, at, used).billed
         /\ LineBill(t, minutes, at, used).packaged # 0 =>
              t.package \in Nat /\ LineBill(t, minutes, at, used).packaged <= t.package - used
<1> DEFINE vendor == t.executor = "VENDOR"
           billed == IF vendor THEN Billed(minutes, t.quantum) ELSE minutes
           limited == vendor /\ t.package # NONE /\ t.overlimit # NONE
           left == IF used > t.package THEN 0 ELSE t.package - used
           inside == IF ~ limited \/ billed <= left THEN billed ELSE left
           over == IF limited THEN (billed - inside) * t.overlimit ELSE 0
           factor == TimeFactor(t, at)
           money == (inside * t.perHour + over) * factor
<1>1. /\ t.quantum \in Nat /\ t.package \in Nat \cup {NONE} /\ t.overlimit \in Nat \cup {NONE}
      /\ t.perHour \in Nat /\ factor \in Nat
  BY TimeFactorType DEF SupportRate
<1>2. billed \in Nat /\ minutes <= billed
  <2>1. Billed(minutes, t.quantum) \in Nat /\ minutes <= Billed(minutes, t.quantum)
    BY <1>1, BilledType
  <2> QED
    BY <2>1
<1> HIDE DEF billed, factor
<1>3. limited => left \in Nat /\ (left # 0 => left <= t.package - used) /\ t.package \in Nat /\ t.overlimit \in Nat
  BY <1>1
<1> HIDE DEF left
<1>4. inside \in Nat /\ inside <= billed /\ (limited => inside <= left)
  BY <1>2, <1>3
<1> HIDE DEF inside
<1>5. over \in Nat
  <2>1. CASE limited
    <3>1. billed - inside \in Nat /\ t.overlimit \in Nat
      BY <1>2, <1>3, <1>4, <2>1
    <3> QED
      BY <2>1, <3>1
  <2> QED
    BY <2>1
<1> HIDE DEF over
<1>6. money \in Nat
  <2>1. inside * t.perHour \in Nat
    BY <1>1, <1>4
  <2>2. inside * t.perHour + over \in Nat
    BY <1>5, <2>1
  <2> QED
    BY <1>1, <2>2
<1> HIDE DEF money, limited
<1>7. LineBill(t, minutes, at, used) =
        [billed |-> billed, packaged |-> IF limited THEN inside ELSE 0, money |-> money]
  BY DEF LineBill, billed, limited, left, inside, over, factor, money
<1> QED
  BY <1>2, <1>3, <1>4, <1>6, <1>7 DEF LineBills


\* What a rule may choose to bill a line worked on by is a rate in force for it.
LEMMA ApplicableInForce ==
  ASSUME NEW l, NEW x, NEW e
  PROVE  Applicable(l, x, e) \subseteq {t \in tariffs : t.line = l}
BY DEF Applicable, Instead, By, InForce

LEMMA RateChoiceType ==
  ASSUME NEW row \in OutageRow, tariffs \in SUBSET Tariffs, NEW c \in RateChoices(row), NEW l \in Worked(row),
         c[l] # NONE
  PROVE  c[l] \in SupportRate /\ c[l] \in tariffs /\ c[l].line = l
<1>1. c[l] \in Applicable(l, row.system, ExecutorOf(row, l))
  BY DEF RateChoices
<1>2. c[l] \in tariffs /\ c[l].line = l
  BY <1>1, ApplicableInForce
<1> QED
  BY <1>2, FailureCostsAssumption

LEMMA WorkedType ==
  ASSUME NEW row \in OutageRow, NEW l \in SupportLines
  PROVE  /\ HoursOn(row, l) \in Nat
         /\ l \in Worked(row) => row.labor[l] \in Nat /\ HoursOn(row, l) = row.labor[l]
<1>1. row.labor[l] \in Nat \cup {NONE}
  BY RowTyped DEF Labor
<1> QED
  BY <1>1 DEF HoursOn, Worked

\* The failures whose hours on a line count before this one's.
CountedOn(F, f, l) == {o \in InPackage(F, f) : l \in F[o].vendor}

LEMMA UsedBeforeType ==
  ASSUME NEW F, OutageRows(F), NEW f \in DOMAIN F, NEW l \in SupportLines
  PROVE  UsedBefore(F, f, l) \in Nat
<1> DEFINE P == CountedOn(F, f, l)
           h == [g \in P |-> HoursOn(F[g], l)]
<1>1. P \in SUBSET Outages /\ P \subseteq DOMAIN F
  BY DEF CountedOn, InPackage, OutageRows
<1>2. IsFiniteSet(P)
  BY <1>1, FailureCostsAssumption, FS_Subset
<1>3. \A g \in P : F[g] \in OutageRow
  BY <1>1 DEF OutageRows
<1>4. \A g \in P : h[g] \in Nat
  BY <1>3, WorkedType
<1>5. DOMAIN h = P
  OBVIOUS
<1>6. UsedBefore(F, f, l) = IF l \notin F[f].vendor THEN 0 ELSE SumFunction(h)
  BY DEF UsedBefore, CountedOn
<1> HIDE DEF P, h
<1>7. SumFunctionOnSet(h, P) \in Nat
  BY <1>2, <1>4, SumNat
<1> QED
  BY <1>5, <1>6, <1>7 DEF SumFunction

LEMMA ProfileFactorType ==
  ASSUME NEW p \in DayProfiles, NEW at \in Moments
  PROVE  ProfileFactor(p, at) \in Nat
<1>1. CASE p = NONE
  BY <1>1, FailureCostsAssumption DEF ProfileFactor
<1>2. CASE p # NONE
  <2>1. p.weekend \in Nat \cup {NONE} /\ p.peak \in Nat /\ p.offpeak \in Nat
    BY <1>2 DEF DayProfiles
  <2> QED
    BY <1>2, <2>1 DEF ProfileFactor
<1> QED
  BY <1>1, <1>2

LEMMA DowntimeCostType ==
  ASSUME NEW row \in OutageRow, services \in SUBSET Services, cards \in [BusinessProcesses -> Card]
  PROVE  DowntimeCost(row) \in Int
<1> DEFINE P == Stopped(row)
           h == [s \in P |-> DownMinutes(row) * cards[s.process].base
                               * ProfileFactor(cards[s.process].profile, row.at) * Impact(row, s) * s.share]
<1>1. P \subseteq Services
  BY DEF Stopped
<1>2. IsFiniteSet(P)
  BY <1>1, FailureCostsAssumption, FS_Subset
<1>3. DownMinutes(row) \in Int
  <2>1. row.minutes \in Int \cup {NONE} /\ row.resolved \in Nat \cup {NONE} /\ row.at \in Nat
    BY RowTyped, FailureCostsAssumption
  <2> QED
    BY <2>1 DEF DownMinutes
<1>4. ASSUME NEW s \in P
      PROVE  h[s] \in Int
  <2>1. s \in ServiceLink
    BY <1>1, FailureCostsAssumption
  <2>2. s.process \in BusinessProcesses /\ s.share \in Nat /\ s.k \in Nat \cup {NONE}
    BY <2>1, FailureCostsAssumption DEF ServiceLink
  <2>3. cards[s.process] \in Card
    BY <2>2
  <2>4. cards[s.process].base \in Nat /\ cards[s.process].profile \in DayProfiles
    BY <2>3 DEF Card, Stopped
  <2>5. ProfileFactor(cards[s.process].profile, row.at) \in Int
    BY <2>4, RowTyped, ProfileFactorType
  <2>6. Impact(row, s) \in Int
    BY <2>2, RowTyped, FailureCostsAssumption DEF Impact
  <2>7. DownMinutes(row) * cards[s.process].base \in Int
    BY <1>3, <2>4
  <2>8. DownMinutes(row) * cards[s.process].base * ProfileFactor(cards[s.process].profile, row.at) \in Int
    BY <2>5, <2>7
  <2>9. DownMinutes(row) * cards[s.process].base * ProfileFactor(cards[s.process].profile, row.at)
          * Impact(row, s) \in Int
    BY <2>6, <2>8
  <2> QED
    BY <2>2, <2>9
<1>5. DowntimeCost(row) = SumFunction(h) /\ DOMAIN h = P
  BY DEF DowntimeCost
<1> HIDE DEF P, h
<1>6. SumFunctionOnSet(h, P) \in Int
  <2>1. P \in SUBSET P
    OBVIOUS
  <2> QED
    BY <1>2, <1>4, <2>1, SumFold
<1> QED
  BY <1>5, <1>6 DEF SumFunction

\* What may be said to be the bill of a row is one.
LEMMA BillsAfterType ==
  ASSUME NEW row \in OutageRow, NEW used \in [SupportLines -> Nat], tariffs \in SUBSET Tariffs,
         services \in SUBSET Services, cards \in [BusinessProcesses -> Card], NEW b \in BillsAfter(row, used)
  PROVE  b \in Bill /\ b # NONE
<1>1. PICK c \in RateChoices(row) :
        b = [ lines |-> [l \in SupportLines |->
                           IF l \notin Worked(row) \/ c[l] = NONE THEN NONE
                           ELSE LineBill(c[l], row.labor[l], row.at, used[l])],
              downtime |-> DowntimeCost(row) ]
  BY DEF BillsAfter
<1>2. ASSUME NEW l \in SupportLines, l \in Worked(row), c[l] # NONE
      PROVE  LineBill(c[l], row.labor[l], row.at, used[l]) \in LineBills
  <2>1. c[l] \in SupportRate /\ row.labor[l] \in Nat /\ row.at \in Moments /\ used[l] \in Nat
    BY <1>2, RateChoiceType, WorkedType, RowTyped
  <2> QED
    BY <2>1, LineBillType
<1>3. b \in Bill
  BY <1>1, <1>2, DowntimeCostType DEF Bill
<1> QED
  BY <1>3, FailureCostsAssumption

\* The row a sum was computed for differs from the one it was computed from in four columns.
LEMMA RecomputedType ==
  ASSUME NEW F, OutageRows(F), NEW f \in DOMAIN F, NEW row \in Recomputed(F, f),
         tariffs \in SUBSET Tariffs, services \in SUBSET Services, cards \in [BusinessProcesses -> Card],
         threshold \in Thresholds
  PROVE  /\ row \in OutageRow /\ row.bill # NONE
         /\ \E b \in Bills([F EXCEPT ![f] = Keyed(F[f])], f) :
              row = Summed(Keyed(F[f]), CountsAsDowntime(Keyed(F[f])), b)
<1> DEFINE key == Keyed(F[f])
           G == [F EXCEPT ![f] = key]
<1>1. F[f] \in OutageRow /\ key \in OutageRow
  BY KeyedType DEF OutageRows
<1>2. OutageRows(G) /\ f \in DOMAIN G /\ G[f] = key
  BY <1>1 DEF OutageRows
<1>3. PICK b \in Bills(G, f) : row = Summed(key, CountsAsDowntime(key), b)
  BY DEF Recomputed, Summed
<1> HIDE DEF key, G
<1>4. b \in Bill /\ b # NONE
  <2> DEFINE used == [l \in SupportLines |-> UsedBefore(G, f, l)]
  <2>1. used \in [SupportLines -> Nat]
    BY <1>2, UsedBeforeType
  <2>2. b \in BillsAfter(key, used)
    BY <1>2, <1>3 DEF Bills
  <2> HIDE DEF used
  <2> QED
    BY <1>1, <2>1, <2>2, BillsAfterType
<1>5. CountsAsDowntime(key) \in BOOLEAN \cup {NONE}
  BY <1>1, CountsType
<1>6. row \in OutageRow /\ row.bill = b
  BY <1>1, <1>3, <1>4, <1>5, SummedType
<1> QED
  BY <1>3, <1>4, <1>6 DEF key, G

(***************************************************************************)
(* What a cost depends on: the hours of a line count by the system, the    *)
(* moment, the hours and the vendor of a row, and the bill of a row by     *)
(* these, its length and its coefficient.                                  *)
(***************************************************************************)
Alike(x, y) ==
  /\ x.system = y.system /\ x.name = y.name /\ x.at = y.at
  /\ x.labor = y.labor /\ x.vendor = y.vendor

SameInputs(x, y) == Alike(x, y) /\ x.resolved = y.resolved /\ x.minutes = y.minutes /\ x.k = y.k

\* The sum written on a row changes nothing a cost depends on.
LEMMA SummedAlike ==
  ASSUME NEW row \in OutageRow, NEW c \in BOOLEAN \cup {NONE}, NEW b \in Bill \cup {NONE}
  PROVE  /\ SameInputs(row, Summed(row, c, b)) /\ Summed(row, c, b).type = row.type
         /\ Summed(row, c, b).inputs = row.inputs
<1> DEFINE x == [row EXCEPT !.counts = c]
<1>1. x \in OutageRow /\ SameInputs(row, x) /\ x.type = row.type /\ x.inputs = row.inputs
  BY DEF OutageRow, SameInputs, Alike
<1>2. Summed(row, c, b) = [x EXCEPT !.bill = b]
  BY DEF Summed
<1> HIDE DEF x
<1>3. SameInputs(row, [x EXCEPT !.bill = b]) /\ [x EXCEPT !.bill = b].type = row.type
      /\ [x EXCEPT !.bill = b].inputs = row.inputs
  BY <1>1 DEF OutageRow, SameInputs, Alike
<1> QED
  BY <1>2, <1>3

\* Nor does the coefficient change whose hours come before whose.
LEMMA KeyedAlike ==
  ASSUME NEW row \in OutageRow
  PROVE  Alike(row, Keyed(row)) /\ Keyed(row).type = row.type
<1>1. PICK k \in 0 .. PARTS \cup {NONE} : Keyed(row) = [row EXCEPT !.k = k]
  BY KeyedType
<1>2. Alike(row, [row EXCEPT !.k = k]) /\ [row EXCEPT !.k = k].type = row.type
  BY DEF OutageRow, Alike
<1> QED
  BY <1>1, <1>2

\* Whether a degradation is a downtime is said by its kind, coefficient and length.
LEMMA CountsAlike ==
  ASSUME NEW x, NEW y, x.type = y.type, x.k = y.k, x.minutes = y.minutes
  PROVE  CountsAsDowntime(x) = CountsAsDowntime(y)
BY DEF CountsAsDowntime

\* Rows alike are billed alike after the same hours.
LEMMA BillsAfterAlike ==
  ASSUME NEW x, NEW y, SameInputs(x, y), NEW used
  PROVE  BillsAfter(x, used) = BillsAfter(y, used)
<1> USE DEF SameInputs, Alike
<1>1. Worked(x) = Worked(y)
  BY DEF Worked
<1>2. \A l : ExecutorOf(x, l) = ExecutorOf(y, l)
  BY DEF ExecutorOf
<1>3. RateChoices(x) = RateChoices(y)
  BY <1>1, <1>2 DEF RateChoices
<1>4. DowntimeCost(x) = DowntimeCost(y)
  <2>1. Stopped(x) = Stopped(y) /\ DownMinutes(x) = DownMinutes(y)
    BY DEF Stopped, DownMinutes
  <2>2. \A s : Impact(x, s) = Impact(y, s)
    BY DEF Impact
  <2> QED
    BY <2>1, <2>2 DEF DowntimeCost
<1> QED
  BY <1>1, <1>3, <1>4 DEF BillsAfter

\* Whether g was entered with F, and its hours come before those of row.
ComesBefore(F, g, row) == g \in DOMAIN F /\ Precedes(F[g], row)

\* The hours used before a row are the same where the same rows, alike, come before it.
LEMMA UsedBeforeAlike ==
  ASSUME NEW F, NEW G, OutageRows(F), OutageRows(G), NEW f \in DOMAIN F, f \in DOMAIN G, Alike(F[f], G[f]),
         \A g \in Outages \ {f} :
           /\ ComesBefore(F, g, F[f]) <=> ComesBefore(G, g, F[f])
           /\ ComesBefore(F, g, F[f]) => Alike(F[g], G[g]),
         NEW l \in SupportLines
  PROVE  UsedBefore(F, f, l) = UsedBefore(G, f, l)
<1>1. CASE l \notin F[f].vendor
  BY <1>1 DEF UsedBefore, Alike
<1>2. CASE l \in F[f].vendor
  <2> DEFINE P == CountedOn(F, f, l)
             Q == CountedOn(G, f, l)
  <2>1. DOMAIN F \subseteq Outages /\ DOMAIN G \subseteq Outages
    BY DEF OutageRows
  <2>2. ASSUME NEW g \in P
        PROVE  g \in Q /\ HoursOn(F[g], l) = HoursOn(G[g], l)
    <3>1. ComesBefore(F, g, F[f]) /\ g \in Outages \ {f}
      BY <1>2, <2>1, <2>2 DEF CountedOn, InPackage, ComesBefore, Precedes
    <3>2. ComesBefore(G, g, F[f]) /\ Alike(F[g], G[g])
      BY <3>1
    <3> QED
      BY <2>2, <3>1, <3>2 DEF CountedOn, InPackage, ComesBefore, Precedes, Alike, CountedTogether, HoursOn
  <2>3. ASSUME NEW g \in Q
        PROVE  g \in P
    <3>1. ComesBefore(G, g, F[f]) /\ g \in Outages \ {f}
      BY <1>2, <2>1, <2>3 DEF CountedOn, InPackage, ComesBefore, Precedes, Alike, CountedTogether
    <3>2. ComesBefore(F, g, F[f]) /\ Alike(F[g], G[g])
      BY <3>1
    <3> QED
      BY <2>3, <3>1, <3>2 DEF CountedOn, InPackage, ComesBefore, Precedes, Alike, CountedTogether
  <2>4. P = Q /\ \A g \in P : HoursOn(F[g], l) = HoursOn(G[g], l)
    BY <2>2, <2>3
  <2>5. l \in G[f].vendor
    BY <1>2 DEF Alike
  <2>6. /\ UsedBefore(F, f, l) = SumFunction([g \in P |-> HoursOn(F[g], l)])
        /\ UsedBefore(G, f, l) = SumFunction([g \in Q |-> HoursOn(G[g], l)])
    BY <1>2, <2>5 DEF UsedBefore, CountedOn
  <2> HIDE DEF P, Q
  <2>7. [g \in P |-> HoursOn(F[g], l)] = [g \in Q |-> HoursOn(G[g], l)]
    BY <2>4
  <2> QED
    BY <2>6, <2>7
<1> QED
  BY <1>1, <1>2

\* Hence so are the bills of the row.
LEMMA BillsAlike ==
  ASSUME NEW F, NEW G, OutageRows(F), OutageRows(G), NEW f \in DOMAIN F, f \in DOMAIN G,
         SameInputs(F[f], G[f]),
         \A g \in Outages \ {f} :
           /\ ComesBefore(F, g, F[f]) <=> ComesBefore(G, g, F[f])
           /\ ComesBefore(F, g, F[f]) => Alike(F[g], G[g])
  PROVE  Bills(F, f) = Bills(G, f)
<1>1. Alike(F[f], G[f])
  BY DEF SameInputs
<1>2. [l \in SupportLines |-> UsedBefore(F, f, l)] = [l \in SupportLines |-> UsedBefore(G, f, l)]
  BY <1>1, UsedBeforeAlike
<1> QED
  BY <1>2, BillsAfterAlike DEF Bills

(***************************************************************************)
(* What does not shake a failure leaves its cost current.                  *)
(***************************************************************************)
LEMMA UnstirredIsCurrent ==
  ASSUME NEW F, NEW G, OutageRows(F), OutageRows(G), NEW f \in DOMAIN F, DOMAIN F \subseteq DOMAIN G,
         G[f] = F[f], \A g \in DOMAIN G \ {f} : ~ Stirs(F, G, g, F[f]), Current(F, f)
  PROVE  Current(G, f)
<1>1. \A g \in Outages \ {f} :
        /\ ComesBefore(F, g, F[f]) <=> ComesBefore(G, g, F[f])
        /\ ComesBefore(F, g, F[f]) => F[g] = G[g]
  BY DEF ComesBefore, Stirs
<1>2. \A g \in Outages \ {f} : ComesBefore(F, g, F[f]) => Alike(F[g], G[g])
  BY <1>1 DEF Alike
<1>3. SameInputs(F[f], G[f])
  BY DEF SameInputs, Alike
<1>4. Bills(F, f) = Bills(G, f)
  BY <1>1, <1>2, <1>3, BillsAlike
<1> QED
  BY <1>4 DEF Current

\* A row just computed is current beside rows that count like those it was computed beside.
LEMMA RecomputedIsCurrent ==
  ASSUME NEW F, NEW G, OutageRows(F), OutageRows(G), NEW f \in DOMAIN F, f \in DOMAIN G, DOMAIN F = DOMAIN G,
         G[f] \in Recomputed(F, f), \A g \in DOMAIN F \ {f} : Alike(F[g], G[g]),
         tariffs \in SUBSET Tariffs, services \in SUBSET Services, cards \in [BusinessProcesses -> Card],
         threshold \in Thresholds
  PROVE  Current(G, f)
<1> DEFINE key == Keyed(F[f])
           n == CountsAsDowntime(key)
           K == [F EXCEPT ![f] = key]
<1>1. PICK b \in Bills(K, f) : G[f] = Summed(key, n, b)
  BY RecomputedType
<1>2. F[f] \in OutageRow /\ key \in OutageRow /\ G[f] \in OutageRow
  BY KeyedType DEF OutageRows
<1>3. n \in BOOLEAN \cup {NONE}
  BY <1>2, CountsType
<1>4. OutageRows(K) /\ DOMAIN K = DOMAIN F /\ K[f] = key /\ \A g \in DOMAIN F \ {f} : K[g] = F[g]
  BY <1>2 DEF OutageRows
<1>5. b \in Bill
  <2> DEFINE used == [l \in SupportLines |-> UsedBefore(K, f, l)]
  <2> HIDE DEF key, K
  <2>1. used \in [SupportLines -> Nat]
    BY <1>4, UsedBeforeType
  <2>2. b \in BillsAfter(key, used)
    BY <1>1, <1>4 DEF Bills
  <2> HIDE DEF used
  <2> QED
    BY <1>2, <2>1, <2>2, BillsAfterType
<1>6. Keyed(Summed(key, n, b)) = Summed(key, n, b)
  BY <1>2, <1>3, <1>5, KeyedKept
<1> HIDE DEF key, K
<1>7. /\ SameInputs(key, G[f]) /\ G[f].type = key.type
      /\ G[f].bill = b /\ G[f].counts = n
  <2> HIDE DEF n
  <2> QED
    BY <1>1, <1>2, <1>3, <1>5, SummedAlike, SummedType
<1>8. \A g \in Outages \ {f} : g \in DOMAIN K => g \in DOMAIN G /\ Alike(K[g], G[g])
  BY <1>4
<1>9. \A g \in Outages \ {f} :
        /\ ComesBefore(K, g, K[f]) <=> ComesBefore(G, g, K[f])
        /\ ComesBefore(K, g, K[f]) => Alike(K[g], G[g])
  BY <1>4, <1>8 DEF ComesBefore, Precedes, Alike, CountedTogether
<1>10. Bills(K, f) = Bills(G, f)
  BY <1>4, <1>7, <1>9, BillsAlike
<1>11. CountsAsDowntime(G[f]) = n
  <2>1. G[f].k = key.k /\ G[f].minutes = key.minutes
    BY <1>7 DEF SameInputs
  <2> QED
    BY <1>7, <2>1, CountsAlike
<1> QED
  BY <1>1, <1>6, <1>7, <1>10, <1>11 DEF Current

(***************************************************************************)
(* A failure nobody has put hours to asks for no package, so what a risk   *)
(* computes without asking is what a recomputation would.                  *)
(***************************************************************************)
LEMMA BareIsCurrent ==
  ASSUME NEW G, OutageRows(G), NEW f \in DOMAIN G, NEW row \in OutageRow, row.type = "DOWNTIME", row.vendor = {},
         NEW b \in BillsAfter(row, [l \in SupportLines |-> 0]), b \in Bill, G[f] = [row EXCEPT !.bill = b]
  PROVE  Current(G, f)
<1>1. SameInputs(row, G[f]) /\ G[f].type = "DOWNTIME" /\ G[f].bill = b /\ G[f].vendor = {}
  BY DEF OutageRow, SameInputs, Alike
<1>2. \A l \in SupportLines : UsedBefore(G, f, l) = 0
  BY <1>1 DEF UsedBefore
<1>3. [l \in SupportLines |-> UsedBefore(G, f, l)] = [l \in SupportLines |-> 0]
  BY <1>2
<1>4. Bills(G, f) = BillsAfter(row, [l \in SupportLines |-> 0])
  BY <1>1, <1>3, BillsAfterAlike DEF Bills
<1> QED
  BY <1>1, <1>4 DEF Current

(***************************************************************************)
(* What a request holds: what it read, and rows with a sum each.  While    *)
(* nothing it uses has changed, what it read is as it was and each sum is  *)
(* current beside what it will write.                                      *)
(***************************************************************************)
JobOK(job, F) ==
  /\ DOMAIN job.was = DOMAIN job.now \cap DOMAIN F
  /\ \A f \in DOMAIN job.now : job.now[f].bill # NONE
  /\ \A f \in DOMAIN job.was : job.was[f].bill # NONE => F[f].bill # NONE
  /\ ~ job.shaken =>
       /\ \A f \in DOMAIN job.was : F[f] = job.was[f]
       /\ \A f \in DOMAIN job.now : Current(With(F, job.now), f)

JobsOK ==
  /\ \A d \in Busy : JobOK(desk[d], outages)
  /\ \A i, j \in Busy : i # j => DOMAIN desk[i].now \cap DOMAIN desk[j].now \subseteq DOMAIN outages

CostsInv == FailureCostsTypeOK /\ UncostedIsBare /\ KeptIsCurrent /\ JobsOK

\* Rows put over others.
LEMMA WithRows ==
  ASSUME NEW F, NEW R, OutageRows(F), OutageRows(R)
  PROVE  /\ OutageRows(With(F, R)) /\ DOMAIN With(F, R) = DOMAIN F \cup DOMAIN R
         /\ \A f \in DOMAIN R : With(F, R)[f] = R[f]
         /\ \A f \in DOMAIN F \ DOMAIN R : With(F, R)[f] = F[f]
BY DEF With, OutageRows

\* The rows beside those of a request change, and none of its sums is shaken.
LEMMA JobAcross ==
  ASSUME NEW F, NEW G, OutageRows(F), OutageRows(G), DOMAIN F \subseteq DOMAIN G, NEW job, CostJob(job),
         JobOK(job, F), (DOMAIN G \ DOMAIN F) \cap DOMAIN job.now = {},
         \A f \in DOMAIN F : F[f].bill # NONE => G[f].bill # NONE,
         \A f \in DOMAIN job.now : ~ Shaken(F, G, f, job.now[f])
  PROVE  JobOK(job, G)
<1> DEFINE H == With(F, job.now)
           K == With(G, job.now)
<1>1. OutageRows(job.now) /\ OutageRows(job.was)
  BY DEF CostJob
<1>2. /\ OutageRows(H) /\ DOMAIN H = DOMAIN F \cup DOMAIN job.now
      /\ \A f \in DOMAIN job.now : H[f] = job.now[f]
      /\ \A f \in DOMAIN F \ DOMAIN job.now : H[f] = F[f]
  BY <1>1, WithRows
<1>3. /\ OutageRows(K) /\ DOMAIN K = DOMAIN G \cup DOMAIN job.now
      /\ \A f \in DOMAIN job.now : K[f] = job.now[f]
      /\ \A f \in DOMAIN G \ DOMAIN job.now : K[f] = G[f]
  BY <1>1, WithRows
<1> HIDE DEF H, K
<1>4. DOMAIN job.was = DOMAIN job.now \cap DOMAIN G /\ DOMAIN job.was \subseteq DOMAIN F
  BY DEF JobOK
<1>5. \A f \in DOMAIN job.was : job.was[f].bill # NONE => G[f].bill # NONE
  BY <1>4 DEF JobOK
<1>6. ASSUME ~ job.shaken, NEW f \in DOMAIN job.was
      PROVE  G[f] = job.was[f]
  BY <1>4, <1>6 DEF JobOK, Shaken
<1>7. ASSUME ~ job.shaken, NEW f \in DOMAIN job.now
      PROVE  Current(K, f)
  <2>1. Current(H, f)
    BY <1>7 DEF JobOK, H
  <2>2. ASSUME NEW g \in DOMAIN K \ {f}
        PROVE  ~ Stirs(H, K, g, H[f])
    <3>1. CASE g \in DOMAIN job.now
      BY <1>2, <1>3, <3>1 DEF Stirs
    <3>2. CASE g \notin DOMAIN job.now
      <4>1. g \in DOMAIN G \ {f} /\ K[g] = G[g] /\ (g \in DOMAIN H <=> g \in DOMAIN F)
            /\ (g \in DOMAIN F => H[g] = F[g])
        BY <1>2, <1>3, <2>2, <3>2
      <4>2. ~ Stirs(F, G, g, job.now[f])
        BY <1>7, <4>1 DEF Shaken
      <4> QED
        BY <1>2, <1>7, <4>1, <4>2 DEF Stirs
    <3> QED
      BY <3>1, <3>2
  <2>3. f \in DOMAIN H /\ K[f] = H[f] /\ DOMAIN H \subseteq DOMAIN K
    BY <1>2, <1>3, <1>7
  <2> QED
    BY <1>2, <1>3, <2>1, <2>2, <2>3, UnstirredIsCurrent
<1> QED
  BY <1>4, <1>5, <1>6, <1>7 DEF JobOK, K

\* A request whose sums are shaken has its rows, and says so.
LEMMA JobShaken ==
  ASSUME NEW F, NEW G, DOMAIN F \subseteq DOMAIN G, NEW job, CostJob(job), JobOK(job, F),
         (DOMAIN G \ DOMAIN F) \cap DOMAIN job.now = {},
         \A f \in DOMAIN F : F[f].bill # NONE => G[f].bill # NONE
  PROVE  JobOK([job EXCEPT !.shaken = TRUE], G)
<1> DEFINE x == [job EXCEPT !.shaken = TRUE]
<1>1. x.was = job.was /\ x.now = job.now /\ x.shaken
  BY DEF CostJob
<1> HIDE DEF x
<1>2. DOMAIN job.was = DOMAIN job.now \cap DOMAIN G /\ DOMAIN job.was \subseteq DOMAIN F
  BY DEF JobOK
<1>3. \A f \in DOMAIN job.was : job.was[f].bill # NONE => G[f].bill # NONE
  BY <1>2 DEF JobOK
<1>4. \A f \in DOMAIN job.now : job.now[f].bill # NONE
  BY DEF JobOK
<1>5. JobOK(x, G)
  BY <1>1, <1>2, <1>3, <1>4 DEF JobOK
<1> QED
  BY <1>5 DEF x

\* A shaken request holds what it held.
LEMMA ShakenTyped ==
  ASSUME NEW job, CostJob(job)
  PROVE  CostJob([job EXCEPT !.shaken = TRUE]) /\ [job EXCEPT !.shaken = TRUE].now = job.now
<1> DEFINE x == [job EXCEPT !.shaken = TRUE]
<1>1. x.was = job.was /\ x.now = job.now /\ x.shaken = TRUE
  BY DEF CostJob
<1>2. DOMAIN x = DOMAIN job /\ x = [c \in DOMAIN x |-> x[c]]
  BY DEF CostJob
<1> HIDE DEF x
<1>3. CostJob(x)
  BY <1>1, <1>2 DEF CostJob
<1> QED
  BY <1>1, <1>3 DEF x

(***************************************************************************)
(* The prices stay: what is current of some rows is so still.              *)
(***************************************************************************)
Prices == <<tariffs, cards, services, threshold>>

\* Nothing but the prices, besides the rows, says whether a sum is current.
LEMMA SamePrices ==
  ASSUME UNCHANGED Prices
  PROVE  \A F, f : Current(F, f)' <=> Current(F, f)
<1> USE DEF Prices
<1>1. \A row : CountsAsDowntime(row)' = CountsAsDowntime(row)
  BY DEF CountsAsDowntime
<1>2. \A l, x, e : Applicable(l, x, e)' = Applicable(l, x, e)
  BY DEF Applicable, Instead, By, InForce
<1>3. \A row : RateChoices(row)' = RateChoices(row)
  BY <1>2 DEF RateChoices
<1>4. \A row : DowntimeCost(row)' = DowntimeCost(row)
  <2>1. \A row : Stopped(row)' = Stopped(row)
    BY DEF Stopped
  <2> QED
    BY <2>1 DEF DowntimeCost
<1>5. \A row, used : BillsAfter(row, used)' = BillsAfter(row, used)
  BY <1>3, <1>4 DEF BillsAfter
<1>6. \A F, f : Bills(F, f)' = Bills(F, f)
  BY <1>5 DEF Bills
<1> QED
  BY <1>1, <1>6 DEF Current

\* Nor whether a request is as it should be.
LEMMA SameJobs ==
  ASSUME UNCHANGED Prices
  PROVE  \A job, F : JobOK(job, F)' <=> JobOK(job, F)
BY SamePrices DEF JobOK

-----------------------------------------------------------------------------
\* What is left of the requests when some are shaken.
LEMMA DesksUnsettled ==
  ASSUME FailureCostsTypeOK, NEW fs, NEW ds \in SUBSET Busy, Unsettle(fs, ds)
  PROVE  /\ desk' = [d \in Desks |-> desk'[d]]
         /\ \A d \in Desks : desk'[d] # NONE => CostJob(desk'[d])
         /\ Busy' \subseteq Busy
         /\ \A d \in Busy : desk'[d].now = desk[d].now
         /\ \A d \in ds : desk'[d] = [desk[d] EXCEPT !.shaken = TRUE]
         /\ \A d \in Busy \ ds : desk'[d] = desk[d]
<1>1. desk' = [d \in Desks |-> IF d \in ds THEN [desk[d] EXCEPT !.shaken = TRUE] ELSE desk[d]]
  BY DEF Unsettle
<1>2. ds \subseteq Busy /\ Busy \subseteq Desks
  BY DEF Busy
<1>3. \A d \in Busy : CostJob(desk[d])
  BY DEF Busy, FailureCostsTypeOK
<1>4. \A d \in ds : CostJob([desk[d] EXCEPT !.shaken = TRUE]) /\ [desk[d] EXCEPT !.shaken = TRUE].now = desk[d].now
  BY <1>2, <1>3, ShakenTyped
<1>5. \A d \in ds : desk'[d] = [desk[d] EXCEPT !.shaken = TRUE]
  BY <1>1, <1>2
<1>6. \A d \in Desks \ ds : desk'[d] = desk[d]
  BY <1>1
<1>7. \A d \in Desks : desk'[d] # NONE => d \in Busy
  BY <1>2, <1>6 DEF Busy
<1>8. \A d \in Desks : desk'[d] # NONE => CostJob(desk'[d])
  BY <1>3, <1>4, <1>5, <1>6, <1>7
<1>9. Busy' \subseteq Busy
  BY <1>7 DEF Busy
<1>10. desk' = [d \in Desks |-> desk'[d]]
  BY <1>1
<1> QED
  BY <1>2, <1>4, <1>5, <1>6, <1>8, <1>9, <1>10

\* The rows change as G has them, and nothing of them but moments: no sum comes or goes.
Bare(row) == row.type = "DOWNTIME" /\ row.vendor = {} /\ Worked(row) = {}

\* The rows change, no sum comes or goes, and what is shaken is marked.
LEMMA RowsMove ==
  ASSUME CostsInv, NEW G, OutageRows(G), DOMAIN outages \subseteq DOMAIN G, RowsBecome(G),
         costEdits' \in 0 .. MaxCostEdits,
         \A f \in DOMAIN outages : G[f].bill = outages[f].bill,
         \A f \in DOMAIN G : G[f].bill = NONE => Bare(G[f]),
         \A f \in DOMAIN G \ DOMAIN outages : G[f].bill = NONE /\ \A d \in Busy : f \notin DOMAIN desk[d].now
  PROVE  CostsInv'
<1> DEFINE ds == DesksShakenBy(G)
           fs == ShakenBy(G)
<1>1. /\ outages' = G /\ doubtful' = doubtful \cup fs /\ Unsettle(fs, ds)
      /\ UNCHANGED <<tariffs, cards, services, threshold>>
  BY DEF RowsBecome, Unsettle
<1>2. OutageRows(outages) /\ doubtful \subseteq DOMAIN outages
  BY DEF CostsInv, FailureCostsTypeOK
<1>3. fs \subseteq Costed /\ ds \subseteq Busy
  BY DEF ShakenBy, DesksShakenBy
<1>4. FailureCostsTypeOK /\ JobsOK /\ KeptIsCurrent
  BY DEF CostsInv
<1>5. ASSUME NEW f \in Costed \ fs PROVE ~ Shaken(outages, G, f, outages[f])
  BY <1>5 DEF ShakenBy
<1>6. ASSUME NEW d \in Busy \ ds, NEW f \in DOMAIN desk[d].now
      PROVE  ~ Shaken(outages, G, f, desk[d].now[f])
  BY <1>6 DEF DesksShakenBy
<1> HIDE DEF ds, fs
<1>7. /\ desk' = [d \in Desks |-> desk'[d]]
      /\ \A d \in Desks : desk'[d] # NONE => CostJob(desk'[d])
      /\ Busy' \subseteq Busy
      /\ \A d \in Busy : desk'[d].now = desk[d].now
      /\ \A d \in ds : desk'[d] = [desk[d] EXCEPT !.shaken = TRUE]
      /\ \A d \in Busy \ ds : desk'[d] = desk[d]
  BY <1>1, <1>3, <1>4, DesksUnsettled
<1>8. UNCHANGED Prices
  BY <1>1 DEF Prices
<1>9. FailureCostsTypeOK'
  <2>1. doubtful' \subseteq DOMAIN outages'
    BY <1>1, <1>2, <1>3 DEF Costed
  <2>2. OutageRows(outages)'
    BY <1>1 DEF OutageRows
  <2>3. \A d \in Desks : desk'[d] # NONE => CostJob(desk[d])'
    BY <1>7 DEF CostJob, OutageRows
  <2> QED
    BY <1>1, <1>4, <1>7, <2>1, <2>2, <2>3 DEF FailureCostsTypeOK
<1>10. UncostedIsBare'
  BY <1>1 DEF UncostedIsBare, Costed, Bare, Worked
<1>11. KeptIsCurrent'
  <2> SUFFICES ASSUME NEW f \in (Costed \ doubtful)' PROVE Current(outages, f)'
    BY DEF KeptIsCurrent
  <2>1. f \in Costed /\ f \notin doubtful /\ f \notin fs
    BY <1>1 DEF Costed
  <2>2. f \in DOMAIN outages /\ Current(outages, f)
    BY <1>4, <2>1 DEF KeptIsCurrent, Costed
  <2>3. ~ Shaken(outages, G, f, outages[f])
    BY <1>5, <2>1
  <2>4. G[f] = outages[f] /\ \A g \in DOMAIN G \ {f} : ~ Stirs(outages, G, g, outages[f])
    BY <2>2, <2>3 DEF Shaken
  <2>5. Current(G, f)
    BY <1>2, <2>2, <2>4, UnstirredIsCurrent
  <2> QED
    BY <1>1, <1>8, <2>5, SamePrices
<1>12. JobsOK'
  <2>1. \A d \in Busy : CostJob(desk[d]) /\ JobOK(desk[d], outages)
    BY <1>4 DEF JobsOK, FailureCostsTypeOK, Busy
  <2>2. \A f \in DOMAIN outages : outages[f].bill # NONE => G[f].bill # NONE
    OBVIOUS
  <2>3. \A d \in Busy : (DOMAIN G \ DOMAIN outages) \cap DOMAIN desk[d].now = {}
    OBVIOUS
  <2>4. ASSUME NEW d \in Busy' PROVE JobOK(desk'[d], G)
    <3>1. d \in Busy
      BY <1>7
    <3>2. CASE d \in ds
      <4>1. JobOK([desk[d] EXCEPT !.shaken = TRUE], G)
        BY <2>1, <2>2, <2>3, <3>1, JobShaken
      <4>2. desk'[d] = [desk[d] EXCEPT !.shaken = TRUE]
        BY <1>7, <3>2
      <4> QED
        BY <4>1, <4>2, Zenon
    <3>3. CASE d \notin ds
      BY <1>2, <1>6, <1>7, <2>1, <2>2, <2>3, <3>1, <3>3, JobAcross
    <3> QED
      BY <3>2, <3>3
  <2>5. \A d \in Busy' : JobOK(desk[d], outages)'
    BY <1>1, <1>8, <2>4, SameJobs
  <2>6. \A i, j \in Busy' : i # j => DOMAIN desk'[i].now \cap DOMAIN desk'[j].now \subseteq DOMAIN outages'
    BY <1>1, <1>4, <1>7 DEF JobsOK
  <2> QED
    BY <2>5, <2>6 DEF JobsOK
<1> QED
  BY <1>9, <1>10, <1>11, <1>12 DEF CostsInv

\* A new failure is a row, bare and without a sum.
LEMMA NewType ==
  ASSUME NEW ticket \in BOOLEAN, NEW system \in Estate \cup {NONE}, NEW name \in Estate, NEW at \in Moments,
         NEW resolved \in Moments \cup {NONE}
  PROVE  /\ New(ticket, system, name, at, resolved) \in OutageRow
         /\ Bare(New(ticket, system, name, at, resolved))
         /\ New(ticket, system, name, at, resolved).bill = NONE
<1> DEFINE row == New(ticket, system, name, at, resolved)
           labor == [l \in SupportLines |-> NONE]
<1>1. labor \in Labor /\ \A l \in SupportLines : labor[l] = NONE
  BY DEF Labor
<1> HIDE DEF labor
<1>2. row = [ticket |-> ticket, system |-> system, name |-> name, at |-> at, resolved |-> resolved,
             type |-> "DOWNTIME", inputs |-> NONE, minutes |-> NONE, k |-> NONE, labor |-> labor, vendor |-> {},
             counts |-> NONE, bill |-> NONE]
  BY DEF New, labor
<1>3. row \in OutageRow
  BY <1>1, <1>2 DEF OutageRow, Types
<1>4. row.type = "DOWNTIME" /\ row.vendor = {} /\ row.bill = NONE /\ row.labor = labor
  BY <1>2
<1> HIDE DEF row
<1>5. Bare(row)
  BY <1>1, <1>4 DEF Bare, Worked
<1> QED
  BY <1>3, <1>4, <1>5 DEF row

\* A row whose moments are corrected.
Corrected(row, at, resolved) == [row EXCEPT !.at = at, !.resolved = resolved]

\* A corrected failure is a row with the sum it had.
LEMMA CorrectedType ==
  ASSUME NEW row \in OutageRow, NEW at \in Moments, NEW resolved \in Moments \cup {NONE}
  PROVE  /\ Corrected(row, at, resolved) \in OutageRow /\ Corrected(row, at, resolved).bill = row.bill
         /\ Corrected(row, at, resolved).type = row.type /\ Corrected(row, at, resolved).vendor = row.vendor
         /\ Corrected(row, at, resolved).labor = row.labor
<1> DEFINE y == [row EXCEPT !.at = at]
           x == [y EXCEPT !.resolved = resolved]
<1>1. y \in OutageRow /\ y.bill = row.bill /\ y.type = row.type /\ y.vendor = row.vendor /\ y.labor = row.labor
  BY DEF OutageRow
<1> HIDE DEF y
<1>2. x \in OutageRow /\ x.bill = row.bill /\ x.type = row.type /\ x.vendor = row.vendor /\ x.labor = row.labor
  BY <1>1 DEF OutageRow
<1> QED
  BY <1>2 DEF x, y, Corrected

\* A failure is entered.
LEMMA EnterKeeps ==
  ASSUME CostsInv, NEW f \in Outages, NEW report \in Reports, EnterOutage(f, report)
  PROVE  CostsInv'
<1> DEFINE row == New(FALSE, report.system, report.name, report.at, report.resolved)
           R == [g \in {f} |-> row]
           G == With(outages, R)
<1>1. /\ report.system \in Estate \cup {NONE} /\ report.name \in Estate /\ report.at \in Moments
      /\ report.resolved \in Moments \cup {NONE}
  BY FailureCostsAssumption DEF Report
<1>2. row \in OutageRow /\ Bare(row) /\ row.bill = NONE
  BY <1>1, NewType
<1>3. f \notin DOMAIN outages /\ (\A d \in Busy : f \notin DOMAIN desk[d].now) /\ RowsBecome(G) /\ costEdits' = costEdits
  BY DEF EnterOutage
<1> HIDE DEF row
<1>4. OutageRows(R) /\ DOMAIN R = {f} /\ R[f] = row
  BY <1>2 DEF OutageRows
<1>5. OutageRows(outages) /\ costEdits \in 0 .. MaxCostEdits
  BY DEF CostsInv, FailureCostsTypeOK
<1> HIDE DEF R
<1>6. /\ OutageRows(G) /\ DOMAIN G = DOMAIN outages \cup {f} /\ G[f] = row
      /\ \A g \in DOMAIN outages : G[g] = outages[g]
  <2>1. /\ OutageRows(G) /\ DOMAIN G = DOMAIN outages \cup DOMAIN R
        /\ \A g \in DOMAIN R : G[g] = R[g]
        /\ \A g \in DOMAIN outages \ DOMAIN R : G[g] = outages[g]
    BY <1>4, <1>5, WithRows
  <2> HIDE DEF G
  <2> QED
    BY <1>3, <1>4, <2>1
<1> HIDE DEF G
<1>7. \A g \in DOMAIN G : G[g].bill = NONE => Bare(G[g])
  BY <1>2, <1>6 DEF CostsInv, UncostedIsBare, Costed, Bare
<1> QED
  BY <1>2, <1>3, <1>5, <1>6, <1>7, RowsMove

\* The dates of a failure are corrected.
LEMMA CorrectKeeps ==
  ASSUME CostsInv, NEW f \in Outages, NEW at \in Moments, NEW resolved \in Moments \cup {NONE},
         Correct(f, at, resolved)
  PROVE  CostsInv'
<1> DEFINE row == Corrected(outages[f], at, resolved)
           G == [outages EXCEPT ![f] = row]
<1>1. f \in DOMAIN outages /\ RowsBecome(G) /\ EditCosts
  BY DEF Correct, Corrected
<1>2. OutageRows(outages) /\ costEdits \in 0 .. MaxCostEdits
  BY DEF CostsInv, FailureCostsTypeOK
<1>3. outages[f] \in OutageRow
  BY <1>1, <1>2 DEF OutageRows
<1>4. /\ row \in OutageRow /\ row.bill = outages[f].bill /\ row.type = outages[f].type
      /\ row.vendor = outages[f].vendor /\ row.labor = outages[f].labor
  BY <1>3, CorrectedType
<1> HIDE DEF row
<1>5. /\ OutageRows(G) /\ DOMAIN G = DOMAIN outages /\ G[f] = row
      /\ \A g \in DOMAIN outages \ {f} : G[g] = outages[g]
  BY <1>1, <1>2, <1>4 DEF OutageRows
<1> HIDE DEF G
<1>6. \A g \in DOMAIN G : G[g].bill = NONE => Bare(G[g])
  BY <1>4, <1>5 DEF CostsInv, UncostedIsBare, Costed, Bare, Worked
<1>7. costEdits' \in 0 .. MaxCostEdits
  BY <1>1, <1>2, FailureCostsAssumption DEF EditCosts
<1>8. \A g \in DOMAIN outages : G[g].bill = outages[g].bill
  BY <1>4, <1>5
<1> QED
  BY <1>1, <1>5, <1>6, <1>7, <1>8, RowsMove

-----------------------------------------------------------------------------
\* A request computes sums that are current beside what it will write.
LEMMA ComputeKeeps ==
  ASSUME CostsInv, NEW d \in Desks, NEW now, OutageRows(now), Compute(d, now),
         \A f \in DOMAIN now : now[f].bill # NONE /\ Current(With(outages, now), f),
         \A i \in Busy : DOMAIN now \cap DOMAIN desk[i].now \subseteq DOMAIN outages
  PROVE  CostsInv'
<1> DEFINE was == [f \in DOMAIN now \cap DOMAIN outages |-> outages[f]]
           job == [was |-> was, now |-> now, shaken |-> FALSE]
<1>1. /\ desk[d] = NONE /\ desk' = [desk EXCEPT ![d] = job] /\ EditCosts
      /\ UNCHANGED <<outages, tariffs, cards, services, threshold, doubtful>>
  BY DEF Compute
<1>2. OutageRows(was) /\ DOMAIN was = DOMAIN now \cap DOMAIN outages /\ \A f \in DOMAIN was : was[f] = outages[f]
  BY DEF CostsInv, FailureCostsTypeOK, OutageRows
<1> HIDE DEF was
<1>3. CostJob(job) /\ job.was = was /\ job.now = now /\ job.shaken = FALSE
  BY <1>2 DEF CostJob
<1> HIDE DEF job
<1>4. JobOK(job, outages)
  BY <1>2, <1>3 DEF JobOK
<1>5. FailureCostsTypeOK /\ JobsOK
  BY DEF CostsInv
<1>6. DOMAIN desk = Desks /\ \A i \in Desks \ {d} : desk'[i] = desk[i]
  BY <1>1, <1>5 DEF FailureCostsTypeOK
<1>7. desk'[d] = job /\ desk' = [i \in Desks |-> desk'[i]]
  BY <1>1, <1>6
<1>8. Busy' \subseteq Busy \cup {d} /\ d \notin Busy
  BY <1>1, <1>6 DEF Busy
<1>9. UNCHANGED Prices
  BY <1>1 DEF Prices
<1>10. FailureCostsTypeOK'
  <2>1. costEdits' \in 0 .. MaxCostEdits
    BY <1>1, <1>5, FailureCostsAssumption DEF EditCosts, FailureCostsTypeOK
  <2>2. \A i \in Desks : desk'[i] # NONE => CostJob(desk[i])'
    BY <1>3, <1>5, <1>6, <1>7 DEF FailureCostsTypeOK, CostJob, OutageRows
  <2>3. OutageRows(outages)'
    BY <1>1, <1>5 DEF FailureCostsTypeOK, OutageRows
  <2> QED
    BY <1>1, <1>5, <1>7, <2>1, <2>2, <2>3 DEF FailureCostsTypeOK
<1>11. UncostedIsBare'
  BY <1>1 DEF CostsInv, UncostedIsBare, Costed, Worked
<1>12. KeptIsCurrent'
  BY <1>1, <1>9, SamePrices DEF CostsInv, KeptIsCurrent, Costed
<1>13. JobsOK'
  <2>1. \A i \in Busy' : JobOK(desk'[i], outages)
    BY <1>4, <1>5, <1>6, <1>7, <1>8 DEF JobsOK, Busy
  <2>2. \A i \in Busy' : JobOK(desk[i], outages)'
    BY <1>1, <1>9, <2>1, SameJobs
  <2>3. ASSUME NEW i \in Busy', NEW j \in Busy', i # j
        PROVE  DOMAIN desk'[i].now \cap DOMAIN desk'[j].now \subseteq DOMAIN outages
    <3>1. (i = d /\ j \in Busy \ {d}) \/ (j = d /\ i \in Busy \ {d}) \/ (i \in Busy \ {d} /\ j \in Busy \ {d})
      BY <1>8, <2>3
    <3>2. \A m \in Busy \ {d} : desk'[m] = desk[m]
      BY <1>6 DEF Busy
    <3> QED
      BY <1>3, <1>5, <1>7, <3>1, <3>2, <2>3 DEF JobsOK
  <2> QED
    BY <1>1, <2>2, <2>3 DEF JobsOK
<1> QED
  BY <1>10, <1>11, <1>12, <1>13 DEF CostsInv

-----------------------------------------------------------------------------
\* A validated edit of a row makes a row.
LEMMA PatchedType ==
  ASSUME NEW row \in OutageRow, NEW form \in CostForms
  PROVE  Patched(row, form) \in OutageRow
<1>1. Valid(form)
  BY FailureCostsAssumption
<1>2. "labor" \in DOMAIN form => With(row.labor, form.labor) \in Labor
  <2> SUFFICES ASSUME "labor" \in DOMAIN form PROVE With(row.labor, form.labor) \in Labor
    OBVIOUS
  <2>1. DOMAIN form.labor \subseteq SupportLines /\ form.labor \in [DOMAIN form.labor -> Nat \cup {NONE}]
    BY <1>1 DEF Valid
  <2>2. row.labor \in [SupportLines -> Nat \cup {NONE}]
    BY RowTyped DEF Labor
  <2> QED
    BY <2>1, <2>2 DEF With, Labor
<1> DEFINE labor == With(row.labor, form.labor)
<1>3. Patched(row, form) =
        [c \in DOMAIN row |-> IF c \notin DOMAIN form THEN row[c] ELSE IF c = "labor" THEN labor ELSE form[c]]
  BY DEF Patched
<1>4. "labor" \in DOMAIN form => labor \in Labor
  BY <1>2
<1>5. /\ DOMAIN form \subseteq {"type", "inputs", "minutes", "k", "labor", "vendor"}
      /\ "type" \in DOMAIN form => form["type"] \in Types
      /\ "inputs" \in DOMAIN form => form["inputs"] \in Inputs \cup {NONE}
      /\ "minutes" \in DOMAIN form => form["minutes"] \in Int \cup {NONE}
      /\ "k" \in DOMAIN form => form["k"] \in 0 .. PARTS \cup {NONE}
      /\ "vendor" \in DOMAIN form => form["vendor"] \in SUBSET SupportLines
  BY <1>1 DEF Valid
<1> HIDE DEF labor
<1> QED
  BY <1>3, <1>4, <1>5 DEF OutageRow

\* So does taking the inputs of a degradation away.
LEMMA PlainType ==
  ASSUME NEW row \in OutageRow
  PROVE  Plain(row) \in OutageRow
BY DEF Plain, OutageRow

\* And what an export says of a row.
LEMMA ReportedType ==
  ASSUME NEW row \in OutageRow, NEW x \in ExportLine
  PROVE  Reported(row, x) \in OutageRow
<1>1. /\ x.system \in Estate \cup {NONE} /\ x.name \in Estate /\ x.at \in Moments
      /\ x.resolved \in Moments \cup {NONE} /\ x.labor \in Labor \cup {NONE}
  BY DEF ExportLine
<1> DEFINE m == IF x.resolved = NONE THEN row.minutes ELSE x.resolved - x.at
           l == IF x.labor = NONE THEN row.labor ELSE x.labor
<1>2. m \in Int \cup {NONE} /\ l \in Labor
  <2>1. \A t \in Moments : t \in Int
    BY FailureCostsAssumption
  <2>2. row.minutes \in Int \cup {NONE} /\ row.labor \in Labor
    BY RowTyped
  <2>3. x.resolved # NONE => x.resolved - x.at \in Int
    <3>1. x.at \in Moments /\ (x.resolved # NONE => x.resolved \in Moments)
      BY <1>1
    <3>2. \A a, b \in Int : a - b \in Int
      OBVIOUS
    <3> QED
      BY <2>1, <3>1, <3>2
  <2> QED
    BY <1>1, <2>2, <2>3
<1> HIDE DEF m, l
<1> DEFINE y1 == [row EXCEPT !.system = x.system]
           y2 == [y1 EXCEPT !.name = x.name]
           y3 == [y2 EXCEPT !.at = x.at]
           y4 == [y3 EXCEPT !.resolved = x.resolved]
           y5 == [y4 EXCEPT !.minutes = m]
           y6 == [y5 EXCEPT !.labor = l]
<1>3. y1 \in OutageRow
  BY <1>1 DEF OutageRow
<1> HIDE DEF y1
<1>4. y2 \in OutageRow
  BY <1>1, <1>3 DEF OutageRow
<1> HIDE DEF y2
<1>5. y3 \in OutageRow
  BY <1>1, <1>4 DEF OutageRow
<1> HIDE DEF y3
<1>6. y4 \in OutageRow
  BY <1>1, <1>5 DEF OutageRow
<1> HIDE DEF y4
<1>7. y5 \in OutageRow
  BY <1>2, <1>6 DEF OutageRow
<1> HIDE DEF y5
<1>8. y6 \in OutageRow
  BY <1>2, <1>7 DEF OutageRow
<1> QED
  BY <1>8 DEF Reported, m, l, y1, y2, y3, y4, y5, y6

\* A row that is computed differs from what it was in nothing the hours of others depend on.
LEMMA RecomputedAlike ==
  ASSUME NEW F, OutageRows(F), NEW f \in DOMAIN F, NEW row \in Recomputed(F, f),
         tariffs \in SUBSET Tariffs, services \in SUBSET Services, cards \in [BusinessProcesses -> Card],
         threshold \in Thresholds
  PROVE  Alike(F[f], row)
<1> DEFINE key == Keyed(F[f])
           n == CountsAsDowntime(key)
           K == [F EXCEPT ![f] = key]
<1>1. PICK b \in Bills(K, f) : row = Summed(key, n, b)
  BY RecomputedType
<1>2. F[f] \in OutageRow /\ key \in OutageRow
  BY KeyedType DEF OutageRows
<1>3. n \in BOOLEAN \cup {NONE}
  BY <1>2, CountsType
<1>4. OutageRows(K) /\ DOMAIN K = DOMAIN F /\ K[f] = key
  BY <1>2 DEF OutageRows
<1>5. b \in Bill
  <2> DEFINE used == [l \in SupportLines |-> UsedBefore(K, f, l)]
  <2> HIDE DEF key, K
  <2>1. used \in [SupportLines -> Nat]
    BY <1>4, UsedBeforeType
  <2>2. b \in BillsAfter(key, used)
    BY <1>1, <1>4 DEF Bills
  <2> HIDE DEF used
  <2> QED
    BY <1>2, <2>1, <2>2, BillsAfterType
<1>6. Alike(F[f], key)
  BY <1>2, KeyedAlike
<1> HIDE DEF key, n, K
<1>7. Alike(key, row)
  BY <1>1, <1>2, <1>3, <1>5, SummedAlike DEF SameInputs
<1> QED
  BY <1>6, <1>7 DEF Alike

\* What the prices are of, and the row of a failure.
LEMMA PricesTyped ==
  ASSUME CostsInv
  PROVE  /\ tariffs \in SUBSET Tariffs /\ services \in SUBSET Services /\ cards \in [BusinessProcesses -> Card]
         /\ threshold \in Thresholds /\ OutageRows(outages)
BY DEF CostsInv, FailureCostsTypeOK

\* The economics of a failure are saved and computed.
LEMMA SaveEconomicsKeeps ==
  ASSUME CostsInv, NEW d \in Desks, NEW f \in Outages, NEW form \in CostForms, SaveEconomics(d, f, form)
  PROVE  CostsInv'
<1> DEFINE edited == Plain(Patched(outages[f], form))
           F == [outages EXCEPT ![f] = edited]
<1>1. f \in DOMAIN outages
  BY DEF SaveEconomics
<1>2. PICK row \in Recomputed(F, f) : Compute(d, [g \in {f} |-> row])
  BY DEF SaveEconomics
<1>3. OutageRows(outages)
  BY PricesTyped
<1>4. edited \in OutageRow
  BY <1>1, <1>3, PatchedType, PlainType DEF OutageRows
<1> HIDE DEF edited
<1>5. /\ OutageRows(F) /\ DOMAIN F = DOMAIN outages
      /\ \A g \in DOMAIN outages \ {f} : F[g] = outages[g]
  BY <1>1, <1>3, <1>4 DEF OutageRows
<1> HIDE DEF F
<1> DEFINE now == [g \in {f} |-> row]
           G == With(outages, now)
<1>6. row \in OutageRow /\ row.bill # NONE
  BY <1>1, <1>5, PricesTyped, RecomputedType
<1>7. OutageRows(now) /\ DOMAIN now = {f} /\ now[f] = row
  BY <1>6 DEF OutageRows
<1>8. Compute(d, now)
  BY <1>2
<1> HIDE DEF now
<1>9. OutageRows(G) /\ DOMAIN G = DOMAIN outages /\ G[f] = row /\ \A g \in DOMAIN outages \ {f} : G[g] = outages[g]
  <2>1. /\ OutageRows(G) /\ DOMAIN G = DOMAIN outages \cup DOMAIN now
        /\ \A g \in DOMAIN now : G[g] = now[g]
        /\ \A g \in DOMAIN outages \ DOMAIN now : G[g] = outages[g]
    BY <1>3, <1>7, WithRows
  <2> HIDE DEF G
  <2> QED
    BY <1>1, <1>7, <2>1
<1>10. Current(G, f)
  <2> HIDE DEF G
  <2>1. \A g \in DOMAIN F \ {f} : Alike(F[g], G[g])
    BY <1>5, <1>9 DEF Alike
  <2>2. G[f] \in Recomputed(F, f)
    BY <1>9
  <2> QED
    BY <1>1, <1>5, <1>9, <2>1, <2>2, PricesTyped, RecomputedIsCurrent
<1>11. \A i \in Busy : DOMAIN now \cap DOMAIN desk[i].now \subseteq DOMAIN outages
  BY <1>1, <1>7
<1>12. \A g \in DOMAIN now : now[g].bill # NONE /\ Current(With(outages, now), g)
  BY <1>6, <1>7, <1>10
<1> QED
  BY <1>7, <1>8, <1>11, <1>12, ComputeKeeps

\* An export is imported: its rows are computed beside each other.
LEMMA ImportExportKeeps ==
  ASSUME CostsInv, NEW d \in Desks, NEW S \in SUBSET Outages, NEW said \in [S -> ExportLines],
         ImportExport(d, said)
  PROVE  CostsInv'
<1> DEFINE row(f) == IF f \in DOMAIN outages THEN outages[f]
                     ELSE New(TRUE, said[f].system, said[f].name, said[f].at, said[f].resolved)
           R == [f \in DOMAIN said |-> Reported(row(f), said[f])]
           F == With(outages, R)
           rows == UNION {Recomputed(F, f) : f \in DOMAIN said}
<1>1. OutageRows(outages)
  BY PricesTyped
<1>2. DOMAIN said = S
  OBVIOUS
<1>3. PICK now \in [DOMAIN said -> rows] :
        (\A f \in DOMAIN said : now[f] \in Recomputed(F, f)) /\ Compute(d, now)
  BY DEF ImportExport
<1>4. \A i \in Busy : DOMAIN said \cap DOMAIN desk[i].now \subseteq DOMAIN outages
  BY DEF ImportExport
<1>5. ASSUME NEW f \in S PROVE row(f) \in OutageRow
  <2>1. said[f] \in ExportLine
    BY FailureCostsAssumption
  <2>2. f \in DOMAIN outages => outages[f] \in OutageRow
    BY <1>1 DEF OutageRows
  <2>3. New(TRUE, said[f].system, said[f].name, said[f].at, said[f].resolved) \in OutageRow
    BY <2>1, NewType DEF ExportLine
  <2> QED
    BY <2>2, <2>3
<1>6. ASSUME NEW f \in S PROVE Reported(row(f), said[f]) \in OutageRow
  <2>1. said[f] \in ExportLine
    BY FailureCostsAssumption
  <2> QED
    BY <1>5, <2>1, ReportedType
<1>7. OutageRows(R) /\ DOMAIN R = S
  <2> HIDE DEF row
  <2> QED
    BY <1>2, <1>6 DEF OutageRows
<1> HIDE DEF R
<1>8. OutageRows(F) /\ DOMAIN F = DOMAIN outages \cup S /\ \A g \in DOMAIN outages \ S : F[g] = outages[g]
  BY <1>1, <1>7, WithRows
<1> HIDE DEF F
<1>9. ASSUME NEW f \in S
      PROVE  now[f] \in Recomputed(F, f) /\ now[f] \in OutageRow /\ now[f].bill # NONE /\ Alike(F[f], now[f])
  <2>1. now[f] \in Recomputed(F, f) /\ f \in DOMAIN F
    BY <1>2, <1>3, <1>8
  <2> QED
    BY <1>8, <2>1, PricesTyped, RecomputedType, RecomputedAlike
<1>10. DOMAIN now = S /\ OutageRows(now)
  <2>1. now = [f \in S |-> now[f]] /\ DOMAIN now = S
    BY <1>2, <1>3
  <2> QED
    BY <1>9, <2>1 DEF OutageRows
<1> DEFINE G == With(outages, now)
<1>11. /\ OutageRows(G) /\ DOMAIN G = DOMAIN outages \cup S /\ (\A g \in S : G[g] = now[g])
       /\ \A g \in DOMAIN outages \ S : G[g] = outages[g]
  BY <1>1, <1>10, WithRows
<1>12. ASSUME NEW f \in S PROVE Current(G, f)
  <2> HIDE DEF G
  <2>1. \A g \in DOMAIN F : Alike(F[g], G[g])
    BY <1>8, <1>9, <1>11 DEF Alike
  <2>2. G[f] \in Recomputed(F, f) /\ f \in DOMAIN F /\ f \in DOMAIN G /\ DOMAIN F = DOMAIN G
    BY <1>8, <1>9, <1>11
  <2> QED
    BY <1>8, <1>11, <2>1, <2>2, PricesTyped, RecomputedIsCurrent
<1>13. \A f \in DOMAIN now : now[f].bill # NONE /\ Current(With(outages, now), f)
  BY <1>9, <1>10, <1>12
<1>14. \A i \in Busy : DOMAIN now \cap DOMAIN desk[i].now \subseteq DOMAIN outages
  BY <1>2, <1>4, <1>10
<1> QED
  BY <1>3, <1>10, <1>13, <1>14, ComputeKeeps

\* A sum put into a row.
Billing(row, b) == [row EXCEPT !.bill = b]

\* A sum put on a row leaves the rest of it.
LEMMA BillingType ==
  ASSUME NEW row \in OutageRow, NEW b \in Bill
  PROVE  Billing(row, b) \in OutageRow /\ Billing(row, b).bill = b
BY DEF Billing, OutageRow

\* A risk computes failures nobody has: being bare, they ask for no package.
LEMMA CountForRiskKeeps ==
  ASSUME CostsInv, NEW d \in Desks, NEW fs \in SUBSET Outages, CountForRisk(d, fs)
  PROVE  CostsInv'
<1> DEFINE none == [l \in SupportLines |-> 0]
           bills(f) == BillsAfter(outages[f], none)
<1>1. fs \subseteq DOMAIN outages \ Costed
  BY DEF CountForRisk
<1>2. PICK b \in [fs -> UNION {bills(f) : f \in fs}] :
        (\A f \in fs : b[f] \in bills(f)) /\ Compute(d, [f \in fs |-> Billing(outages[f], b[f])])
  BY DEF CountForRisk, Billing
<1> DEFINE now == [f \in fs |-> Billing(outages[f], b[f])]
           G == With(outages, now)
<1>3. OutageRows(outages)
  BY PricesTyped
<1>4. none \in [SupportLines -> Nat]
  OBVIOUS
<1>5. ASSUME NEW f \in fs
      PROVE  /\ outages[f] \in OutageRow /\ outages[f].type = "DOWNTIME" /\ outages[f].vendor = {}
             /\ b[f] \in BillsAfter(outages[f], none) /\ b[f] \in Bill /\ b[f] # NONE
  <2>1. outages[f] \in OutageRow /\ outages[f].type = "DOWNTIME" /\ outages[f].vendor = {}
    BY <1>1, <1>3 DEF CostsInv, UncostedIsBare, OutageRows
  <2>2. b[f] \in BillsAfter(outages[f], none)
    BY <1>2
  <2> HIDE DEF none
  <2> QED
    BY <1>4, <2>1, <2>2, PricesTyped, BillsAfterType
<1> HIDE DEF bills
<1>6. ASSUME NEW f \in fs PROVE now[f] = Billing(outages[f], b[f]) /\ now[f] \in OutageRow /\ now[f].bill # NONE
  BY <1>5, BillingType
<1>7. OutageRows(now) /\ DOMAIN now = fs
  BY <1>6 DEF OutageRows
<1>8. Compute(d, now)
  BY <1>2
<1> HIDE DEF now
<1>9. OutageRows(G) /\ DOMAIN G = DOMAIN outages \cup fs /\ \A g \in fs : G[g] = now[g]
  BY <1>3, <1>7, WithRows
<1>10. ASSUME NEW f \in fs PROVE Current(G, f)
  <2> HIDE DEF G
  <2>1. G[f] = [outages[f] EXCEPT !.bill = b[f]] /\ f \in DOMAIN G
    BY <1>6, <1>9, Zenon DEF Billing
  <2> QED
    BY <1>5, <1>9, <2>1, BareIsCurrent DEF none
<1>11. \A f \in DOMAIN now : now[f].bill # NONE /\ Current(With(outages, now), f)
  BY <1>6, <1>7, <1>10
<1>12. \A i \in Busy : DOMAIN now \cap DOMAIN desk[i].now \subseteq DOMAIN outages
  BY <1>1, <1>7
<1> QED
  BY <1>7, <1>8, <1>11, <1>12, ComputeKeeps

-----------------------------------------------------------------------------
\* What a commit makes of a row is a row; of the row that was read, what was computed.
LEMMA FlushOutage ==
  ASSUME NEW row \in OutageRow, NEW was \in OutageRow, NEW new \in OutageRow
  PROVE  /\ Flush(row, was, new) \in OutageRow
         /\ Flush(row, was, new).bill = IF new.bill = was.bill THEN row.bill ELSE new.bill
         /\ Flush(row, row, new) = new
<1>1. Flush(row, was, new) \in OutageRow
  BY DEF Flush, OutageRow
<1>2. Flush(row, was, new).bill = IF new.bill = was.bill THEN row.bill ELSE new.bill
  BY DEF Flush, OutageRow
<1>3. DOMAIN row = DOMAIN new /\ new = [c \in DOMAIN new |-> new[c]]
  BY DEF OutageRow
<1>4. Flush(row, row, new) = [c \in DOMAIN new |-> new[c]]
  BY <1>3 DEF Flush
<1> QED
  BY <1>1, <1>2, <1>3, <1>4

\* So it is with the three columns of hours.
LEMMA FlushLabor ==
  ASSUME NEW row \in Labor, NEW was \in Labor, NEW new \in Labor
  PROVE  Flush(row, was, new) \in Labor /\ Flush(row, row, new) = new
BY DEF Flush, Labor

\* And with both together.
LEMMA MergedType ==
  ASSUME NEW row \in OutageRow, NEW was \in OutageRow, NEW new \in OutageRow
  PROVE  /\ Merged(row, was, new) \in OutageRow
         /\ Merged(row, was, new).bill = IF new.bill = was.bill THEN row.bill ELSE new.bill
         /\ Merged(row, row, new) = new
<1>1. row.labor \in Labor /\ was.labor \in Labor /\ new.labor \in Labor
  BY RowTyped
<1>2. \A x \in OutageRow, l \in Labor :
        [x EXCEPT !.labor = l] \in OutageRow /\ [x EXCEPT !.labor = l].bill = x.bill
  BY DEF OutageRow
<1>3. [new EXCEPT !.labor = new.labor] = new
  BY DEF OutageRow
<1>4. Flush(row.labor, was.labor, new.labor) \in Labor /\ Flush(row.labor, row.labor, new.labor) = new.labor
  BY <1>1, FlushLabor
<1>5. /\ Flush(row, was, new) \in OutageRow /\ Flush(row, row, new) = new
      /\ Flush(row, was, new).bill = IF new.bill = was.bill THEN row.bill ELSE new.bill
  BY FlushOutage
<1>6. Merged(row, row, new) = new
  BY <1>3, <1>4, <1>5 DEF Merged
<1>7. Merged(row, was, new) = [Flush(row, was, new) EXCEPT !.labor = Flush(row.labor, was.labor, new.labor)]
  BY DEF Merged
<1> DEFINE x == Flush(row, was, new)
           l == Flush(row.labor, was.labor, new.labor)
<1>8. [x EXCEPT !.labor = l] \in OutageRow /\ [x EXCEPT !.labor = l].bill = x.bill
  <2> HIDE DEF x, l
  <2> QED
    BY <1>2, <1>4, <1>5 DEF x, l
<1> QED
  BY <1>5, <1>6, <1>7, <1>8

\* A request commits: beside another's rows its own are as it computed them, or it says they are not.
LEMMA CommitCostsKeeps ==
  ASSUME CostsInv, NEW d \in Desks, CommitCosts(d)
  PROVE  CostsInv'
<1> DEFINE job == desk[d]
           own == DOMAIN job.now
           R == [f \in own |-> IF f \in DOMAIN outages THEN Merged(outages[f], job.was[f], job.now[f]) ELSE job.now[f]]
           G == With(outages, R)
           ds == DesksShakenBy(G)
           fs == ShakenBy(G)
<1>1. /\ desk[d] # NONE /\ outages' = G
      /\ doubtful' = ((doubtful \cup fs) \ own) \cup (IF job.shaken THEN own ELSE {})
      /\ desk' = [i \in Desks |-> IF i = d THEN NONE
                                  ELSE IF i \in ds THEN [desk[i] EXCEPT !.shaken = TRUE]
                                  ELSE desk[i]]
      /\ UNCHANGED <<tariffs, cards, services, threshold, costEdits>>
  BY DEF CommitCosts
<1>2. OutageRows(outages) /\ doubtful \subseteq DOMAIN outages /\ FailureCostsTypeOK /\ JobsOK /\ KeptIsCurrent
  BY DEF CostsInv, FailureCostsTypeOK
<1>3. d \in Busy /\ CostJob(job) /\ JobOK(job, outages)
  BY <1>1, <1>2 DEF Busy, FailureCostsTypeOK, JobsOK
<1>4. OutageRows(job.was) /\ OutageRows(job.now) /\ DOMAIN job.was = own \cap DOMAIN outages
  BY <1>3 DEF CostJob, JobOK
<1>5. ASSUME NEW f \in own
      PROVE  R[f] \in OutageRow /\ R[f].bill # NONE
  <2>1. job.now[f] \in OutageRow /\ job.now[f].bill # NONE
    BY <1>3, <1>4 DEF OutageRows, JobOK
  <2>2. CASE f \in DOMAIN outages
    <3>1. outages[f] \in OutageRow /\ job.was[f] \in OutageRow
      BY <1>2, <1>4, <2>2 DEF OutageRows
    <3>2. job.was[f].bill # NONE => outages[f].bill # NONE
      BY <1>3, <1>4, <2>2 DEF JobOK
    <3>3. R[f] = Merged(outages[f], job.was[f], job.now[f])
      BY <2>2
    <3>4. /\ Merged(outages[f], job.was[f], job.now[f]) \in OutageRow
          /\ Merged(outages[f], job.was[f], job.now[f]).bill =
               IF job.now[f].bill = job.was[f].bill THEN outages[f].bill ELSE job.now[f].bill
      <4> DEFINE a == outages[f]
                 b == job.was[f]
                 c == job.now[f]
      <4>1. a \in OutageRow /\ b \in OutageRow /\ c \in OutageRow
        BY <2>1, <3>1
      <4> HIDE DEF a, b, c
      <4>2. Merged(a, b, c) \in OutageRow /\ Merged(a, b, c).bill = IF c.bill = b.bill THEN a.bill ELSE c.bill
        BY <4>1, MergedType
      <4> QED
        BY <4>2 DEF a, b, c
    <3> QED
      BY <2>1, <3>2, <3>3, <3>4
  <2>3. CASE f \notin DOMAIN outages
    BY <2>1, <2>3
  <2> QED
    BY <2>2, <2>3
<1>6. ASSUME ~ job.shaken, NEW f \in own
      PROVE  R[f] = job.now[f]
  <2>1. CASE f \in DOMAIN outages
    <3>1. outages[f] = job.was[f] /\ outages[f] \in OutageRow /\ job.now[f] \in OutageRow
      BY <1>2, <1>3, <1>4, <1>6, <2>1 DEF OutageRows, JobOK
    <3>2. Merged(outages[f], outages[f], job.now[f]) = job.now[f]
      BY <3>1, MergedType
    <3> QED
      BY <2>1, <3>1, <3>2
  <2>2. CASE f \notin DOMAIN outages
    BY <2>2
  <2> QED
    BY <2>1, <2>2
<1>7. OutageRows(R) /\ DOMAIN R = own
  <2>1. DOMAIN R = own /\ R = [f \in own |-> R[f]]
    OBVIOUS
  <2>2. own \subseteq Outages
    BY <1>4 DEF OutageRows
  <2> HIDE DEF R
  <2> QED
    BY <1>5, <2>1, <2>2 DEF OutageRows
<1>8. ASSUME ~ job.shaken PROVE G = With(outages, job.now)
  <2>1. DOMAIN R = DOMAIN job.now /\ \A f \in DOMAIN R : R[f] = job.now[f]
    BY <1>6, <1>7, <1>8
  <2> HIDE DEF R
  <2> QED
    BY <2>1 DEF With
<1> HIDE DEF R
<1>9. /\ OutageRows(G) /\ DOMAIN G = DOMAIN outages \cup own /\ (\A g \in own : G[g] = R[g])
      /\ \A g \in DOMAIN outages \ own : G[g] = outages[g]
  <2> HIDE DEF job
  <2>1. /\ OutageRows(G) /\ DOMAIN G = DOMAIN outages \cup DOMAIN R
        /\ \A g \in DOMAIN R : G[g] = R[g]
        /\ \A g \in DOMAIN outages \ DOMAIN R : G[g] = outages[g]
    BY <1>2, <1>7, WithRows
  <2> HIDE DEF G, own
  <2> QED
    BY <1>7, <2>1
<1>10. fs \subseteq Costed /\ ds \subseteq Busy
  BY DEF ShakenBy, DesksShakenBy
<1>11. ASSUME NEW f \in Costed \ fs PROVE ~ Shaken(outages, G, f, outages[f])
  BY <1>11 DEF ShakenBy
<1>12. ASSUME NEW i \in Busy \ ds, NEW f \in DOMAIN desk[i].now
       PROVE  ~ Shaken(outages, G, f, desk[i].now[f])
  BY <1>12 DEF DesksShakenBy
<1>13. \A f \in DOMAIN outages : outages[f].bill # NONE => G[f].bill # NONE
  <2> HIDE DEF G
  <2> QED
    BY <1>5, <1>9
<1>14. UNCHANGED Prices
  BY <1>1 DEF Prices
<1> HIDE DEF G, ds, fs
<1>15. \A i \in Busy : CostJob(desk[i]) /\ JobOK(desk[i], outages)
  BY <1>2 DEF JobsOK, FailureCostsTypeOK, Busy
<1>16. \A i \in Busy : CostJob([desk[i] EXCEPT !.shaken = TRUE]) /\ [desk[i] EXCEPT !.shaken = TRUE].now = desk[i].now
  BY <1>15, ShakenTyped
<1>17. /\ desk' = [i \in Desks |-> desk'[i]] /\ desk'[d] = NONE
       /\ \A i \in Desks \ (ds \cup {d}) : desk'[i] = desk[i]
       /\ \A i \in ds \ {d} : desk'[i] = [desk[i] EXCEPT !.shaken = TRUE]
  BY <1>1, <1>10 DEF Busy
<1>18. Busy' \subseteq Busy \ {d}
  BY <1>10, <1>17 DEF Busy
<1>19. \A i \in Busy \ {d} : desk'[i].now = desk[i].now /\ CostJob(desk'[i])
  BY <1>15, <1>16, <1>17 DEF Busy
<1>20. FailureCostsTypeOK'
  <2>1. doubtful' \subseteq DOMAIN outages'
    BY <1>1, <1>2, <1>9, <1>10 DEF Costed
  <2>2. OutageRows(outages)'
    BY <1>1, <1>9 DEF OutageRows
  <2>3. \A i \in Desks : desk'[i] # NONE => i \in Busy \ {d}
    BY <1>18 DEF Busy
  <2>4. \A i \in Desks : desk'[i] # NONE => CostJob(desk[i])'
    BY <1>19, <2>3 DEF CostJob, OutageRows
  <2> QED
    BY <1>1, <1>2, <1>17, <2>1, <2>2, <2>4 DEF FailureCostsTypeOK
<1>21. UncostedIsBare'
  <2> SUFFICES ASSUME NEW f \in (DOMAIN outages \ Costed)'
               PROVE  G[f].type = "DOWNTIME" /\ G[f].vendor = {} /\ Worked(G[f]) = {}
    BY <1>1 DEF UncostedIsBare, Worked
  <2>1. f \in DOMAIN G /\ G[f].bill = NONE
    BY <1>1 DEF Costed
  <2>2. f \notin own /\ f \in DOMAIN outages /\ G[f] = outages[f]
    BY <1>5, <1>9, <2>1
  <2>3. f \notin Costed
    BY <2>1, <2>2 DEF Costed
  <2> QED
    BY <2>2, <2>3 DEF CostsInv, UncostedIsBare
<1>22. KeptIsCurrent'
  <2> SUFFICES ASSUME NEW f \in (Costed \ doubtful)' PROVE Current(outages, f)'
    BY DEF KeptIsCurrent
  <2>1. Current(G, f)
    <3>1. CASE f \in own
      <4>1. ~ job.shaken
        BY <1>1, <3>1
      <4>2. Current(With(outages, job.now), f)
        BY <1>3, <3>1, <4>1 DEF JobOK
      <4> QED
        BY <1>8, <4>1, <4>2
    <3>2. CASE f \notin own
      <4>1. f \in DOMAIN outages /\ G[f] = outages[f] /\ f \in Costed /\ f \notin doubtful /\ f \notin fs
        BY <1>1, <1>9, <3>2 DEF Costed
      <4>2. Current(outages, f)
        BY <1>2, <4>1 DEF KeptIsCurrent
      <4>3. \A g \in DOMAIN G \ {f} : ~ Stirs(outages, G, g, outages[f])
        BY <1>11, <4>1 DEF Shaken
      <4>4. DOMAIN outages \subseteq DOMAIN G
        BY <1>9
      <4> QED
        BY <1>2, <1>9, <4>1, <4>2, <4>3, <4>4, UnstirredIsCurrent
    <3> QED
      BY <3>1, <3>2
  <2> QED
    BY <1>1, <1>14, <2>1, SamePrices
<1>23. JobsOK'
  <2>1. DOMAIN outages \subseteq DOMAIN G
    BY <1>9
  <2>2. \A i \in Busy \ {d} : (DOMAIN G \ DOMAIN outages) \cap DOMAIN desk[i].now = {}
    BY <1>2, <1>3, <1>9 DEF JobsOK
  <2>3. ASSUME NEW i \in Busy' PROVE JobOK(desk'[i], G)
    <3>1. i \in Busy \ {d} /\ i \in Desks
      BY <1>18 DEF Busy
    <3>2. CASE i \in ds
      <4>1. JobOK([desk[i] EXCEPT !.shaken = TRUE], G)
        BY <1>13, <1>15, <2>1, <2>2, <3>1, JobShaken
      <4>2. desk'[i] = [desk[i] EXCEPT !.shaken = TRUE]
        BY <1>17, <3>1, <3>2
      <4> QED
        BY <4>1, <4>2, Zenon
    <3>3. CASE i \notin ds
      <4>1. desk'[i] = desk[i]
        BY <1>17, <3>1, <3>3
      <4>2. JobOK(desk[i], G)
        BY <1>2, <1>9, <1>12, <1>13, <1>15, <2>1, <2>2, <3>1, <3>3, JobAcross
      <4> QED
        BY <4>1, <4>2
    <3> QED
      BY <3>2, <3>3
  <2>4. \A i \in Busy' : JobOK(desk[i], outages)'
    BY <1>1, <1>14, <2>3, SameJobs
  <2>5. \A i, j \in Busy' : i # j => DOMAIN desk'[i].now \cap DOMAIN desk'[j].now \subseteq DOMAIN outages'
    BY <1>1, <1>2, <1>9, <1>18, <1>19 DEF JobsOK
  <2> QED
    BY <2>4, <2>5 DEF JobsOK
<1> QED
  BY <1>20, <1>21, <1>22, <1>23 DEF CostsInv

\* A request dies.
LEMMA GiveUpKeeps ==
  ASSUME CostsInv, NEW d \in Desks, GiveUp(d)
  PROVE  CostsInv'
<1>1. /\ desk' = [desk EXCEPT ![d] = NONE]
      /\ UNCHANGED <<outages, tariffs, cards, services, threshold, doubtful, costEdits>>
  BY DEF GiveUp
<1>2. FailureCostsTypeOK /\ JobsOK
  BY DEF CostsInv
<1>3. DOMAIN desk = Desks /\ desk'[d] = NONE /\ desk' = [i \in Desks |-> desk'[i]]
      /\ \A i \in Desks \ {d} : desk'[i] = desk[i]
  BY <1>1, <1>2 DEF FailureCostsTypeOK
<1>4. UNCHANGED Prices
  BY <1>1 DEF Prices
<1>5. Busy' \subseteq Busy /\ \A i \in Busy' : desk'[i] = desk[i]
  BY <1>3 DEF Busy
<1>6. FailureCostsTypeOK'
  <2>1. \A i \in Desks : desk'[i] # NONE => CostJob(desk[i])'
    BY <1>2, <1>3 DEF FailureCostsTypeOK, CostJob, OutageRows
  <2>2. OutageRows(outages)'
    BY <1>1, <1>2 DEF FailureCostsTypeOK, OutageRows
  <2> QED
    BY <1>1, <1>2, <1>3, <2>1, <2>2 DEF FailureCostsTypeOK
<1>7. UncostedIsBare' /\ KeptIsCurrent'
  BY <1>1, <1>4, SamePrices DEF CostsInv, UncostedIsBare, KeptIsCurrent, Costed, Worked
<1>8. JobsOK'
  <2>1. \A i \in Busy' : JobOK(desk'[i], outages)
    BY <1>2, <1>5 DEF JobsOK
  <2>2. \A i \in Busy' : JobOK(desk[i], outages)'
    BY <1>1, <1>4, <2>1, SameJobs
  <2> QED
    BY <1>1, <1>2, <1>5, <2>2 DEF JobsOK
<1> QED
  BY <1>6, <1>7, <1>8 DEF CostsInv

-----------------------------------------------------------------------------
(***************************************************************************)
(* A price changes, and every sum it is in is told of.                     *)
(***************************************************************************)
LEMMA PriceMoves ==
  ASSUME CostsInv, NEW Moved \in SUBSET OutageRow, outages' = outages, costEdits' \in 0 .. MaxCostEdits,
         tariffs' \in SUBSET Tariffs, cards' \in [BusinessProcesses -> Card], services' \in SUBSET Services,
         threshold' \in Thresholds,
         \A F : OutageRows(F) => \A f \in DOMAIN F : F[f] \notin Moved /\ Current(F, f) => Current(F, f)',
         Unsettle({f \in Costed : outages[f] \in Moved},
                  {d \in Busy : \E f \in DOMAIN desk[d].now : desk[d].now[f] \in Moved})
  PROVE  CostsInv'
<1> DEFINE fs == {f \in Costed : outages[f] \in Moved}
           ds == {d \in Busy : \E f \in DOMAIN desk[d].now : desk[d].now[f] \in Moved}
<1>1. Unsettle(fs, ds) /\ doubtful' = doubtful \cup fs
  BY DEF Unsettle
<1>2. fs \subseteq Costed /\ ds \in SUBSET Busy
  OBVIOUS
<1>3. \A f \in Costed \ fs : outages[f] \notin Moved
  OBVIOUS
<1>4. \A d \in Busy \ ds : \A f \in DOMAIN desk[d].now : desk[d].now[f] \notin Moved
  OBVIOUS
<1> HIDE DEF fs, ds
<1>5. FailureCostsTypeOK /\ JobsOK /\ KeptIsCurrent /\ OutageRows(outages) /\ doubtful \subseteq DOMAIN outages
  BY DEF CostsInv, FailureCostsTypeOK
<1>6. /\ desk' = [d \in Desks |-> desk'[d]]
      /\ \A d \in Desks : desk'[d] # NONE => CostJob(desk'[d])
      /\ Busy' \subseteq Busy
      /\ \A d \in Busy : desk'[d].now = desk[d].now
      /\ \A d \in ds : desk'[d] = [desk[d] EXCEPT !.shaken = TRUE]
      /\ \A d \in Busy \ ds : desk'[d] = desk[d]
  BY <1>1, <1>2, <1>5, DesksUnsettled
<1>7. FailureCostsTypeOK'
  <2>1. doubtful' \subseteq DOMAIN outages'
    BY <1>1, <1>2, <1>5 DEF Costed
  <2>2. OutageRows(outages)'
    BY <1>5 DEF OutageRows
  <2>3. \A d \in Desks : desk'[d] # NONE => CostJob(desk[d])'
    BY <1>6 DEF CostJob, OutageRows
  <2> QED
    BY <1>6, <2>1, <2>2, <2>3 DEF FailureCostsTypeOK
<1>8. UncostedIsBare'
  BY DEF CostsInv, UncostedIsBare, Costed, Worked
<1>9. KeptIsCurrent'
  <2> SUFFICES ASSUME NEW f \in (Costed \ doubtful)' PROVE Current(outages, f)'
    BY DEF KeptIsCurrent
  <2>1. f \in Costed /\ f \notin doubtful /\ f \notin fs /\ f \in DOMAIN outages
    BY <1>1 DEF Costed
  <2>2. Current(outages, f) /\ outages[f] \notin Moved
    BY <1>3, <1>5, <2>1 DEF KeptIsCurrent
  <2>3. \A F : F = outages => Current(F, f)'
    BY <1>5, <2>1, <2>2
  <2> QED
    BY <2>3
<1>10. JobsOK'
  <2>1. \A d \in Busy : CostJob(desk[d]) /\ JobOK(desk[d], outages)
    BY <1>5 DEF JobsOK, FailureCostsTypeOK, Busy
  <2>2. ASSUME NEW d \in Busy', NEW job, job = desk'[d], NEW F, F = outages PROVE JobOK(job, F)'
    <3>1. d \in Busy
      BY <1>6
    <3>2. CASE d \in ds
      <4>1. desk'[d] = [desk[d] EXCEPT !.shaken = TRUE]
        BY <1>6, <3>2
      <4>2. JobOK([desk[d] EXCEPT !.shaken = TRUE], outages)
        BY <2>1, <3>1, JobShaken
      <4>3. CostJob([desk[d] EXCEPT !.shaken = TRUE]) /\ CostJob(desk[d])
        BY <2>1, <3>1, ShakenTyped
      <4>4. JobOK(job, F)
        BY <2>2, <4>1, <4>2, Zenon
      <4>5. [desk[d] EXCEPT !.shaken = TRUE].shaken
        BY <4>3 DEF CostJob
      <4>6. job.shaken
        BY <2>2, <4>1, <4>5, Zenon
      <4> QED
        BY <4>4, <4>6 DEF JobOK
    <3>3. CASE d \notin ds
      <4>1. JobOK(job, F) /\ job = desk[d]
        BY <1>6, <2>1, <2>2, <3>1, <3>3
      <4>2. OutageRows(job.now) /\ OutageRows(F)
        BY <1>5, <2>1, <2>2, <3>1, <4>1 DEF CostJob
      <4>3. ASSUME NEW f \in DOMAIN job.now, ~ job.shaken
            PROVE  Current(With(F, job.now), f)'
        <5> DEFINE H == With(F, job.now)
        <5>1. OutageRows(H) /\ f \in DOMAIN H /\ H[f] = job.now[f]
          <6> DEFINE now == job.now
          <6>1. OutageRows(now) /\ f \in DOMAIN now
            BY <4>2, <4>3
          <6> HIDE DEF now
          <6>2. /\ OutageRows(With(F, now)) /\ DOMAIN With(F, now) = DOMAIN F \cup DOMAIN now
                /\ \A g \in DOMAIN now : With(F, now)[g] = now[g]
            BY <4>2, <6>1, WithRows
          <6>3. OutageRows(With(F, now)) /\ f \in DOMAIN With(F, now) /\ With(F, now)[f] = now[f]
            BY <6>1, <6>2
          <6> QED
            BY <6>3 DEF now
        <5>2. Current(H, f)
          BY <4>1, <4>3 DEF JobOK
        <5>3. H[f] \notin Moved
          BY <1>4, <3>1, <3>3, <4>1, <5>1
        <5> HIDE DEF H
        <5>4. Current(H, f)'
          BY <5>1, <5>2, <5>3
        <5> QED
          BY <5>4 DEF H
      <4> QED
        BY <4>1, <4>3 DEF JobOK
    <3> QED
      BY <3>2, <3>3
  <2>3. \A d \in Busy' : JobOK(desk[d], outages)'
    BY <2>2
  <2>4. \A i, j \in Busy' : i # j => DOMAIN desk'[i].now \cap DOMAIN desk'[j].now \subseteq DOMAIN outages'
    BY <1>5, <1>6 DEF JobsOK
  <2> QED
    BY <2>3, <2>4 DEF JobsOK
<1> QED
  BY <1>7, <1>8, <1>9, <1>10 DEF CostsInv

\* Of a row that uses none of the rates that move, each line is billed by the same ones.
LEMMA RatesMove ==
  ASSUME CostsInv, NEW ts, EditCosts, UNCHANGED <<outages, cards, services, threshold>>,
         tariffs' \in SUBSET Tariffs, tariffs \subseteq tariffs' \cup ts, tariffs' \subseteq tariffs \cup ts,
         RateMoves(ts)
  PROVE  CostsInv'
<1> DEFINE Moved == {row \in OutageRow : \E t \in ts : UsesRate(row, t)}
<1>1. ASSUME NEW row \in OutageRow, row \notin Moved, NEW l \in Worked(row), NEW x \in {NONE, row.system}
      PROVE  InForce(l, x)' = InForce(l, x)
  <2>1. \A t \in ts : ~ (t.line = l /\ t.system = x)
    BY <1>1 DEF UsesRate
  <2> HIDE DEF Moved
  <2> QED
    BY <2>1 DEF InForce
<1>2. ASSUME NEW row \in OutageRow, row \notin Moved
      PROVE  RateChoices(row)' = RateChoices(row)
  <2>1. \A l \in Worked(row) : InForce(l, NONE)' = InForce(l, NONE) /\ InForce(l, row.system)' = InForce(l, row.system)
    BY <1>1, <1>2
  <2>2. \A l \in Worked(row) : \A e : Applicable(l, row.system, e)' = Applicable(l, row.system, e)
    BY <2>1 DEF Applicable, Instead, By
  <2> HIDE DEF Moved
  <2> QED
    BY <2>2 DEF RateChoices, Worked
<1>3. \A row : DowntimeCost(row)' = DowntimeCost(row) /\ CountsAsDowntime(row)' = CountsAsDowntime(row)
  <2>1. \A row : Stopped(row)' = Stopped(row)
    BY DEF Stopped
  <2>2. \A row : DowntimeCost(row)' = DowntimeCost(row)
    BY <2>1 DEF DowntimeCost
  <2>3. \A row : CountsAsDowntime(row)' = CountsAsDowntime(row)
    BY DEF CountsAsDowntime
  <2> QED
    BY <2>2, <2>3
<1>4. \A row \in OutageRow : row \notin Moved => \A used : BillsAfter(row, used)' = BillsAfter(row, used)
  <2> HIDE DEF Moved
  <2> QED
    BY <1>2, <1>3 DEF BillsAfter
<1>5. ASSUME NEW F, OutageRows(F), NEW f \in DOMAIN F, F[f] \notin Moved, Current(F, f)
      PROVE  Current(F, f)'
  <2>1. F[f] \in OutageRow
    BY <1>5 DEF OutageRows
  <2> HIDE DEF Moved
  <2>2. Bills(F, f)' = Bills(F, f)
    BY <1>4, <1>5, <2>1 DEF Bills
  <2> QED
    BY <1>3, <1>5, <2>2 DEF Current
<1>6. Moved \in SUBSET OutageRow
  OBVIOUS
<1>7. Unsettle({f \in Costed : outages[f] \in Moved},
               {d \in Busy : \E f \in DOMAIN desk[d].now : desk[d].now[f] \in Moved})
  <2>1. /\ \A f \in Costed : outages[f] \in OutageRow
        /\ \A d \in Busy : \A f \in DOMAIN desk[d].now : desk[d].now[f] \in OutageRow
    BY DEF CostsInv, FailureCostsTypeOK, CostJob, OutageRows, Costed, Busy
  <2>2. {f \in Costed : \E t \in ts : UsesRate(outages[f], t)} = {f \in Costed : outages[f] \in Moved}
    BY <2>1
  <2>3. {d \in Busy : \E f \in DOMAIN desk[d].now : \E t \in ts : UsesRate(desk[d].now[f], t)}
          = {d \in Busy : \E f \in DOMAIN desk[d].now : desk[d].now[f] \in Moved}
    BY <2>1
  <2> QED
    BY <2>2, <2>3 DEF RateMoves
<1> HIDE DEF Moved
<1>8. costEdits' \in 0 .. MaxCostEdits
  BY FailureCostsAssumption DEF CostsInv, FailureCostsTypeOK, EditCosts
<1>9. cards' \in [BusinessProcesses -> Card] /\ services' \in SUBSET Services /\ threshold' \in Thresholds
  BY PricesTyped
<1> QED
  BY <1>5, <1>6, <1>7, <1>8, <1>9, PriceMoves

\* A rate is added, changed or taken out of force.
LEMMA TariffKeeps ==
  ASSUME CostsInv, NEW t \in Tariffs
  PROVE  /\ AddTariff(t) => CostsInv'
         /\ \A becomes \in SUBSET Tariffs : UpdateTariff(t, becomes) => CostsInv'
<1>1. tariffs \in SUBSET Tariffs
  BY PricesTyped
<1>2. ASSUME AddTariff(t) PROVE CostsInv'
  BY <1>1, <1>2, RatesMove DEF AddTariff
<1>3. ASSUME NEW becomes \in SUBSET Tariffs, UpdateTariff(t, becomes) PROVE CostsInv'
  <2>1. /\ EditCosts /\ UNCHANGED <<outages, cards, services, threshold>> /\ tariffs' = (tariffs \ {t}) \cup becomes
        /\ RateMoves({t} \cup becomes)
    BY <1>3 DEF UpdateTariff
  <2>2. /\ tariffs' \in SUBSET Tariffs /\ tariffs \subseteq tariffs' \cup ({t} \cup becomes)
        /\ tariffs' \subseteq tariffs \cup ({t} \cup becomes)
    BY <1>1, <2>1
  <2> QED
    BY <2>1, <2>2, RatesMove
<1> QED
  BY <1>2, <1>3

\* Of a row whose system is served by no process that moves, a minute costs the same.
LEMMA ProcessesMove ==
  ASSUME CostsInv, NEW Moved \in SUBSET OutageRow, outages' = outages, EditCosts, UNCHANGED <<tariffs, threshold>>,
         cards' \in [BusinessProcesses -> Card], services' \in SUBSET Services,
         \A row \in OutageRow \ Moved :
           Stopped(row)' = Stopped(row) /\ \A s \in Stopped(row) : cards'[s.process] = cards[s.process],
         Unsettle({f \in Costed : outages[f] \in Moved},
                  {d \in Busy : \E f \in DOMAIN desk[d].now : desk[d].now[f] \in Moved})
  PROVE  CostsInv'
<1>1. \A l, x, e : Applicable(l, x, e)' = Applicable(l, x, e)
  BY DEF Applicable, Instead, By, InForce
<1>2. \A row : RateChoices(row)' = RateChoices(row) /\ CountsAsDowntime(row)' = CountsAsDowntime(row)
  BY <1>1 DEF RateChoices, CountsAsDowntime
<1>3. ASSUME NEW row \in OutageRow \ Moved PROVE DowntimeCost(row)' = DowntimeCost(row)
  BY <1>3 DEF DowntimeCost
<1>4. \A row \in OutageRow \ Moved : \A used : BillsAfter(row, used)' = BillsAfter(row, used)
  BY <1>2, <1>3 DEF BillsAfter
<1>5. ASSUME NEW F, OutageRows(F), NEW f \in DOMAIN F, F[f] \notin Moved, Current(F, f)
      PROVE  Current(F, f)'
  <2>1. F[f] \in OutageRow
    BY <1>5 DEF OutageRows
  <2>2. Bills(F, f)' = Bills(F, f)
    BY <1>4, <1>5, <2>1 DEF Bills
  <2> QED
    BY <1>2, <1>5, <2>2 DEF Current
<1>6. costEdits' \in 0 .. MaxCostEdits
  BY FailureCostsAssumption DEF CostsInv, FailureCostsTypeOK, EditCosts
<1>7. tariffs' \in SUBSET Tariffs /\ threshold' \in Thresholds
  BY PricesTyped
<1> QED
  BY <1>5, <1>6, <1>7, PriceMoves

\* What is kept and what is computed are rows.
LEMMA RowsOfIt ==
  ASSUME CostsInv
  PROVE  /\ \A f \in Costed : outages[f] \in OutageRow
         /\ \A d \in Busy : \A f \in DOMAIN desk[d].now : desk[d].now[f] \in OutageRow
BY DEF CostsInv, FailureCostsTypeOK, CostJob, OutageRows, Costed, Busy

\* The price of a minute is an amount, if there is one.
LEMMA PerMinuteType ==
  ASSUME NEW form \in CardForms
  PROVE  PerMinute(form) \in Nat \cup {NONE}
<1> DEFINE p == form.params
<1>1. p \in Params \cup {NONE} /\ (p # NONE => p.method = form.method) /\ NONE \notin Params
  BY FailureCostsAssumption DEF CardForm
<1>2. ASSUME NEW a \in Nat, NEW b \in Nat, b > 0 PROVE Nearest(a, b) \in Nat
  <2>1. 2 * a + b \in Nat /\ 2 * b \in Nat \ {0}
    BY <1>2
  <2> QED
    BY <2>1, DivNat DEF Nearest
<1>3. CASE p = NONE
  BY <1>3 DEF PerMinute
<1>4. CASE p # NONE /\ form.method = "RESOURCE"
  <2>1. p.employees \in Nat /\ p.hourly \in Nat /\ p.idle \in Nat /\ p.catchup \in Nat
    BY <1>1, <1>4 DEF Params
  <2>2. p.employees * p.hourly \in Nat
    BY <2>1
  <2>3. p.employees * p.hourly * p.idle \in Nat
    BY <2>1, <2>2
  <2>4. p.employees * p.hourly * p.idle * p.catchup \in Nat
    BY <2>1, <2>3
  <2>5. 60 * PARTS \in Nat /\ 60 * PARTS > 0
    BY FailureCostsAssumption
  <2>6. 60 * PARTS * PARTS \in Nat /\ 60 * PARTS * PARTS > 0
    BY <2>5, FailureCostsAssumption
  <2>7. Nearest(p.employees * p.hourly * p.idle * p.catchup, 60 * PARTS * PARTS) \in Nat
    BY <1>2, <2>4, <2>6
  <2>8. PerMinute(form) = IF p.employees = 0 \/ p.hourly = 0 THEN NONE
                          ELSE Nearest(p.employees * p.hourly * p.idle * p.catchup, 60 * PARTS * PARTS)
    BY <1>4 DEF PerMinute
  <2> QED
    BY <2>7, <2>8
<1>5. CASE p # NONE /\ form.method = "TRANSACTIONAL"
  <2>1. p.revenue \in Nat /\ p.minutes \in Nat /\ p.share \in Nat
    BY <1>1, <1>5 DEF Params
  <2>2. p.revenue * p.share \in Nat /\ p.minutes * PARTS \in Nat
    BY <2>1, FailureCostsAssumption
  <2>3. p.minutes # 0 => p.minutes * PARTS > 0
    BY <2>1, FailureCostsAssumption
  <2>4. p.minutes # 0 => Nearest(p.revenue * p.share, p.minutes * PARTS) \in Nat
    BY <1>2, <2>2, <2>3
  <2>5. PerMinute(form) = IF p.revenue = 0 \/ p.minutes = 0 THEN NONE
                          ELSE Nearest(p.revenue * p.share, p.minutes * PARTS)
    BY <1>5 DEF PerMinute
  <2> QED
    BY <2>4, <2>5
<1>6. CASE p # NONE /\ form.method = "EXPERT"
  <2>1. p.low \in Nat /\ p.high \in Nat
    BY <1>1, <1>6 DEF Params
  <2>2. Nearest(p.low + p.high, 2) \in Nat
    <3>1. p.low + p.high \in Nat /\ 2 \in Nat /\ 2 > 0
      BY <2>1
    <3> QED
      BY <1>2, <3>1
  <2>3. PerMinute(form) = IF p.high < p.low THEN NONE ELSE Nearest(p.low + p.high, 2)
    BY <1>6 DEF PerMinute
  <2> QED
    BY <2>2, <2>3
<1> QED
  BY <1>1, <1>3, <1>4, <1>5, <1>6, FailureCostsAssumption DEF CardForm

\* The price of a process is entered.
LEMMA PriceMinuteKeeps ==
  ASSUME CostsInv, NEW p \in BusinessProcesses, NEW form \in CardForms, PriceMinute(p, form)
  PROVE  CostsInv'
<1> DEFINE Moved == {row \in OutageRow : ServesBy(row, p)}
           new == [base |-> Given(Given(form.base, PerMinute(form)), cards[p].base),
                   profile |-> Given(form.profile, cards[p].profile)]
<1>1. /\ EditCosts /\ cards' = [cards EXCEPT ![p] = new] /\ DowntimeMoves({p})
      /\ UNCHANGED <<outages, tariffs, services, threshold>>
  BY DEF PriceMinute
<1>2. new \in Card
  <2>1. form.base \in Nat \cup {NONE} /\ form.profile \in DayProfiles
    BY FailureCostsAssumption DEF CardForm
  <2>2. cards[p] \in Card
    BY PricesTyped
  <2>3. cards[p].base \in Nat \cup {NONE} /\ cards[p].profile \in DayProfiles
    BY <2>2 DEF Card
  <2> QED
    BY <2>1, <2>3, PerMinuteType DEF Given, Card
<1> HIDE DEF new
<1>3. cards' \in [BusinessProcesses -> Card] /\ \A q \in BusinessProcesses \ {p} : cards'[q] = cards[q]
  BY <1>1, <1>2, PricesTyped
<1>4. \A s \in services : s.process \in BusinessProcesses
  BY PricesTyped, FailureCostsAssumption DEF ServiceLink
<1>5. ASSUME NEW row \in OutageRow \ Moved
      PROVE  Stopped(row)' = Stopped(row) /\ \A s \in Stopped(row) : cards'[s.process] = cards[s.process]
  <2>1. \A s \in services : s.system = row.system => cards'[s.process] = cards[s.process]
    BY <1>3, <1>4, <1>5 DEF ServesBy
  <2>2. services' = services
    BY <1>1
  <2> HIDE DEF Moved
  <2> QED
    BY <2>1, <2>2 DEF Stopped
<1>6. Unsettle({f \in Costed : outages[f] \in Moved},
               {d \in Busy : \E f \in DOMAIN desk[d].now : desk[d].now[f] \in Moved})
  <2>1. {f \in Costed : \E q \in {p} : ServesBy(outages[f], q)} = {f \in Costed : outages[f] \in Moved}
    BY RowsOfIt
  <2>2. {d \in Busy : \E f \in DOMAIN desk[d].now : \E q \in {p} : ServesBy(desk[d].now[f], q)}
          = {d \in Busy : \E f \in DOMAIN desk[d].now : desk[d].now[f] \in Moved}
    BY RowsOfIt
  <2> QED
    BY <1>1, <2>1, <2>2 DEF DowntimeMoves
<1>7. Moved \in SUBSET OutageRow
  OBVIOUS
<1>8. services' \in SUBSET Services
  BY <1>1, PricesTyped
<1> HIDE DEF Moved
<1> QED
  BY <1>1, <1>3, <1>5, <1>6, <1>7, <1>8, ProcessesMove

\* A system is linked with a process.
LEMMA LinkKeeps ==
  ASSUME CostsInv, NEW s \in Services, Link(s)
  PROVE  CostsInv'
<1> DEFINE Moved == {row \in OutageRow : row.system = s.system}
<1>1. EditCosts /\ services' = services \cup {s} /\ UNCHANGED <<outages, tariffs, cards, threshold>>
  BY DEF Link
<1>2. \A row \in OutageRow \ Moved :
        Stopped(row)' = Stopped(row) /\ \A o \in Stopped(row) : cards'[o.process] = cards[o.process]
  BY <1>1 DEF Stopped
<1>3. Unsettle({f \in Costed : outages[f] \in Moved},
               {d \in Busy : \E f \in DOMAIN desk[d].now : desk[d].now[f] \in Moved})
  <2>1. {f \in Costed : outages[f].system = s.system} = {f \in Costed : outages[f] \in Moved}
    BY RowsOfIt
  <2>2. {d \in Busy : \E f \in DOMAIN desk[d].now : desk[d].now[f].system = s.system}
          = {d \in Busy : \E f \in DOMAIN desk[d].now : desk[d].now[f] \in Moved}
    BY RowsOfIt
  <2> QED
    BY <2>1, <2>2 DEF Link
<1>4. Moved \in SUBSET OutageRow
  OBVIOUS
<1>5. services' \in SUBSET Services /\ cards' \in [BusinessProcesses -> Card]
  BY <1>1, PricesTyped
<1> HIDE DEF Moved
<1> QED
  BY <1>1, <1>2, <1>3, <1>4, <1>5, ProcessesMove

\* The threshold of a downtime changes.
LEMMA SetThresholdKeeps ==
  ASSUME CostsInv, NEW h \in Thresholds, SetThreshold(h)
  PROVE  CostsInv'
<1> DEFINE Moved == {row \in OutageRow : row.type = "DEGRADATION"}
<1>1. EditCosts /\ threshold' = h /\ UNCHANGED <<outages, tariffs, cards, services>>
  BY DEF SetThreshold
<1>2. \A row, used : BillsAfter(row, used)' = BillsAfter(row, used)
  <2>1. \A l, x, e : Applicable(l, x, e)' = Applicable(l, x, e)
    BY <1>1 DEF Applicable, Instead, By, InForce
  <2>2. \A row : RateChoices(row)' = RateChoices(row)
    BY <2>1 DEF RateChoices
  <2>3. \A row : Stopped(row)' = Stopped(row)
    BY <1>1 DEF Stopped
  <2>4. \A row : DowntimeCost(row)' = DowntimeCost(row)
    BY <1>1, <2>3 DEF DowntimeCost
  <2> QED
    BY <2>2, <2>4 DEF BillsAfter
<1>3. ASSUME NEW F, OutageRows(F), NEW f \in DOMAIN F, F[f] \notin Moved, Current(F, f)
      PROVE  Current(F, f)'
  <2>1. F[f].type # "DEGRADATION"
    BY <1>3 DEF OutageRows
  <2>2. Bills(F, f)' = Bills(F, f)
    BY <1>2 DEF Bills
  <2> QED
    BY <1>3, <2>1, <2>2 DEF Current
<1>4. Unsettle({f \in Costed : outages[f] \in Moved},
               {d \in Busy : \E f \in DOMAIN desk[d].now : desk[d].now[f] \in Moved})
  <2>1. {f \in Costed : outages[f].type = "DEGRADATION"} = {f \in Costed : outages[f] \in Moved}
    BY RowsOfIt
  <2>2. {d \in Busy : \E f \in DOMAIN desk[d].now : desk[d].now[f].type = "DEGRADATION"}
          = {d \in Busy : \E f \in DOMAIN desk[d].now : desk[d].now[f] \in Moved}
    BY RowsOfIt
  <2> QED
    BY <2>1, <2>2 DEF SetThreshold
<1>5. Moved \in SUBSET OutageRow
  OBVIOUS
<1>6. costEdits' \in 0 .. MaxCostEdits
  BY <1>1, FailureCostsAssumption DEF CostsInv, FailureCostsTypeOK, EditCosts
<1>7. /\ tariffs' \in SUBSET Tariffs /\ cards' \in [BusinessProcesses -> Card] /\ services' \in SUBSET Services
      /\ threshold' \in Thresholds
  BY <1>1, PricesTyped
<1> HIDE DEF Moved
<1> QED
  BY <1>1, <1>3, <1>4, <1>5, <1>6, <1>7, PriceMoves

-----------------------------------------------------------------------------
\* Nothing is entered at first.
LEMMA CostsInitInv == FailureCostsInit => CostsInv
<1> SUFFICES ASSUME FailureCostsInit PROVE CostsInv
  OBVIOUS
<1>1. DOMAIN outages = {} /\ outages = [f \in DOMAIN outages |-> outages[f]]
  BY DEF FailureCostsInit
<1>2. OutageRows(outages)
  BY <1>1 DEF OutageRows
<1>3. NONE \in Nat \cup {NONE} /\ NONE \in DayProfiles
  BY DEF DayProfiles
<1>4. cards \in [BusinessProcesses -> Card]
  BY <1>3 DEF FailureCostsInit, Card
<1>5. /\ services \in SUBSET Services /\ tariffs \in SUBSET Tariffs /\ threshold \in Thresholds
      /\ doubtful = {} /\ costEdits \in 0 .. MaxCostEdits
  BY FailureCostsAssumption DEF FailureCostsInit
<1>6. desk = [d \in Desks |-> desk[d]] /\ \A d \in Desks : desk[d] = NONE
  BY DEF FailureCostsInit
<1>7. Busy = {} /\ Costed = {}
  BY <1>1, <1>6 DEF Busy, Costed
<1>8. FailureCostsTypeOK
  BY <1>2, <1>4, <1>5, <1>6 DEF FailureCostsTypeOK
<1> QED
  BY <1>1, <1>7, <1>8 DEF CostsInv, UncostedIsBare, KeptIsCurrent, JobsOK

\* Nothing happens.
LEMMA CostsRest ==
  ASSUME CostsInv, UNCHANGED costVars
  PROVE  CostsInv'
<1>1. UNCHANGED Prices /\ UNCHANGED <<outages, desk, doubtful, costEdits>>
  BY DEF costVars, Prices
<1>2. FailureCostsTypeOK'
  BY <1>1 DEF CostsInv, FailureCostsTypeOK, Prices, OutageRows, CostJob
<1>3. Costed' = Costed /\ Busy' = Busy
  BY <1>1 DEF Costed, Busy
<1>4. UncostedIsBare'
  BY <1>1, <1>3 DEF CostsInv, UncostedIsBare, Worked
<1>5. KeptIsCurrent'
  BY <1>1, <1>3, SamePrices DEF CostsInv, KeptIsCurrent
<1>6. \A d \in Busy : JobOK(desk[d], outages)'
  <2>1. \A d \in Busy : JobOK(desk[d], outages)
    BY DEF CostsInv, JobsOK
  <2> QED
    BY <1>1, <2>1, SameJobs
<1>7. JobsOK'
  BY <1>1, <1>3, <1>6 DEF CostsInv, JobsOK
<1> QED
  BY <1>2, <1>4, <1>5, <1>7 DEF CostsInv

\* One case for each action.
LEMMA CostsSteps ==
  ASSUME CostsInv, [FailureCostsNext]_costVars
  PROVE  CostsInv'
<1>1. CASE \E f \in Outages, r \in Reports : EnterOutage(f, r)
  BY <1>1, EnterKeeps
<1>2. CASE \E f \in Outages, at \in Moments, end \in Moments \cup {NONE} : Correct(f, at, end)
  BY <1>2, CorrectKeeps
<1>3. CASE \E d \in Desks, f \in Outages, form \in CostForms : SaveEconomics(d, f, form)
  BY <1>3, SaveEconomicsKeeps
<1>4. CASE \E d \in Desks, S \in SUBSET Outages \ {{}} : \E said \in [S -> ExportLines] : ImportExport(d, said)
  BY <1>4, ImportExportKeeps
<1>5. CASE \E d \in Desks, fs \in SUBSET Outages : CountForRisk(d, fs)
  BY <1>5, CountForRiskKeeps
<1>6. CASE \E d \in Desks : CommitCosts(d) \/ GiveUp(d)
  BY <1>6, CommitCostsKeeps, GiveUpKeeps
<1>7. CASE \/ \E t \in Tariffs : AddTariff(t)
           \/ \E t \in Tariffs : \E becomes \in {{}} \cup {{u} : u \in Tariffs} : UpdateTariff(t, becomes)
  BY <1>7, TariffKeeps
<1>8. CASE \E p \in BusinessProcesses, form \in CardForms : PriceMinute(p, form)
  BY <1>8, PriceMinuteKeeps
<1>9. CASE \E s \in Services : Link(s)
  BY <1>9, LinkKeeps
<1>10. CASE \E h \in Thresholds : SetThreshold(h)
  BY <1>10, SetThresholdKeeps
<1>11. CASE UNCHANGED costVars
  BY <1>11, CostsRest
<1> QED
  BY <1>1, <1>2, <1>3, <1>4, <1>5, <1>6, <1>7, <1>8, <1>9, <1>10, <1>11 DEF FailureCostsNext

(***************************************************************************)
(* Whatever is entered, saved, imported, computed for a risk or changed    *)
(* under it, the invariant of the costs holds: the types, that what nobody *)
(* computed is bare, that what is kept is current, and what requests hold  *)
(* between their reading and their commit.                                 *)
(***************************************************************************)
THEOREM CostsInvAlways == FailureCostsSpec => []CostsInv
<1>1. FailureCostsInit => CostsInv
  BY CostsInitInv
<1>2. CostsInv /\ [FailureCostsNext]_costVars => CostsInv'
  BY CostsSteps
<1> QED
  BY <1>1, <1>2, PTL DEF FailureCostsSpec

(***************************************************************************)
(* The rows, the rates and what the requests hold keep their types: a sum  *)
(* is a natural number of minutes and money for each line of support       *)
(* (incidents/models.py, economics_service.py).                            *)
(***************************************************************************)
THEOREM CostsTypeCorrect == FailureCostsSpec => []FailureCostsTypeOK
<1>1. CostsInv => FailureCostsTypeOK
  BY DEF CostsInv
<1> QED
  BY <1>1, CostsInvAlways, PTL

(***************************************************************************)
(* The sum kept on a failure is what would be computed of it now, unless   *)
(* something it is made of was changed since it was computed, or while a   *)
(* request computed it (recompute, compute_incident_cost, recompute_ale).  *)
(***************************************************************************)
THEOREM KeptIsCurrentAlways == FailureCostsSpec => []KeptIsCurrent
<1>1. CostsInv => KeptIsCurrent
  BY DEF CostsInv
<1> QED
  BY <1>1, CostsInvAlways, PTL

-----------------------------------------------------------------------------
\* Two sums over parts of one set: what only the first has is no more than nothing,
\* what only the second has is no less, and what both have is no more in the first.
LEMMA SumCompare ==
  ASSUME NEW S, IsFiniteSet(S), NEW A \in SUBSET S, NEW B \in SUBSET S, NEW f, NEW g,
         \A x \in A : f[x] \in Int, \A x \in B : g[x] \in Int,
         \A x \in A \cap B : f[x] <= g[x], \A x \in A \ B : f[x] <= 0, \A x \in B \ A : 0 <= g[x]
  PROVE  SumFunctionOnSet(f, A) <= SumFunctionOnSet(g, B)
<1> DEFINE Bad == {T \in SUBSET S : ~ (SumFunctionOnSet(f, T \cap A) <= SumFunctionOnSet(g, T \cap B))}
<1> SUFFICES ASSUME Bad # {} PROVE FALSE
  <2>1. S \cap A = A /\ S \cap B = B /\ S \in SUBSET S
    OBVIOUS
  <2> QED
    BY <2>1
<1>1. PICK T \in Bad : \A U \in SUBSET T : U \in Bad => U = T
  <2>1. Bad \in SUBSET (SUBSET S)
    OBVIOUS
  <2> HIDE DEF Bad
  <2> QED
    BY <2>1, SmallestSet
<1>2. IsFiniteSet(A) /\ IsFiniteSet(B)
  BY FS_Subset
<1>3. \A U \in SUBSET A : SumFunctionOnSet(f, U) \in Int /\ (U = {} => SumFunctionOnSet(f, U) = 0)
  BY <1>2, SumFold
<1>4. \A U \in SUBSET B : SumFunctionOnSet(g, U) \in Int /\ (U = {} => SumFunctionOnSet(g, U) = 0)
  BY <1>2, SumFold
<1>5. T # {}
  <2> SUFFICES ASSUME T = {} PROVE FALSE
    OBVIOUS
  <2>1. T \cap A = {} /\ T \cap B = {}
    OBVIOUS
  <2> QED
    BY <1>1, <1>3, <1>4, <2>1
<1>6. PICK x \in T : TRUE
  BY <1>5
<1> DEFINE U == T \ {x}
<1>7. U \in SUBSET T /\ U \in SUBSET S /\ U # T
  BY <1>1, <1>6
<1>8. SumFunctionOnSet(f, U \cap A) <= SumFunctionOnSet(g, U \cap B)
  BY <1>1, <1>7
<1>9. x \in A => SumFunctionOnSet(f, T \cap A) = f[x] + SumFunctionOnSet(f, U \cap A)
  <2> SUFFICES ASSUME x \in A PROVE SumFunctionOnSet(f, T \cap A) = f[x] + SumFunctionOnSet(f, U \cap A)
    OBVIOUS
  <2> DEFINE W == T \cap A
  <2>1. W \in SUBSET A /\ x \in W /\ \A y \in W : f[y] \in Int
    BY <1>6
  <2>2. W \ {x} = U \cap A
    OBVIOUS
  <2>3. IsFiniteSet(W)
    BY <1>2, <2>1, FS_Subset
  <2> HIDE DEF W, U
  <2>4. SumFunctionOnSet(f, W) = f[x] + SumFunctionOnSet(f, W \ {x})
    BY <2>1, <2>3, SumOut
  <2> QED
    BY <2>2, <2>4 DEF W
<1>10. x \in B => SumFunctionOnSet(g, T \cap B) = g[x] + SumFunctionOnSet(g, U \cap B)
  <2> SUFFICES ASSUME x \in B PROVE SumFunctionOnSet(g, T \cap B) = g[x] + SumFunctionOnSet(g, U \cap B)
    OBVIOUS
  <2> DEFINE W == T \cap B
  <2>1. W \in SUBSET B /\ x \in W /\ \A y \in W : g[y] \in Int
    BY <1>6
  <2>2. W \ {x} = U \cap B
    OBVIOUS
  <2>3. IsFiniteSet(W)
    BY <1>2, <2>1, FS_Subset
  <2> HIDE DEF W, U
  <2>4. SumFunctionOnSet(g, W) = g[x] + SumFunctionOnSet(g, W \ {x})
    BY <2>1, <2>3, SumOut
  <2> QED
    BY <2>2, <2>4 DEF W
<1>11. (x \notin A => T \cap A = U \cap A) /\ (x \notin B => T \cap B = U \cap B)
  OBVIOUS
<1>12. SumFunctionOnSet(f, U \cap A) \in Int /\ SumFunctionOnSet(g, U \cap B) \in Int
  BY <1>3, <1>4
<1>13. ~ (SumFunctionOnSet(f, T \cap A) <= SumFunctionOnSet(g, T \cap B))
  BY <1>1
<1> HIDE DEF U, Bad
<1>14. CASE x \in A /\ x \in B
  <2>1. f[x] \in Int /\ g[x] \in Int /\ f[x] <= g[x]
    BY <1>14
  <2> QED
    BY <1>8, <1>9, <1>10, <1>12, <1>13, <1>14, <2>1
<1>15. CASE x \in A /\ x \notin B
  <2>1. f[x] \in Int /\ f[x] <= 0
    BY <1>15
  <2>2. SumFunctionOnSet(g, T \cap B) = SumFunctionOnSet(g, U \cap B)
    BY <1>11, <1>15
  <2> QED
    BY <1>8, <1>9, <1>12, <1>13, <1>15, <2>1, <2>2
<1>16. CASE x \notin A /\ x \in B
  <2>1. g[x] \in Int /\ 0 <= g[x]
    BY <1>16
  <2>2. SumFunctionOnSet(f, T \cap A) = SumFunctionOnSet(f, U \cap A)
    BY <1>11, <1>16
  <2> QED
    BY <1>8, <1>10, <1>12, <1>13, <1>16, <2>1, <2>2
<1>17. CASE x \notin A /\ x \notin B
  <2>1. T \cap A = U \cap A /\ T \cap B = U \cap B
    BY <1>11, <1>17
  <2> QED
    BY <1>8, <1>13, <2>1
<1> QED
  BY <1>14, <1>15, <1>16, <1>17

\* Of some rows that began at some moments, one began last.
LEMMA BeganLast ==
  ASSUME NEW Z, IsFiniteSet(Z), Z # {}, NEW at, \A z \in Z : at[z] \in Int
  PROVE  \E z \in Z : \A y \in Z : at[y] <= at[z]
<1> DEFINE From(z) == {y \in Z : at[z] <= at[y]}
           Bad == {From(z) : z \in Z}
<1>1. PICK T \in Bad : \A U \in SUBSET T : U \in Bad => U = T
  <2>1. Bad \in SUBSET (SUBSET Z) /\ Bad # {}
    OBVIOUS
  <2> HIDE DEF Bad
  <2> QED
    BY <2>1, SmallestSet
<1>2. PICK z \in Z : T = From(z)
  BY <1>1
<1>3. ASSUME NEW y \in Z, ~ (at[y] <= at[z]) PROVE FALSE
  <2>1. From(y) \in SUBSET From(z) /\ From(y) \in Bad
    BY <1>3
  <2>2. z \in From(z) /\ z \notin From(y)
    BY <1>3
  <2> HIDE DEF From, Bad
  <2>3. From(y) = T
    BY <1>1, <1>2, <2>1
  <2> QED
    BY <1>2, <2>2, <2>3
<1> QED
  BY <1>3

\* What is kept of the package on one failure, of which nothing is in doubt.
LEMMA InsideOfOne ==
  ASSUME CostsInv, NEW f \in Costed \ doubtful, NEW l \in Worked(outages[f])
  PROVE  /\ InsidePackage(f, l) \in Nat /\ AddedByQuanta(f, l) \in Nat
         /\ InsidePackage(f, l) - AddedByQuanta(f, l) <= HoursOn(outages[f], l)
         /\ InsidePackage(f, l) # 0 =>
              \E q \in Packages(l) : q \in Nat /\ InsidePackage(f, l) <= q - UsedBefore(outages, f, l)
<1> DEFINE row == outages[f]
           used == [k \in SupportLines |-> UsedBefore(outages, f, k)]
           b == row.bill.lines[l]
<1>1. OutageRows(outages) /\ f \in DOMAIN outages /\ row \in OutageRow /\ tariffs \in SUBSET Tariffs
  BY DEF CostsInv, FailureCostsTypeOK, OutageRows, Costed
<1>2. row.bill \in BillsAfter(row, used)
  BY DEF CostsInv, KeptIsCurrent, Current, Bills
<1>3. l \in SupportLines /\ used[l] = UsedBefore(outages, f, l) /\ used[l] \in Nat
  BY <1>1, UsedBeforeType DEF Worked
<1>4. row.labor[l] \in Nat /\ HoursOn(row, l) = row.labor[l] /\ row.at \in Moments
  BY <1>1, <1>3, WorkedType, RowTyped
<1> HIDE DEF used
<1>5. PICK c \in RateChoices(row) :
        row.bill = [ lines |-> [k \in SupportLines |->
                       IF k \notin Worked(row) \/ c[k] = NONE THEN NONE
                       ELSE LineBill(c[k], row.labor[k], row.at, used[k])],
                     downtime |-> DowntimeCost(row) ]
  BY <1>2 DEF BillsAfter
<1>6. b = IF c[l] = NONE THEN NONE ELSE LineBill(c[l], row.labor[l], row.at, used[l])
  BY <1>3, <1>5
<1>7. InsidePackage(f, l) = IF b = NONE THEN 0 ELSE b.packaged
  BY DEF InsidePackage
<1>8. AddedByQuanta(f, l) = IF b = NONE THEN 0 ELSE b.billed - row.labor[l]
  BY DEF AddedByQuanta
<1>9. CASE b = NONE
  BY <1>4, <1>7, <1>8, <1>9
<1>10. CASE b # NONE
  <2> DEFINE t == c[l]
  <2>1. t # NONE /\ b = LineBill(t, row.labor[l], row.at, used[l])
    BY <1>6, <1>10
  <2>2. t \in SupportRate /\ t \in tariffs /\ t.line = l
    BY <1>1, <2>1, RateChoiceType
  <2>3. /\ b \in LineBills /\ row.labor[l] <= b.billed /\ b.packaged <= b.billed
        /\ b.packaged # 0 => t.package \in Nat /\ b.packaged <= t.package - used[l]
    BY <1>3, <1>4, <2>1, <2>2, LineBillType
  <2>4. b.packaged \in Nat /\ b.billed \in Nat
    BY <2>3 DEF LineBills
  <2>5. t.package \in Nat => t.package \in Packages(l)
    BY <2>2, FailureCostsAssumption DEF Packages
  <2>6. InsidePackage(f, l) = b.packaged /\ AddedByQuanta(f, l) = b.billed - row.labor[l]
    BY <1>7, <1>8, <1>10
  <2> HIDE DEF b, t, row
  <2>7. InsidePackage(f, l) # 0 =>
          \E q \in Packages(l) : q \in Nat /\ InsidePackage(f, l) <= q - UsedBefore(outages, f, l)
    BY <1>3, <2>3, <2>5, <2>6
  <2>8. /\ InsidePackage(f, l) \in Nat /\ AddedByQuanta(f, l) \in Nat
        /\ InsidePackage(f, l) - AddedByQuanta(f, l) <= HoursOn(row, l)
    BY <1>4, <2>3, <2>4, <2>6
  <2> QED
    BY <2>7, <2>8 DEF row
<1> QED
  BY <1>9, <1>10

\* Of the failures that took something, the latest took what those before had left at most.
LEMMA SpentOnce ==
  ASSUME CostsInv
  PROVE  PackageSpentOnce
<1> SUFFICES ASSUME NEW s \in Estate, NEW l \in SupportLines, NEW m,
                    OnVendor(s, m, l) \cap doubtful = {},
                    \A f, g \in OnVendor(s, m, l) : outages[f].at = outages[g].at => f = g,
                    NEW p \in Packages(l), \A q \in Packages(l) : q <= p
             PROVE  SumFunction([f \in OnVendor(s, m, l) |-> InsidePackage(f, l) - AddedByQuanta(f, l)]) <= p
  BY DEF PackageSpentOnce
<1> DEFINE fs == OnVendor(s, m, l)
           h == [f \in fs |-> InsidePackage(f, l) - AddedByQuanta(f, l)]
<1>1. /\ OutageRows(outages) /\ tariffs \in SUBSET Tariffs /\ IsFiniteSet(Outages) /\ fs \in SUBSET Outages
      /\ DOMAIN outages \subseteq Outages
  BY FailureCostsAssumption DEF CostsInv, FailureCostsTypeOK, OutageRows, OnVendor, Costed
<1>2. \A f \in fs : /\ f \in Costed \ doubtful /\ f \in DOMAIN outages /\ l \in Worked(outages[f])
                    /\ l \in outages[f].vendor /\ outages[f].system = s /\ Calendar[outages[f].at].month = m
  BY DEF OnVendor, Costed
<1>3. \A f \in DOMAIN outages : outages[f] \in OutageRow /\ outages[f].at \in Nat /\ HoursOn(outages[f], l) \in Nat
  BY <1>1, RowTyped, WorkedType, FailureCostsAssumption DEF OutageRows
<1>4. p \in Nat
  <2>1. PICK t \in tariffs : t.package # NONE /\ p = t.package
    BY DEF Packages
  <2>2. t \in SupportRate
    BY <1>1, FailureCostsAssumption
  <2> QED
    BY <2>1, <2>2 DEF SupportRate
<1>5. ASSUME NEW f \in fs
      PROVE  /\ h[f] \in Int /\ h[f] <= HoursOn(outages[f], l)
             /\ h[f] > 0 => h[f] <= p - UsedBefore(outages, f, l)
  <2>1. /\ InsidePackage(f, l) \in Nat /\ AddedByQuanta(f, l) \in Nat
        /\ InsidePackage(f, l) - AddedByQuanta(f, l) <= HoursOn(outages[f], l)
        /\ InsidePackage(f, l) # 0 =>
             \E q \in Packages(l) : q \in Nat /\ InsidePackage(f, l) <= q - UsedBefore(outages, f, l)
    BY <1>2, InsideOfOne
  <2>2. h[f] = InsidePackage(f, l) - AddedByQuanta(f, l)
    OBVIOUS
  <2>3. UsedBefore(outages, f, l) \in Nat
    BY <1>1, <1>2, UsedBeforeType
  <2> HIDE DEF h
  <2>4. ASSUME h[f] > 0 PROVE h[f] <= p - UsedBefore(outages, f, l)
    <3>1. InsidePackage(f, l) # 0
      BY <2>1, <2>2, <2>4
    <3>2. PICK q \in Packages(l) : q \in Nat /\ InsidePackage(f, l) <= q - UsedBefore(outages, f, l)
      BY <2>1, <3>1
    <3>3. q <= p
      OBVIOUS
    <3> QED
      BY <1>4, <2>1, <2>2, <2>3, <3>2, <3>3
  <2> QED
    BY <2>1, <2>2, <2>4
<1>6. SumFunction(h) = SumFunctionOnSet(h, fs)
  BY DEF SumFunction
<1> DEFINE Z == {f \in fs : h[f] > 0}
<1> HIDE DEF h
<1>7. IsFiniteSet(fs) /\ IsFiniteSet(Z)
  <2>1. Z \in SUBSET Outages
    BY <1>1
  <2> HIDE DEF Z, fs
  <2> QED
    BY <1>1, <2>1, FS_Subset
<1>8. CASE Z = {}
  <2>1. {} \in SUBSET Outages
    OBVIOUS
  <2>2. \A f \in fs : h[f] \in Int /\ h[f] <= 0
    BY <1>5, <1>8
  <2> HIDE DEF fs
  <2>3. SumFunctionOnSet(h, fs) <= SumFunctionOnSet(h, {})
    BY <1>1, <2>1, <2>2, SumCompare
  <2>4. SumFunctionOnSet(h, {}) = 0 /\ SumFunctionOnSet(h, fs) \in Int
    BY <1>7, <2>2, SumFold
  <2> QED
    BY <1>4, <1>6, <2>3, <2>4 DEF fs, h
<1>9. CASE Z # {}
  <2> DEFINE at == [f \in Z |-> outages[f].at]
  <2>1. \A f \in Z : at[f] \in Int /\ at[f] = outages[f].at
    BY <1>2, <1>3
  <2> HIDE DEF at
  <2>2. PICK z \in Z : \A y \in Z : at[y] <= at[z]
    <3> HIDE DEF Z
    <3> QED
      BY <1>7, <1>9, <2>1, BeganLast
  <2>3. z \in fs /\ h[z] > 0 /\ \A y \in fs : h[y] > 0 => outages[y].at <= outages[z].at
    BY <2>1, <2>2
  <2> DEFINE P == CountedOn(outages, z, l)
             g == [x \in P |-> HoursOn(outages[x], l)]
             A == fs \ {z}
  <2>4. P \in SUBSET Outages /\ A \in SUBSET Outages /\ P \subseteq DOMAIN outages
    BY <1>1 DEF CountedOn, InPackage
  <2>5. UsedBefore(outages, z, l) = SumFunctionOnSet(g, P)
    BY <1>2, <2>3 DEF UsedBefore, SumFunction, CountedOn
  <2>6. \A x \in P : g[x] \in Nat /\ g[x] = HoursOn(outages[x], l)
    BY <1>3, <2>4
  <2>7. ASSUME NEW x \in A, x \notin P
        PROVE  h[x] <= 0
    <3>1. x \in fs /\ x # z /\ x \in DOMAIN outages \ {z} /\ l \in outages[x].vendor
      BY <1>2
    <3>2. CountedTogether(outages[x], outages[z]) /\ Calendar[outages[x].at].month = Calendar[outages[z].at].month
      BY <1>2, <2>3, <3>1, FailureCostsAssumption DEF CountedTogether
    <3>3. ~ (outages[x].at < outages[z].at)
      BY <2>7, <3>1, <3>2 DEF CountedOn, InPackage
    <3>4. outages[x].at # outages[z].at /\ outages[x].at \in Nat /\ outages[z].at \in Nat
      BY <1>2, <1>3, <2>3, <3>1
    <3>5. ~ (outages[x].at <= outages[z].at)
      BY <3>3, <3>4
    <3>6. ~ (h[x] > 0) /\ h[x] \in Int
      BY <1>5, <2>3, <3>1, <3>5
    <3> QED
      BY <3>6
  <2>8. \A x \in A : h[x] \in Int
    BY <1>5
  <2>9. \A x \in A \cap P : h[x] <= g[x]
    BY <1>5, <2>6
  <2>10. fs \ {z} = A
    OBVIOUS
  <2> HIDE DEF P, g, A
  <2>11. SumFunctionOnSet(h, A) <= SumFunctionOnSet(g, P)
    BY <1>1, <2>4, <2>6, <2>7, <2>8, <2>9, SumCompare
  <2>12. SumFunctionOnSet(h, fs) = h[z] + SumFunctionOnSet(h, A)
    <3>1. \A x \in fs : h[x] \in Int
      BY <1>5
    <3> HIDE DEF fs
    <3> QED
      BY <1>7, <2>3, <2>10, <3>1, SumOut
  <2>13. SumFunctionOnSet(h, A) \in Int
    <3>1. IsFiniteSet(A) /\ A \in SUBSET A
      BY <1>1, <2>4, FS_Subset
    <3> QED
      BY <2>8, <3>1, SumFold
  <2>14. h[z] \in Int /\ h[z] <= p - UsedBefore(outages, z, l) /\ UsedBefore(outages, z, l) \in Nat
    BY <1>1, <1>2, <1>5, <2>3, UsedBeforeType
  <2>15. SumFunctionOnSet(h, fs) <= p
    BY <1>4, <2>5, <2>11, <2>12, <2>13, <2>14
  <2> QED
    BY <1>6, <2>15 DEF fs, h
<1> QED
  BY <1>8, <1>9

(***************************************************************************)
(* The package of a month is spent once: where nothing is in doubt and no  *)
(* two failures began at one moment, what the failures of a system bill    *)
(* inside the package of a line, but for what rounding to quanta added, is *)
(* no more than the package (_vendor_hours_used, vendor_labor_cost).       *)
(***************************************************************************)
THEOREM PackageSpentOnceAlways == FailureCostsSpec => []PackageSpentOnce
<1>1. CostsInv => PackageSpentOnce
  BY SpentOnce
<1> QED
  BY <1>1, CostsInvAlways, PTL

=============================================================================
