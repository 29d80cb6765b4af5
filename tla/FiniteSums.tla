------------------------------ MODULE FiniteSums ------------------------------
(***************************************************************************)
(* Sums over a finite set, as the community modules compute them.          *)
(*                                                                         *)
(* MapThenSumSet and SumFunction are folds, and a fold is a recursive      *)
(* function over the subsets of its set.  That such a function exists, and *)
(* what it adds up to, is an induction over finite sets; each is done here *)
(* on a smallest set for which the claim would fail.                       *)
(***************************************************************************)
EXTENDS Integers, FiniteSetsExt, FiniteSetTheorems, WellFoundedInduction, TLAPS

\* The sum of a function over a set of arguments; SumFunction is the case of its domain.
Total(f, S) == MapThenSumSet(LAMBDA x : f[x], S)

\* The element the folds take next, and the function they recur through.
Taken(S) == CHOOSE x \in S : TRUE

IsFold(sum, f, S) ==
  sum = [T \in SUBSET S |-> IF T = {} THEN 0 ELSE f[Taken(T)] + sum[T \ {Taken(T)}]]

-----------------------------------------------------------------------------
(* Induction and existence *)

\* Among finite sets there is a smallest.
LEMMA SmallestSet ==
  ASSUME NEW S, IsFiniteSet(S), NEW B \in SUBSET SUBSET S, B # {}
  PROVE  \E T \in B : IsFiniteSet(T) /\ \A U \in B : ~(U \subseteq T /\ U # T)
  <1>1. \A T \in B : IsFiniteSet(T) /\ T \in FiniteSubsetsOf(S)
    BY FS_Subset DEF FiniteSubsetsOf
  <1>2. IsWellFoundedOn(StrictSubsetOrdering(S), FiniteSubsetsOf(S))
    BY FS_StrictSubsetOrderingWellFounded
  <1>3. B \subseteq FiniteSubsetsOf(S)
    BY <1>1
  <1>4. PICK T \in B : \A U \in B : <<U, T>> \notin StrictSubsetOrdering(S)
    BY <1>2, <1>3, WFMin
  <1>5. \A U \in B : U \subseteq T /\ U # T => <<U, T>> \in StrictSubsetOrdering(S)
    BY <1>1 DEF StrictSubsetOrdering
  <1>6. \A U \in B : ~(U \subseteq T /\ U # T)
    BY <1>4, <1>5
  <1> QED BY <1>1, <1>6

\* The folds take an element of the set.
LEMMA TakenIsElement == ASSUME NEW S, S # {} PROVE Taken(S) \in S
  BY DEF Taken

\* Two folds, over a set and over one of its subsets, agree on the subset.
LEMMA FoldsAgree ==
  ASSUME NEW f, NEW S, IsFiniteSet(S), NEW U \in SUBSET S,
         NEW i, IsFold(i, f, S), NEW j, IsFold(j, f, U)
  PROVE  i[U] = j[U]
  <1> DEFINE B == {T \in SUBSET U : i[T] # j[T]}
  <1>1. SUFFICES ASSUME B # {} PROVE FALSE
    OBVIOUS
  <1>2. IsFiniteSet(U)
    BY FS_Subset
  <1>3. PICK T \in B : \A V \in B : ~(V \subseteq T /\ V # T)
    <2>1. B \in SUBSET SUBSET U
      OBVIOUS
    <2> HIDE DEF B
    <2> QED BY <1>1, <1>2, <2>1, SmallestSet
  <1>4. T \in SUBSET U /\ T \in SUBSET S
    OBVIOUS
  <1>5. T # {}
    BY <1>4 DEF IsFold
  <1> DEFINE R == T \ {Taken(T)}
  <1>6. R \in SUBSET U /\ R \subseteq T /\ R # T
    BY <1>4, <1>5, TakenIsElement
  <1>7. i[R] = j[R]
    BY <1>3, <1>6
  <1>8. i[T] = f[Taken(T)] + i[R]
    BY <1>4, <1>5 DEF IsFold
  <1>9. j[T] = f[Taken(T)] + j[R]
    BY <1>4, <1>5 DEF IsFold
  <1> QED BY <1>7, <1>8, <1>9

\* The recursive function exists: otherwise there is a smallest set without one, but the
\* folds of the proper subsets of a set are all that its own is made of.
LEMMA FoldExists ==
  ASSUME NEW f, NEW S, IsFiniteSet(S)
  PROVE  \E sum : IsFold(sum, f, S)
  <1> DEFINE B == {T \in SUBSET S : ~ \E sum : IsFold(sum, f, T)}
  <1>1. SUFFICES ASSUME B # {} PROVE FALSE
    OBVIOUS
  <1>2. PICK T \in B : IsFiniteSet(T) /\ \A V \in B : ~(V \subseteq T /\ V # T)
    <2>1. B \in SUBSET SUBSET S
      OBVIOUS
    <2> HIDE DEF B
    <2> QED BY <1>1, <2>1, SmallestSet
  <1>3. T \in SUBSET S
    OBVIOUS
  <1> DEFINE part(R) == (CHOOSE sum : IsFold(sum, f, R))[R]
             whole == [R \in SUBSET T |->
                         IF R = {} THEN 0 ELSE f[Taken(R)] + part(R \ {Taken(R)})]
  <1>4. \A R \in SUBSET T : R # T => IsFold(CHOOSE sum : IsFold(sum, f, R), f, R)
    <2> SUFFICES ASSUME NEW R \in SUBSET T, R # T
                 PROVE  \E sum : IsFold(sum, f, R)
      OBVIOUS
    <2> QED BY <1>2, <1>3
  <1>5. ASSUME NEW R \in SUBSET T, R # T PROVE whole[R] = part(R)
    <2> DEFINE i == CHOOSE sum : IsFold(sum, f, R)
    <2>1. IsFold(i, f, R)
      BY <1>4, <1>5
    <2>2. CASE R = {}
      BY <2>1, <2>2 DEF IsFold
    <2>3. CASE R # {}
      <3> DEFINE Q == R \ {Taken(R)}
                 j == CHOOSE sum : IsFold(sum, f, Q)
      <3>1. Q \in SUBSET T /\ Q # T /\ Q \in SUBSET R
        BY <1>5, <2>3, TakenIsElement
      <3>2. IsFold(j, f, Q)
        BY <1>4, <3>1
      <3>3. IsFiniteSet(R)
        BY <1>2, FS_Subset
      <3> HIDE DEF i, j
      <3>4. i[Q] = j[Q]
        BY <2>1, <3>1, <3>2, <3>3, FoldsAgree
      <3>5. i[R] = f[Taken(R)] + i[Q]
        BY <2>1, <2>3 DEF IsFold
      <3>6. whole[R] = f[Taken(R)] + part(Q)
        BY <2>3
      <3> QED BY <3>4, <3>5, <3>6 DEF i, j
    <2> QED BY <2>2, <2>3
  <1>6. \A R \in SUBSET T : R # {} => whole[R \ {Taken(R)}] = part(R \ {Taken(R)})
    <2> SUFFICES ASSUME NEW R \in SUBSET T, R # {}
                 PROVE  whole[R \ {Taken(R)}] = part(R \ {Taken(R)})
      OBVIOUS
    <2>1. R \ {Taken(R)} \in SUBSET T /\ R \ {Taken(R)} # T
      BY TakenIsElement
    <2> HIDE DEF whole, part
    <2> QED BY <1>5, <2>1
  <1>7. whole = [R \in SUBSET T |->
                   IF R = {} THEN 0 ELSE f[Taken(R)] + whole[R \ {Taken(R)}]]
    <2> DEFINE again == [R \in SUBSET T |->
                   IF R = {} THEN 0 ELSE f[Taken(R)] + whole[R \ {Taken(R)}]]
    <2>1. \A R \in SUBSET T : whole[R] = again[R]
      <3> SUFFICES ASSUME NEW R \in SUBSET T PROVE whole[R] = again[R]
        OBVIOUS
      <3>1. CASE R = {}
        BY <3>1
      <3>2. CASE R # {}
        <4>1. whole[R] = f[Taken(R)] + part(R \ {Taken(R)})
          BY <3>2
        <4>2. again[R] = f[Taken(R)] + whole[R \ {Taken(R)}]
          BY <3>2
        <4> HIDE DEF whole, again, part
        <4> QED BY <1>6, <3>2, <4>1, <4>2
      <3> QED BY <3>1, <3>2
    <2> QED BY <2>1
  <1>8. IsFold(whole, f, T)
    BY <1>7 DEF IsFold
  <1> QED BY <1>8

\* The equations of a sum.
LEMMA TotalUnfolds ==
  ASSUME NEW f, NEW S, IsFiniteSet(S)
  PROVE  Total(f, S) = IF S = {} THEN 0 ELSE f[Taken(S)] + Total(f, S \ {Taken(S)})
  <1>1. \A T : Total(f, T) = (CHOOSE sum : IsFold(sum, f, T))[T]
    BY DEF Total, MapThenSumSet, MapThenFoldSet, IsFold, Taken
  <1> DEFINE R == S \ {Taken(S)}
             i == CHOOSE sum : IsFold(sum, f, S)
             j == CHOOSE sum : IsFold(sum, f, R)
  <1>2. IsFiniteSet(R) /\ R \in SUBSET S
    BY FS_Subset
  <1>3. IsFold(i, f, S) /\ IsFold(j, f, R)
    BY <1>2, FoldExists
  <1>4. Total(f, S) = i[S] /\ Total(f, R) = j[R]
    BY <1>1
  <1> HIDE DEF i, j
  <1>5. i[R] = j[R]
    BY <1>2, <1>3, FoldsAgree
  <1>6. i[S] = IF S = {} THEN 0 ELSE f[Taken(S)] + i[R]
    BY <1>3 DEF IsFold
  <1> QED BY <1>4, <1>5, <1>6

-----------------------------------------------------------------------------
(* What the sums are *)

\* A sum of integers is an integer.
LEMMA TotalIsInt ==
  ASSUME NEW f, NEW S, IsFiniteSet(S), \A x \in S : f[x] \in Int
  PROVE  Total(f, S) \in Int
  <1> DEFINE B == {T \in SUBSET S : Total(f, T) \notin Int}
  <1>1. SUFFICES ASSUME B # {} PROVE FALSE
    OBVIOUS
  <1>2. PICK T \in B : IsFiniteSet(T) /\ \A V \in B : ~(V \subseteq T /\ V # T)
    <2>1. B \in SUBSET SUBSET S
      OBVIOUS
    <2> HIDE DEF B
    <2> QED BY <1>1, <2>1, SmallestSet
  <1> DEFINE R == T \ {Taken(T)}
  <1>3. Total(f, T) = IF T = {} THEN 0 ELSE f[Taken(T)] + Total(f, R)
    BY <1>2, TotalUnfolds
  <1>4. T # {} => f[Taken(T)] \in Int /\ R \in SUBSET S /\ R \subseteq T /\ R # T
    BY TakenIsElement
  <1>5. T # {} => Total(f, R) \in Int
    BY <1>2, <1>4
  <1> QED BY <1>3, <1>4, <1>5

\* A sum of naturals is a natural.
LEMMA TotalIsNat ==
  ASSUME NEW f, NEW S, IsFiniteSet(S), \A x \in S : f[x] \in Nat
  PROVE  Total(f, S) \in Nat
  <1> DEFINE B == {T \in SUBSET S : Total(f, T) \notin Nat}
  <1>1. SUFFICES ASSUME B # {} PROVE FALSE
    OBVIOUS
  <1>2. PICK T \in B : IsFiniteSet(T) /\ \A V \in B : ~(V \subseteq T /\ V # T)
    <2>1. B \in SUBSET SUBSET S
      OBVIOUS
    <2> HIDE DEF B
    <2> QED BY <1>1, <2>1, SmallestSet
  <1> DEFINE R == T \ {Taken(T)}
  <1>3. Total(f, T) = IF T = {} THEN 0 ELSE f[Taken(T)] + Total(f, R)
    BY <1>2, TotalUnfolds
  <1>4. T # {} => f[Taken(T)] \in Nat /\ R \in SUBSET S /\ R \subseteq T /\ R # T
    BY TakenIsElement
  <1>5. T # {} => Total(f, R) \in Nat
    BY <1>2, <1>4
  <1> QED BY <1>3, <1>4, <1>5

\* Only the terms count.
LEMMA TotalOfEqualTerms ==
  ASSUME NEW f, NEW g, NEW S, IsFiniteSet(S), \A x \in S : f[x] = g[x]
  PROVE  Total(f, S) = Total(g, S)
  <1> DEFINE B == {T \in SUBSET S : Total(f, T) # Total(g, T)}
  <1>1. SUFFICES ASSUME B # {} PROVE FALSE
    OBVIOUS
  <1>2. PICK T \in B : IsFiniteSet(T) /\ \A V \in B : ~(V \subseteq T /\ V # T)
    <2>1. B \in SUBSET SUBSET S
      OBVIOUS
    <2> HIDE DEF B
    <2> QED BY <1>1, <2>1, SmallestSet
  <1> DEFINE R == T \ {Taken(T)}
  <1>3. /\ Total(f, T) = IF T = {} THEN 0 ELSE f[Taken(T)] + Total(f, R)
        /\ Total(g, T) = IF T = {} THEN 0 ELSE g[Taken(T)] + Total(g, R)
    BY <1>2, TotalUnfolds
  <1>4. T # {} => f[Taken(T)] = g[Taken(T)] /\ R \in SUBSET S /\ R \subseteq T /\ R # T
    BY TakenIsElement
  <1>5. T # {} => Total(f, R) = Total(g, R)
    BY <1>2, <1>4
  <1> QED BY <1>3, <1>4, <1>5

\* Any element may be taken first.
LEMMA TotalWithout ==
  ASSUME NEW f, NEW S, IsFiniteSet(S), \A x \in S : f[x] \in Int, NEW d \in S
  PROVE  Total(f, S) = f[d] + Total(f, S \ {d})
  <1> DEFINE B == {T \in SUBSET S : \E e \in T : Total(f, T) # f[e] + Total(f, T \ {e})}
  <1>1. SUFFICES ASSUME B # {} PROVE FALSE
    BY <1>1
  <1>2. PICK T \in B : IsFiniteSet(T) /\ \A V \in B : ~(V \subseteq T /\ V # T)
    <2>1. B \in SUBSET SUBSET S
      OBVIOUS
    <2> HIDE DEF B
    <2> QED BY <1>1, <2>1, SmallestSet
  <1>3. PICK e \in T : Total(f, T) # f[e] + Total(f, T \ {e})
    OBVIOUS
  <1> DEFINE y == Taken(T)
             R == T \ {y}
             Q == T \ {e}
  <1>4. y \in T /\ Total(f, T) = f[y] + Total(f, R)
    BY <1>2, TakenIsElement, TotalUnfolds
  <1>5. y # e /\ y \in Q /\ e \in R
    BY <1>3, <1>4
  <1>6. /\ T \in SUBSET S
        /\ R \in SUBSET S /\ R \subseteq T /\ R # T
        /\ Q \in SUBSET S /\ Q \subseteq T /\ Q # T
    BY <1>4
  <1>7. Total(f, R) = f[e] + Total(f, R \ {e})
    BY <1>2, <1>5, <1>6
  <1>8. Total(f, Q) = f[y] + Total(f, Q \ {y})
    BY <1>2, <1>5, <1>6
  <1>9. R \ {e} = Q \ {y}
    OBVIOUS
  <1>10. f[e] \in Int /\ f[y] \in Int /\ Total(f, R \ {e}) \in Int
    <2>1. IsFiniteSet(R \ {e}) /\ \A x \in R \ {e} : f[x] \in Int
      BY <1>2, <1>6, FS_Subset
    <2> QED BY <1>4, <1>6, <2>1, TotalIsInt
  <1>11. Total(f, T) # f[e] + Total(f, Q)
    BY <1>3
  <1>12. Total(f, Q) = f[y] + Total(f, R \ {e})
    BY <1>8, <1>9
  <1> DEFINE rest == Total(f, R \ {e})
             whole == Total(f, T)
             part == Total(f, Q)
  <1>13. whole = f[y] + (f[e] + rest) /\ part = f[y] + rest /\ whole # f[e] + part
    BY <1>4, <1>7, <1>11, <1>12
  <1>14. f[e] \in Int /\ f[y] \in Int /\ rest \in Int
    BY <1>10
  <1> HIDE DEF rest, whole, part, y
  <1> QED BY <1>13, <1>14

\* Two sums whose terms keep pace keep pace: what each pair of terms may differ by,
\* once per element, bounds what the sums differ by.
LEMMA TotalsKeepPace ==
  ASSUME NEW f, NEW g, NEW S, IsFiniteSet(S), NEW n \in Nat, NEW m \in Nat,
         \A x \in S : /\ f[x] \in Int /\ g[x] \in Int
                      /\ n * f[x] - g[x] <= m /\ g[x] - n * f[x] <= m
  PROVE  /\ n * Total(f, S) - Total(g, S) <= m * Cardinality(S)
         /\ Total(g, S) - n * Total(f, S) <= m * Cardinality(S)
  <1> DEFINE Close(T) == /\ n * Total(f, T) - Total(g, T) <= m * Cardinality(T)
                         /\ Total(g, T) - n * Total(f, T) <= m * Cardinality(T)
             B == {T \in SUBSET S : ~Close(T)}
  <1>1. SUFFICES ASSUME B # {} PROVE FALSE
    OBVIOUS
  <1>2. PICK T \in B : IsFiniteSet(T) /\ \A V \in B : ~(V \subseteq T /\ V # T)
    <2>1. B \in SUBSET SUBSET S
      OBVIOUS
    <2> HIDE DEF B
    <2> QED BY <1>1, <2>1, SmallestSet
  <1>3. T \in SUBSET S /\ ~Close(T)
    OBVIOUS
  <1>4. T # {}
    <2>1. Total(f, {}) = 0 /\ Total(g, {}) = 0 /\ Cardinality({}) = 0
      BY TotalUnfolds, FS_EmptySet
    <2>2. n * 0 = 0 /\ m * 0 = 0
      OBVIOUS
    <2>3. Close({})
      BY <2>1, <2>2
    <2> QED BY <1>3, <2>3
  <1> DEFINE y == Taken(T)
             R == T \ {y}
  <1>5. y \in T /\ Total(f, T) = f[y] + Total(f, R) /\ Total(g, T) = g[y] + Total(g, R)
    BY <1>2, <1>4, TakenIsElement, TotalUnfolds
  <1>6. R \in SUBSET S /\ R \subseteq T /\ R # T /\ IsFiniteSet(R)
    BY <1>2, <1>3, <1>5, FS_Subset
  <1>7. Close(R)
    BY <1>2, <1>6
  <1>8. Total(f, R) \in Int /\ Total(g, R) \in Int
    BY <1>6, TotalIsInt
  <1>9. Cardinality(T) = Cardinality(R) + 1 /\ Cardinality(R) \in Nat
    BY <1>2, <1>5, <1>6, FS_RemoveElement, FS_CardinalityType
  <1>10. /\ f[y] \in Int /\ g[y] \in Int
         /\ n * f[y] - g[y] <= m /\ g[y] - n * f[y] <= m
    BY <1>3, <1>5
  <1>11. ASSUME NEW a \in Int, NEW b \in Int, NEW p \in Int, NEW q \in Int, NEW c \in Nat,
                n * a - b <= m, b - n * a <= m, n * p - q <= m * c, q - n * p <= m * c
         PROVE  /\ n * (a + p) - (b + q) <= m * (c + 1)
                /\ (b + q) - n * (a + p) <= m * (c + 1)
    <2>1. n * (a + p) = n * a + n * p /\ m * (c + 1) = m * c + m
      OBVIOUS
    <2> QED BY <1>11, <2>1
  <1>12. Close(T)
    BY <1>5, <1>7, <1>8, <1>9, <1>10, <1>11
  <1> QED BY <1>3, <1>12
===============================================================================
