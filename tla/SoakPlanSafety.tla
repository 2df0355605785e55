---------------------------- MODULE SoakPlanSafety ----------------------------
(***************************************************************************)
(* Proofs that a plan that may be activated covers its worst case.  The    *)
(* arithmetic of the plan saturates and remembers that it did, so a total  *)
(* without an overflow is the sum (TotalSum).  An estimate is the value at *)
(* a place of the sorted samples (NearestRank).  The retry budget is spent *)
(* on the costliest partitions first; any other way to place as many       *)
(* retries costs no more, for each takes the place of one that is at least *)
(* as costly (CostliestFirst, SpendCovers).  Sums are folds, and the facts *)
(* about them are proved by induction over the subsets of a finite set     *)
(* (EverySubset).                                                          *)
(***************************************************************************)
EXTENDS SoakPlan, FiniteSetTheorems, WellFoundedInduction, TLAPS

-----------------------------------------------------------------------------
(* Induction, for a set in place of a predicate.                           *)

\* A set that holds 0 and the successor of each of its numbers holds them all.
LEMMA EveryNumber ==
    ASSUME NEW P, 0 \in P, \A n \in Nat : n \in P => n + 1 \in P
    PROVE  \A n \in Nat : n \in P
<1> DEFINE T == Nat \ P
           R == OpToRel(<, Nat)
<1>1. SUFFICES ASSUME T # {} PROVE FALSE
  OBVIOUS
<1>2. T \subseteq Nat
  OBVIOUS
<1>3. PICK x \in T : \A y \in T : ~ (<<y, x>> \in R)
  BY <1>1, <1>2, NatLessThanWellFounded, WFMin
<1>4. x \in Nat /\ x # 0 /\ x \notin P
  BY <1>3
<1>5. x - 1 \in Nat /\ x - 1 < x /\ (x - 1) + 1 = x
  BY <1>4
<1>6. <<x - 1, x>> \in R
  BY <1>4, <1>5 DEF OpToRel
<1>7. x - 1 \in P
  BY <1>3, <1>5, <1>6
<1> QED BY <1>4, <1>5, <1>7

\* The same for the subsets of a finite set, which grow by one element.
LEMMA EverySubset ==
    ASSUME NEW S, IsFiniteSet(S), NEW P, {} \in P,
           \A T \in SUBSET S : \A x \in S \ T : T \in P => T \cup {x} \in P
    PROVE  \A T \in SUBSET S : T \in P
<1> DEFINE Q == {n \in Nat : \A T \in SUBSET S : Cardinality(T) = n => T \in P}
<1>1. \A T \in SUBSET S : IsFiniteSet(T) /\ Cardinality(T) \in Nat
  BY FS_Subset, FS_CardinalityType
<1>2. 0 \in Q
  BY <1>1, FS_EmptySet
<1>3. ASSUME NEW n \in Nat, n \in Q PROVE n + 1 \in Q
  <2>1. SUFFICES ASSUME NEW T \in SUBSET S, Cardinality(T) = n + 1 PROVE T \in P
    BY <1>3
  <2>2. IsFiniteSet(T)
    BY <1>1
  <2>3. T # {}
    BY <1>3, <2>1, FS_EmptySet
  <2>4. PICK x : x \in T
    BY <2>3
  <2>5. Cardinality(T \ {x}) = n
    <3>1. Cardinality(T \ {x}) = Cardinality(T) - 1
      BY <2>2, <2>4, FS_RemoveElement
    <3>2. n \in Nat
      BY <1>3
    <3> HIDE DEF Q
    <3> QED BY <2>1, <3>1, <3>2
  <2>6. T \ {x} \in P
    BY <1>3, <2>5
  <2>7. T = (T \ {x}) \cup {x}
    BY <2>4
  <2> QED BY <2>4, <2>6, <2>7
<1>4. \A n \in Nat : n \in Q
  <2> HIDE DEF Q
  <2> QED BY <1>2, <1>3, EveryNumber
<1> QED BY <1>1, <1>4

\* A subset of 1..n that is not empty has a greatest member.
LEMMA Greatest ==
    ASSUME NEW n \in Nat, NEW S \in SUBSET (1..n), S # {}
    PROVE  Max(S) \in S /\ \A x \in S : x <= Max(S)
<1> DEFINE T == {k \in Nat : n - k \in S}
           R == OpToRel(<, Nat)
<1>1. PICK s : s \in S
  OBVIOUS
<1>2. s \in Int /\ s <= n
  BY <1>1
<1>3. n - s \in Nat /\ n - (n - s) = s
  BY <1>2
<1>4. n - s \in T
  BY <1>1, <1>3
<1>5. PICK k \in T : \A y \in T : ~ (<<y, k>> \in R)
  BY <1>4, NatLessThanWellFounded, WFMin
<1> HIDE DEF R
<1>6. k \in Nat
  BY <1>5
<1>7. ASSUME NEW x \in S PROVE x <= n - k
  <2>1. x \in Int /\ x <= n
    OBVIOUS
  <2>2. n - x \in Nat /\ n - (n - x) = x
    BY <2>1
  <2>3. n - x \in T
    BY <2>2
  <2>4. ~ (n - x < k)
    BY <1>5, <1>6, <2>2, <2>3 DEF OpToRel, R
  <2> HIDE DEF T
  <2> QED BY <1>6, <2>1, <2>4
<1>8. n - k \in S /\ \A x \in S : n - k >= x
  <2>1. \A x \in S : x \in Int
    OBVIOUS
  <2> QED BY <1>5, <1>7, <2>1
<1> QED BY <1>8 DEF Max

-----------------------------------------------------------------------------
(* Folds over the subsets of a finite set.                                 *)

\* F answers the recursion by which Folds defines a fold, with values in V.
Answers(F, S, V, base, step, pick) ==
    /\ F \in [SUBSET S -> V]
    /\ \A s \in SUBSET S :
        F[s] = IF s = {} THEN base ELSE step[pick[s]][F[s \ {pick[s]}]]

\* That recursion has a solution.
LEMMA FoldExists ==
    ASSUME NEW S, IsFiniteSet(S), NEW V, NEW base \in V,
           NEW step, \A x \in S : \A v \in V : step[x][v] \in V,
           NEW pick, \A s \in SUBSET S : s # {} => pick[s] \in s
    PROVE  \E F : Answers(F, S, V, base, step, pick)
<1> DEFINE Follows(F, s) ==
                F[s] = IF s = {} THEN base ELSE step[pick[s]][F[s \ {pick[s]}]]
           Small(n) == {s \in SUBSET S : Cardinality(s) <= n}
           P == {n \in Nat : \E F \in [SUBSET S -> V] : \A s \in Small(n) : Follows(F, s)}
<1>1. \A s \in SUBSET S : IsFiniteSet(s) /\ Cardinality(s) \in Nat
  BY FS_Subset, FS_CardinalityType
<1>2. \A s \in SUBSET S : s # {} =>
        s \ {pick[s]} \in SUBSET S /\ Cardinality(s \ {pick[s]}) = Cardinality(s) - 1
  BY <1>1, FS_RemoveElement
<1>3. 0 \in P
  <2>1. \A s \in Small(0) : s = {}
    BY <1>1, FS_EmptySet
  <2> DEFINE F == [s \in SUBSET S |-> base]
  <2>2. F \in [SUBSET S -> V] /\ \A s \in Small(0) : Follows(F, s)
    BY <2>1
  <2> QED BY <2>2
<1>4. ASSUME NEW n \in Nat, n \in P PROVE n + 1 \in P
  <2>1. PICK F \in [SUBSET S -> V] : \A s \in Small(n) : Follows(F, s)
    BY <1>4
  <2> DEFINE G == [s \in SUBSET S |->
                      IF s \in Small(n) THEN F[s]
                      ELSE IF s = {} THEN base ELSE step[pick[s]][F[s \ {pick[s]}]]]
  <2>2. G \in [SUBSET S -> V]
    <3>1. ASSUME NEW s \in SUBSET S, s # {} PROVE step[pick[s]][F[s \ {pick[s]}]] \in V
      <4>1. pick[s] \in S /\ F[s \ {pick[s]}] \in V
        BY <1>2, <3>1
      <4> QED BY <4>1
    <3> QED BY <3>1
  <2>3. ASSUME NEW s \in Small(n + 1), s # {}
        PROVE  s \ {pick[s]} \in Small(n)
    <3>1. Cardinality(s) \in Nat /\ Cardinality(s) <= n + 1
      BY <1>1
    <3>2. Cardinality(s \ {pick[s]}) = Cardinality(s) - 1
      BY <1>2, <2>3
    <3>3. Cardinality(s \ {pick[s]}) <= n
      <4> HIDE DEF P, G, Small
      <4> QED BY <3>1, <3>2
    <3> QED BY <1>2, <2>3, <3>3
  <2>4. ASSUME NEW s \in Small(n + 1) PROVE Follows(G, s)
    <3>1. s \in SUBSET S
      OBVIOUS
    <3>2. CASE s = {}
      <4>1. s \in Small(n) => Follows(F, s)
        BY <2>1
      <4> QED BY <3>1, <3>2, <4>1
    <3>3. CASE s # {}
      <4>1. s \ {pick[s]} \in Small(n)
        BY <2>3, <3>3
      <4>2. G[s \ {pick[s]}] = F[s \ {pick[s]}]
        BY <4>1
      <4>3. s \in Small(n) => Follows(F, s)
        BY <2>1
      <4> QED BY <3>1, <3>3, <4>2, <4>3
    <3> QED BY <3>2, <3>3
  <2>5. \E H \in [SUBSET S -> V] : \A s \in Small(n + 1) : Follows(H, s)
    <3> HIDE DEF G, Follows, Small
    <3> QED BY <2>2, <2>4
  <2>6. n + 1 \in Nat
    OBVIOUS
  <2> QED BY <2>5, <2>6
<1>5. Cardinality(S) \in P
  <2>1. \A n \in Nat : n \in P
    <3> HIDE DEF P
    <3> QED BY <1>3, <1>4, EveryNumber
  <2> QED BY <2>1, FS_CardinalityType
<1>6. PICK F \in [SUBSET S -> V] : \A s \in Small(Cardinality(S)) : Follows(F, s)
  BY <1>5
<1>7. \A s \in SUBSET S : s \in Small(Cardinality(S))
  BY FS_Subset
<1> QED BY <1>6, <1>7 DEF Answers

AnyOf(s) == CHOOSE x \in s : TRUE

\* F says of every subset of S what the values of f add up to there.
SumsOver(F, f, S) ==
    \A s \in SUBSET S :
        F[s] = IF s = {} THEN 0 ELSE f[AnyOf(s)] + F[s \ {AnyOf(s)}]

\* There are no two answers to that.
LEMMA AddsOnce ==
    ASSUME NEW S, IsFiniteSet(S), NEW f, NEW F, NEW G, SumsOver(F, f, S), SumsOver(G, f, S)
    PROVE  F[S] = G[S]
<1> DEFINE P == {n \in Nat : \A s \in SUBSET S : Cardinality(s) = n => F[s] = G[s]}
<1>1. \A s \in SUBSET S : IsFiniteSet(s) /\ Cardinality(s) \in Nat
  BY FS_Subset, FS_CardinalityType
<1>2. 0 \in P
  BY <1>1, FS_EmptySet DEF SumsOver
<1>3. ASSUME NEW n \in Nat, n \in P PROVE n + 1 \in P
  <2>1. SUFFICES ASSUME NEW s \in SUBSET S, Cardinality(s) = n + 1 PROVE F[s] = G[s]
    BY <1>3
  <2>2. PICK x : x = AnyOf(s)
    OBVIOUS
  <2>3. s # {}
    <3>1. Cardinality(s) # 0
      <4> HIDE DEF P
      <4> QED BY <2>1
    <3> QED BY <3>1, FS_EmptySet
  <2>4. x \in s
    BY <2>2, <2>3 DEF AnyOf
  <2>5. Cardinality(s \ {x}) = Cardinality(s) - 1
    BY <1>1, <2>4, FS_RemoveElement
  <2>6. Cardinality(s \ {x}) = n
    <3> HIDE DEF P
    <3> QED BY <2>1, <2>5
  <2>7. F[s \ {x}] = G[s \ {x}]
    BY <1>3, <2>6
  <2> QED BY <2>2, <2>3, <2>7 DEF SumsOver
<1>4. \A n \in Nat : n \in P
  <2> HIDE DEF P
  <2> QED BY <1>2, <1>3, EveryNumber
<1> QED BY <1>1, <1>4

-----------------------------------------------------------------------------
(* Sums over finite sets.                                                  *)

LEMMA SumIsAdded ==
    ASSUME NEW S, IsFiniteSet(S), NEW f, \A x \in S : f[x] \in Int
    PROVE  \E F \in [SUBSET S -> Int] : SumsOver(F, f, S) /\ SumFunctionOnSet(f, S) = F[S]
<1> DEFINE Rest(F, s) == IF s = {} THEN 0
                         ELSE f[AnyOf(s)] + F[s \ {AnyOf(s)}]
           chosen == CHOOSE F : F = [s \in SUBSET S |-> Rest(F, s)]
           step == [x \in S |-> [v \in Int |-> f[x] + v]]
           pick == [s \in SUBSET S |-> AnyOf(s)]
<1>1. SumFunctionOnSet(f, S) = chosen[S]
  BY DEF SumFunctionOnSet, FoldFunctionOnSet, MapThenFoldSet, AnyOf
<1>2. PICK F : Answers(F, S, Int, 0, step, pick)
  <2>1. \A x \in S : \A v \in Int : step[x][v] \in Int
    OBVIOUS
  <2>2. \A s \in SUBSET S : s # {} => pick[s] \in s
    BY DEF AnyOf
  <2>3. 0 \in Int
    OBVIOUS
  <2> HIDE DEF step, pick, chosen, Rest
  <2> QED BY <2>1, <2>2, <2>3, FoldExists
<1>3. ASSUME NEW s \in SUBSET S PROVE F[s] = Rest(F, s)
  <2>1. CASE s = {}
    BY <1>2, <2>1 DEF Answers
  <2>2. CASE s # {}
    <3>1. pick[s] = AnyOf(s) /\ pick[s] \in S
      BY <2>2 DEF AnyOf
    <3>2. s \ {pick[s]} \in SUBSET S
      OBVIOUS
    <3>3. F[s \ {pick[s]}] \in Int
      BY <1>2, <3>2 DEF Answers
    <3>4. step[pick[s]][F[s \ {pick[s]}]] = f[pick[s]] + F[s \ {pick[s]}]
      BY <3>1, <3>3
    <3> QED BY <1>2, <2>2, <3>1, <3>4 DEF Answers
  <2> QED BY <2>1, <2>2
<1>4. F = [s \in SUBSET S |-> Rest(F, s)]
  <2>1. F \in [SUBSET S -> Int]
    BY <1>2 DEF Answers
  <2> HIDE DEF Rest
  <2> QED BY <1>3, <2>1
<1>5. chosen = [s \in SUBSET S |-> Rest(chosen, s)]
  BY <1>4
<1>6. SumsOver(F, f, S) /\ SumsOver(chosen, f, S)
  <2>1. ASSUME NEW s \in SUBSET S PROVE chosen[s] = Rest(chosen, s)
    <3> HIDE DEF chosen, Rest
    <3> QED BY <1>5
  <2> HIDE DEF chosen
  <2> QED BY <1>3, <2>1 DEF SumsOver
<1>7. chosen[S] = F[S]
  <2> HIDE DEF chosen
  <2> QED BY <1>6, AddsOnce
<1> QED BY <1>1, <1>2, <1>6, <1>7 DEF Answers

LEMMA SumEmpty == \A f : SumFunctionOnSet(f, {}) = 0
<1> TAKE f
<1>1. PICK F : SumsOver(F, f, {}) /\ SumFunctionOnSet(f, {}) = F[{}]
  BY SumIsAdded, FS_EmptySet
<1> QED BY <1>1 DEF SumsOver

LEMMA SumChosen ==
    ASSUME NEW S, IsFiniteSet(S), S # {}, NEW f, \A x \in S : f[x] \in Int,
           NEW x, x = AnyOf(S)
    PROVE  SumFunctionOnSet(f, S) = f[x] + SumFunctionOnSet(f, S \ {x})
<1>1. PICK F \in [SUBSET S -> Int] : SumsOver(F, f, S) /\ SumFunctionOnSet(f, S) = F[S]
  BY SumIsAdded
<1>2. IsFiniteSet(S \ {x}) /\ \A y \in S \ {x} : f[y] \in Int
  BY FS_RemoveElement
<1>3. \E G \in [SUBSET (S \ {x}) -> Int] :
        SumsOver(G, f, S \ {x}) /\ SumFunctionOnSet(f, S \ {x}) = G[S \ {x}]
  <2> DEFINE T == S \ {x}
  <2> HIDE DEF T
  <2>1. IsFiniteSet(T) /\ \A y \in T : f[y] \in Int
    BY <1>2 DEF T
  <2>2. \E G \in [SUBSET T -> Int] : SumsOver(G, f, T) /\ SumFunctionOnSet(f, T) = G[T]
    BY <2>1, SumIsAdded
  <2> QED BY <2>2 DEF T
<1>4. SumsOver(F, f, S \ {x})
  BY <1>1 DEF SumsOver
<1>5. SumFunctionOnSet(f, S \ {x}) = F[S \ {x}]
  BY <1>2, <1>3, <1>4, AddsOnce
<1> QED BY <1>1, <1>5 DEF SumsOver

\* A sum of integers is one.
LEMMA SumInt ==
    ASSUME NEW S, IsFiniteSet(S), NEW f, \A x \in S : f[x] \in Int
    PROVE  SumFunctionOnSet(f, S) \in Int
<1>1. PICK F \in [SUBSET S -> Int] : SumFunctionOnSet(f, S) = F[S]
  BY SumIsAdded
<1> QED BY <1>1

\* Any element can be taken out of a sum.
LEMMA SumRemove ==
    ASSUME NEW S, IsFiniteSet(S), NEW f, \A x \in S : f[x] \in Int, NEW e \in S
    PROVE  SumFunctionOnSet(f, S) = f[e] + SumFunctionOnSet(f, S \ {e})
<1> DEFINE Sum(T) == SumFunctionOnSet(f, T)
           P == {n \in Nat : \A T \in SUBSET S : Cardinality(T) = n =>
                                \A x \in T : Sum(T) = f[x] + Sum(T \ {x})}
<1> HIDE DEF Sum
<1>1. \A T \in SUBSET S : IsFiniteSet(T) /\ Cardinality(T) \in Nat /\ Sum(T) \in Int
  BY FS_Subset, FS_CardinalityType, SumInt DEF Sum
<1>2. 0 \in P
  BY <1>1, FS_EmptySet
<1>3. ASSUME NEW n \in Nat, n \in P PROVE n + 1 \in P
  <2>1. SUFFICES ASSUME NEW T \in SUBSET S, Cardinality(T) = n + 1, NEW x \in T
                 PROVE  Sum(T) = f[x] + Sum(T \ {x})
    BY <1>3
  <2>2. PICK y : y = AnyOf(T)
    OBVIOUS
  <2>3. y \in T
    BY <2>2 DEF AnyOf
  <2>4. Sum(T) = f[y] + Sum(T \ {y})
    <3>1. IsFiniteSet(T) /\ T # {} /\ \A z \in T : f[z] \in Int
      BY <1>1
    <3> HIDE DEF P
    <3> QED BY <2>2, <3>1, SumChosen DEF Sum
  <2>5. CASE x # y
    <3>1. Cardinality(T \ {y}) = n /\ Cardinality(T \ {x}) = n
      <4>1. /\ Cardinality(T \ {y}) = Cardinality(T) - 1
            /\ Cardinality(T \ {x}) = Cardinality(T) - 1
        BY <1>1, <2>3, FS_RemoveElement
      <4> HIDE DEF P
      <4> QED BY <2>1, <4>1
    <3>2. Sum(T \ {y}) = f[x] + Sum((T \ {y}) \ {x})
      BY <1>3, <2>5, <3>1
    <3>3. Sum(T \ {x}) = f[y] + Sum((T \ {x}) \ {y})
      BY <1>3, <2>3, <2>5, <3>1
    <3>4. (T \ {y}) \ {x} = (T \ {x}) \ {y}
      OBVIOUS
    <3>5. f[x] \in Int /\ f[y] \in Int /\ Sum((T \ {x}) \ {y}) \in Int
      BY <1>1, <2>3
    <3>6. Sum((T \ {y}) \ {x}) = Sum((T \ {x}) \ {y})
      BY <3>4
    <3> QED BY ONLY <2>4, <3>2, <3>3, <3>5, <3>6
  <2> QED BY <2>4, <2>5
<1>4. \A n \in Nat : n \in P
  <2> HIDE DEF P
  <2> QED BY <1>2, <1>3, EveryNumber
<1>5. Sum(S) = f[e] + Sum(S \ {e})
  BY <1>1, <1>4
<1> QED BY <1>5 DEF Sum

\* What does not grow anywhere has no greater sum; in particular equal values have
\* equal sums.
LEMMA SumMonotone ==
    ASSUME NEW S, IsFiniteSet(S), NEW f, NEW g,
           \A x \in S : f[x] \in Int /\ g[x] \in Int /\ f[x] <= g[x]
    PROVE  SumFunctionOnSet(f, S) <= SumFunctionOnSet(g, S)
<1> DEFINE P == {T \in SUBSET S : SumFunctionOnSet(f, T) <= SumFunctionOnSet(g, T)}
<1>1. {} \in P
  BY SumEmpty
<1>2. ASSUME NEW T \in SUBSET S, NEW x \in S \ T, T \in P PROVE T \cup {x} \in P
  <2>1. IsFiniteSet(T) /\ IsFiniteSet(T \cup {x}) /\ T \cup {x} \in SUBSET S
    BY FS_Subset
  <2>2. SumFunctionOnSet(f, T) \in Int /\ SumFunctionOnSet(g, T) \in Int
    BY <2>1, SumInt
  <2>3. (T \cup {x}) \ {x} = T
    BY <1>2
  <2>4. /\ SumFunctionOnSet(f, T \cup {x}) = f[x] + SumFunctionOnSet(f, T)
        /\ SumFunctionOnSet(g, T \cup {x}) = g[x] + SumFunctionOnSet(g, T)
    BY <2>1, <2>3, SumRemove
  <2>5. SumFunctionOnSet(f, T) <= SumFunctionOnSet(g, T) /\ f[x] <= g[x]
        /\ f[x] \in Int /\ g[x] \in Int
    BY <1>2
  <2>6. SumFunctionOnSet(f, T \cup {x}) <= SumFunctionOnSet(g, T \cup {x})
    BY ONLY <2>2, <2>4, <2>5
  <2> QED BY <2>1, <2>6
<1>3. \A T \in SUBSET S : T \in P
  <2> HIDE DEF P
  <2> QED BY <1>1, <1>2, EverySubset
<1> QED BY <1>3

LEMMA SumAgree ==
    ASSUME NEW S, IsFiniteSet(S), NEW f, NEW g, \A x \in S : f[x] \in Int /\ f[x] = g[x]
    PROVE  SumFunctionOnSet(f, S) = SumFunctionOnSet(g, S)
<1>1. \A x \in S : f[x] \in Int /\ g[x] \in Int /\ f[x] <= g[x] /\ g[x] <= f[x]
  OBVIOUS
<1>2. /\ SumFunctionOnSet(f, S) <= SumFunctionOnSet(g, S)
      /\ SumFunctionOnSet(g, S) <= SumFunctionOnSet(f, S)
  BY <1>1, SumMonotone
<1>3. SumFunctionOnSet(f, S) \in Int /\ SumFunctionOnSet(g, S) \in Int
  BY <1>1, SumInt
<1> QED BY <1>2, <1>3

\* A part of a sum without negative values is no greater than the whole.
LEMMA SumOfPart ==
    ASSUME NEW S, IsFiniteSet(S), NEW f, \A x \in S : f[x] \in Int /\ f[x] >= 0,
           NEW T \in SUBSET S
    PROVE  0 <= SumFunctionOnSet(f, T) /\ SumFunctionOnSet(f, T) <= SumFunctionOnSet(f, S)
<1> DEFINE Part == {U \in SUBSET T : 0 <= SumFunctionOnSet(f, U)}
           Rest == {U \in SUBSET S : SumFunctionOnSet(f, U \cap T) <= SumFunctionOnSet(f, U)}
<1>1. \A U \in SUBSET S : IsFiniteSet(U) /\ SumFunctionOnSet(f, U) \in Int
  BY FS_Subset, SumInt
<1>2. ASSUME NEW U \in SUBSET S, NEW x \in S \ U
      PROVE  SumFunctionOnSet(f, U \cup {x}) = f[x] + SumFunctionOnSet(f, U)
  <2>1. IsFiniteSet(U \cup {x}) /\ (\A y \in U \cup {x} : f[y] \in Int) /\ x \in U \cup {x}
    BY <1>1
  <2>2. (U \cup {x}) \ {x} = U
    OBVIOUS
  <2> QED BY <2>1, <2>2, SumRemove
<1>3. \A U \in SUBSET T : U \in Part
  <2>1. {} \in Part
    BY SumEmpty
  <2>2. ASSUME NEW U \in SUBSET T, NEW x \in T \ U, U \in Part PROVE U \cup {x} \in Part
    <3>1. SumFunctionOnSet(f, U \cup {x}) = f[x] + SumFunctionOnSet(f, U)
      BY <1>2
    <3>2. f[x] \in Int /\ f[x] >= 0 /\ SumFunctionOnSet(f, U) \in Int
      BY <1>1
    <3>3. 0 <= SumFunctionOnSet(f, U)
      BY <2>2
    <3>4. 0 <= SumFunctionOnSet(f, U \cup {x})
      BY ONLY <3>1, <3>2, <3>3
    <3> QED BY <3>4
  <2>3. IsFiniteSet(T)
    BY <1>1
  <2> HIDE DEF Part
  <2> QED BY <2>1, <2>2, <2>3, EverySubset
<1>4. \A U \in SUBSET S : U \in Rest
  <2>1. {} \in Rest
    <3>1. {} \cap T = {}
      OBVIOUS
    <3> QED BY <3>1, SumEmpty
  <2>2. ASSUME NEW U \in SUBSET S, NEW x \in S \ U, U \in Rest PROVE U \cup {x} \in Rest
    <3>1. SumFunctionOnSet(f, U \cup {x}) = f[x] + SumFunctionOnSet(f, U)
      BY <1>2
    <3>2. f[x] \in Int /\ f[x] >= 0
      OBVIOUS
    <3>3. SumFunctionOnSet(f, U \cap T) <= SumFunctionOnSet(f, U)
      BY <2>2
    <3>4. SumFunctionOnSet(f, U \cap T) \in Int /\ SumFunctionOnSet(f, U) \in Int
      <4>1. U \cap T \in SUBSET S
        OBVIOUS
      <4> QED BY <1>1, <4>1
    <3>5. \/ SumFunctionOnSet(f, (U \cup {x}) \cap T) = SumFunctionOnSet(f, U \cap T)
          \/ SumFunctionOnSet(f, (U \cup {x}) \cap T) = f[x] + SumFunctionOnSet(f, U \cap T)
      <4>1. CASE x \in T
        <5>1. (U \cup {x}) \cap T = (U \cap T) \cup {x}
          BY <4>1
        <5>2. U \cap T \in SUBSET S /\ x \in S \ (U \cap T)
          OBVIOUS
        <5>3. SumFunctionOnSet(f, (U \cap T) \cup {x}) = f[x] + SumFunctionOnSet(f, U \cap T)
          BY <1>2, <5>2
        <5> QED BY <5>1, <5>3
      <4>2. CASE x \notin T
        <5>1. (U \cup {x}) \cap T = U \cap T
          BY <4>2
        <5> QED BY <5>1
      <4> QED BY <4>1, <4>2
    <3>6. SumFunctionOnSet(f, (U \cup {x}) \cap T) <= SumFunctionOnSet(f, U \cup {x})
      BY ONLY <3>1, <3>2, <3>3, <3>4, <3>5
    <3> QED BY <3>6
  <2> HIDE DEF Rest
  <2> QED BY <2>1, <2>2, EverySubset
<1>5. T \in Part /\ S \in Rest /\ S \cap T = T
  BY <1>3, <1>4
<1> QED BY <1>5

\* The sum of two functions' sums.
LEMMA SumPlus ==
    ASSUME NEW S, IsFiniteSet(S), NEW f, NEW g, NEW h,
           \A x \in S : f[x] \in Int /\ g[x] \in Int /\ h[x] = f[x] + g[x]
    PROVE  SumFunctionOnSet(h, S) = SumFunctionOnSet(f, S) + SumFunctionOnSet(g, S)
<1> DEFINE P == {T \in SUBSET S :
                    SumFunctionOnSet(h, T) = SumFunctionOnSet(f, T) + SumFunctionOnSet(g, T)}
<1>1. {} \in P
  BY SumEmpty
<1>2. ASSUME NEW T \in SUBSET S, NEW x \in S \ T, T \in P PROVE T \cup {x} \in P
  <2>1. IsFiniteSet(T) /\ IsFiniteSet(T \cup {x}) /\ T \cup {x} \in SUBSET S
    BY FS_Subset
  <2>2. SumFunctionOnSet(f, T) \in Int /\ SumFunctionOnSet(g, T) \in Int
    BY <2>1, SumInt
  <2>3. (T \cup {x}) \ {x} = T
    BY <1>2
  <2>4. \A y \in T \cup {x} : f[y] \in Int /\ g[y] \in Int /\ h[y] \in Int
    OBVIOUS
  <2>5. /\ SumFunctionOnSet(f, T \cup {x}) = f[x] + SumFunctionOnSet(f, T)
        /\ SumFunctionOnSet(g, T \cup {x}) = g[x] + SumFunctionOnSet(g, T)
        /\ SumFunctionOnSet(h, T \cup {x}) = h[x] + SumFunctionOnSet(h, T)
    BY <2>1, <2>3, <2>4, SumRemove
  <2>6. /\ SumFunctionOnSet(h, T) = SumFunctionOnSet(f, T) + SumFunctionOnSet(g, T)
        /\ h[x] = f[x] + g[x] /\ f[x] \in Int /\ g[x] \in Int
    BY <1>2
  <2>7. SumFunctionOnSet(h, T \cup {x}) =
            SumFunctionOnSet(f, T \cup {x}) + SumFunctionOnSet(g, T \cup {x})
    BY ONLY <2>2, <2>5, <2>6
  <2> QED BY <2>1, <2>7
<1>3. \A T \in SUBSET S : T \in P
  <2> HIDE DEF P
  <2> QED BY <1>1, <1>2, EverySubset
<1> QED BY <1>3

\* Nothing adds up to nothing.
LEMMA SumZero ==
    ASSUME NEW S, IsFiniteSet(S), NEW f, \A x \in S : f[x] = 0
    PROVE  SumFunctionOnSet(f, S) = 0
<1>1. \A x \in S : f[x] \in Int /\ f[x] = f[x] + f[x]
  OBVIOUS
<1>2. SumFunctionOnSet(f, S) \in Int
  BY <1>1, SumInt
<1>3. SumFunctionOnSet(f, S) = SumFunctionOnSet(f, S) + SumFunctionOnSet(f, S)
  BY <1>1, SumPlus
<1>4. PICK n \in Int : n = SumFunctionOnSet(f, S)
  BY <1>2
<1>5. n = n + n
  BY <1>3, <1>4
<1>6. n = 0
  BY ONLY <1>5, n \in Int
<1> QED BY <1>4, <1>6

\* What grows along an injection, into values that are not negative, has a greater sum.
LEMMA SumInjective ==
    ASSUME NEW S, IsFiniteSet(S), NEW T, IsFiniteSet(T), NEW f, NEW g, NEW h,
           \A x \in S : h[x] \in T /\ f[x] \in Int /\ f[x] <= g[h[x]],
           \A x \in S : \A y \in S : h[x] = h[y] => x = y,
           \A z \in T : g[z] \in Int /\ g[z] >= 0
    PROVE  SumFunctionOnSet(f, S) <= SumFunctionOnSet(g, T)
<1> DEFINE Image(U) == {h[x] : x \in U}
           P == {U \in SUBSET S : SumFunctionOnSet(f, U) <= SumFunctionOnSet(g, Image(U))}
<1>1. ASSUME NEW U \in SUBSET S
      PROVE  /\ IsFiniteSet(U) /\ Image(U) \in SUBSET T /\ IsFiniteSet(Image(U))
             /\ SumFunctionOnSet(f, U) \in Int /\ SumFunctionOnSet(g, Image(U)) \in Int
  <2>1. Image(U) \in SUBSET T
    OBVIOUS
  <2>2. IsFiniteSet(U) /\ IsFiniteSet(Image(U))
    BY <2>1, FS_Subset
  <2>3. (\A x \in U : f[x] \in Int) /\ (\A z \in Image(U) : g[z] \in Int)
    BY <2>1
  <2> HIDE DEF Image
  <2> QED BY <2>1, <2>2, <2>3, SumInt
<1>2. {} \in P
  <2>1. Image({}) = {}
    OBVIOUS
  <2> QED BY <2>1, SumEmpty
<1>3. ASSUME NEW U \in SUBSET S, NEW x \in S \ U, U \in P PROVE U \cup {x} \in P
  <2>1. U \cup {x} \in SUBSET S
    OBVIOUS
  <2>2. Image(U \cup {x}) = Image(U) \cup {h[x]} /\ h[x] \notin Image(U)
    BY <1>3
  <2>3. /\ (U \cup {x}) \ {x} = U
        /\ (Image(U) \cup {h[x]}) \ {h[x]} = Image(U)
    BY <1>3, <2>2
  <2>4. SumFunctionOnSet(f, U) <= SumFunctionOnSet(g, Image(U))
    BY <1>3
  <2>5. f[x] \in Int /\ g[h[x]] \in Int /\ f[x] <= g[h[x]]
    OBVIOUS
  <2>6. /\ IsFiniteSet(U \cup {x}) /\ \A y \in U \cup {x} : f[y] \in Int
        /\ IsFiniteSet(Image(U) \cup {h[x]}) /\ \A z \in Image(U) \cup {h[x]} : g[z] \in Int
    BY <1>1, <2>1, <2>2
  <2>7. /\ SumFunctionOnSet(f, U) \in Int /\ SumFunctionOnSet(g, Image(U)) \in Int
    BY <1>1
  <2>8. SumFunctionOnSet(f, U \cup {x}) = f[x] + SumFunctionOnSet(f, U)
    BY <2>3, <2>6, SumRemove
  <2> DEFINE V == Image(U)
  <2> HIDE DEF V, Image
  <2>9. SumFunctionOnSet(g, V \cup {h[x]}) = g[h[x]] + SumFunctionOnSet(g, V)
    BY <2>3, <2>6, SumRemove DEF V
  <2>10. SumFunctionOnSet(f, U \cup {x}) <= SumFunctionOnSet(g, V \cup {h[x]})
    BY ONLY <2>4, <2>5, <2>7, <2>8, <2>9 DEF V
  <2> QED BY <2>1, <2>2, <2>10 DEF V
<1>4. S \in P
  <2> HIDE DEF P
  <2> QED BY <1>2, <1>3, EverySubset
<1>5. 0 <= SumFunctionOnSet(g, Image(S)) /\ SumFunctionOnSet(g, Image(S)) <= SumFunctionOnSet(g, T)
  <2>1. Image(S) \in SUBSET T
    BY <1>1
  <2> HIDE DEF Image
  <2> QED BY <2>1, SumOfPart
<1>6. SumFunctionOnSet(g, T) \in Int
  BY SumInt
<1>7. SumFunctionOnSet(f, S) <= SumFunctionOnSet(g, Image(S))
      /\ SumFunctionOnSet(f, S) \in Int /\ SumFunctionOnSet(g, Image(S)) \in Int
  BY <1>1, <1>4
<1> HIDE DEF Image
<1> QED BY ONLY <1>5, <1>6, <1>7

\* The numbers up to k, and the greatest of them.
LEMMA Segment ==
    ASSUME NEW n \in Nat, NEW k \in 1..n
    PROVE  /\ 1..k \in SUBSET (1..n) /\ 1..k # {} /\ Max(1..k) = k
           /\ (1..k) \ {k} = 1..(k - 1) /\ 1..(k - 1) \in SUBSET (1..n)
<1>1. k \in Nat /\ 1 <= k /\ k <= n
  OBVIOUS
<1>2. 1..k \in SUBSET (1..n) /\ 1..k # {} /\ k \in 1..k
  BY <1>1
<1>3. Max(1..k) \in 1..k /\ \A x \in 1..k : x <= Max(1..k)
  BY <1>2, Greatest
<1>4. Max(1..k) = k
  BY <1>1, <1>2, <1>3
<1> QED BY <1>1, <1>2, <1>4

\* Two sums over 1..n differ by the last value.
LEMMA SumUpTo ==
    ASSUME NEW n \in Nat, NEW f, \A x \in 1..n : f[x] \in Int, NEW k \in 1..n
    PROVE  /\ SumFunctionOnSet(f, 1..k) = f[k] + SumFunctionOnSet(f, 1..(k - 1))
           /\ SumFunctionOnSet(f, 1..(k - 1)) \in Int /\ f[k] \in Int
<1>1. k \in Nat /\ 1 <= k /\ k <= n /\ k \in 1..k
  OBVIOUS
<1>2. /\ (1..k) \ {k} = 1..(k - 1)
      /\ 1..k \in SUBSET (1..n) /\ 1..(k - 1) \in SUBSET (1..n)
  BY Segment
<1>3. IsFiniteSet(1..k) /\ IsFiniteSet(1..(k - 1))
  BY <1>1, FS_Interval
<1>4. \A x \in 1..k : f[x] \in Int
  BY <1>2
<1>5. SumFunctionOnSet(f, 1..k) = f[k] + SumFunctionOnSet(f, (1..k) \ {k})
  BY <1>1, <1>3, <1>4, SumRemove
<1>6. SumFunctionOnSet(f, 1..(k - 1)) \in Int
  BY <1>2, <1>3, SumInt
<1> QED BY <1>1, <1>2, <1>4, <1>5, <1>6

-----------------------------------------------------------------------------
(* Checked arithmetic.                                                     *)

Amounts == [ms : Int, overflow : BOOLEAN]

LEMMA CheckedAddition ==
    ASSUME NEW amount \in Amounts, NEW ms \in Int
    PROVE  /\ CheckedAdd(amount, ms) \in Amounts
           /\ CheckedAdd(amount, ms).ms \in 0..MaxInt
           /\ amount.overflow = TRUE => CheckedAdd(amount, ms).overflow = TRUE
           /\ CheckedAdd(amount, ms).overflow = FALSE =>
                    /\ amount.ms >= 0 /\ ms >= 0
                    /\ CheckedAdd(amount, ms).ms = amount.ms + ms
<1>1. MaxInt \in Nat /\ amount.ms \in Int
  BY PlanConstants DEF Amounts
<1>2. CASE amount.ms < 0 \/ ms < 0 \/ ms > MaxInt - amount.ms
  <2>1. CheckedAdd(amount, ms) = [ms |-> MaxInt, overflow |-> TRUE]
    BY <1>2 DEF CheckedAdd
  <2> QED BY <1>1, <2>1 DEF Amounts
<1>3. CASE ~(amount.ms < 0 \/ ms < 0 \/ ms > MaxInt - amount.ms)
  <2>1. CheckedAdd(amount, ms) = [amount EXCEPT !.ms = amount.ms + ms]
    BY <1>3 DEF CheckedAdd
  <2>2. amount.ms >= 0 /\ ms >= 0 /\ amount.ms + ms \in 0..MaxInt
    BY <1>1, <1>3
  <2>3. CheckedAdd(amount, ms) = [ms |-> amount.ms + ms, overflow |-> amount.overflow]
    BY <2>1 DEF Amounts
  <2> QED BY <1>1, <2>2, <2>3 DEF Amounts
<1> QED BY <1>2, <1>3

LEMMA CheckedProduct ==
    ASSUME NEW ms \in Int, NEW times \in Int
    PROVE  /\ CheckedMultiply(ms, times) \in Amounts
           /\ CheckedMultiply(ms, times).overflow = FALSE =>
                    ms >= 0 /\ times >= 0 /\ CheckedMultiply(ms, times).ms = ms * times
<1>1. MaxInt \in Nat /\ ms * times \in Int
  BY PlanConstants
<1>2. CASE ms < 0 \/ times < 0 \/ (ms # 0 /\ times > MaxInt \div ms)
  <2>1. CheckedMultiply(ms, times) = [ms |-> MaxInt, overflow |-> TRUE]
    BY <1>2 DEF CheckedMultiply
  <2> QED BY <1>1, <2>1 DEF Amounts
<1>3. CASE ~(ms < 0 \/ times < 0 \/ (ms # 0 /\ times > MaxInt \div ms))
  <2>1. CheckedMultiply(ms, times) = [ms |-> ms * times, overflow |-> FALSE]
    BY <1>3 DEF CheckedMultiply, Amount
  <2>2. ms >= 0 /\ times >= 0
    BY <1>3
  <2> HIDE <1>3
  <2> QED BY <1>1, <2>1, <2>2 DEF Amounts
<1> QED BY <1>2, <1>3

LEMMA PlusAdds ==
    ASSUME NEW left \in Amounts, NEW right \in Amounts
    PROVE  /\ Plus(left, right) \in Amounts
           /\ Plus(left, right).ms \in 0..MaxInt
           /\ Plus(left, right).overflow = FALSE =>
                    /\ left.overflow = FALSE /\ right.overflow = FALSE
                    /\ left.ms >= 0 /\ right.ms >= 0
                    /\ Plus(left, right).ms = left.ms + right.ms
<1>1. right.ms \in Int /\ left.overflow \in BOOLEAN /\ right.overflow \in BOOLEAN
  BY DEF Amounts
<1>2. PICK sum : sum = CheckedAdd(left, right.ms)
  OBVIOUS
<1>3. /\ sum \in Amounts /\ sum.ms \in 0..MaxInt
      /\ sum.overflow = FALSE =>
            left.ms >= 0 /\ right.ms >= 0 /\ sum.ms = left.ms + right.ms
  BY <1>1, <1>2, CheckedAddition
<1>4. Plus(left, right) =
        [sum EXCEPT !.overflow = sum.overflow \/ left.overflow \/ right.overflow]
  BY <1>2 DEF Plus
<1>5. Plus(left, right) =
        [ms |-> sum.ms, overflow |-> sum.overflow \/ left.overflow \/ right.overflow]
  BY <1>3, <1>4 DEF Amounts
<1>6. sum.ms \in Int /\ sum.overflow \in BOOLEAN
  BY <1>3 DEF Amounts
<1>7. /\ Plus(left, right).ms = sum.ms
      /\ Plus(left, right).overflow = (sum.overflow \/ left.overflow \/ right.overflow)
  BY <1>5
<1>8. Plus(left, right) \in Amounts
  BY <1>1, <1>5, <1>6 DEF Amounts
<1> QED BY <1>1, <1>3, <1>6, <1>7, <1>8

\* A total is reached amount by amount.
LEMMA TotalRuns ==
    ASSUME NEW n \in Nat, NEW amounts, DOMAIN amounts = 1..n,
           \A i \in 1..n : amounts[i] \in Amounts
    PROVE  \E upTo : /\ upTo[0] = Amount(0)
                     /\ \A k \in 1..n : upTo[k] = Plus(upTo[k - 1], amounts[k])
                     /\ Total(amounts) = upTo[n]
<1> DEFINE S == 1..n
           Rest(F, s) == IF s = {} THEN Amount(0)
                         ELSE Plus(F[s \ {Max(s)}], amounts[Max(s)])
           chosen == CHOOSE F : F = [s \in SUBSET S |-> Rest(F, s)]
           step == [i \in S |-> [v \in Amounts |-> Plus(v, amounts[i])]]
           pick == [s \in SUBSET S |-> Max(s)]
<1>1. Total(amounts) = chosen[S]
  <2>1. Total(amounts) = (CHOOSE F : F = [s \in SUBSET DOMAIN amounts |-> Rest(F, s)])
                            [DOMAIN amounts]
    BY DEF Total, FoldLeft, MapThenFoldSet
  <2> QED BY <2>1
<1>2. \A s \in SUBSET S : s # {} => Max(s) \in s
  BY Greatest
<1>3. PICK F : Answers(F, S, Amounts, Amount(0), step, pick)
  <2>1. \A i \in S : \A v \in Amounts : step[i][v] \in Amounts
    BY PlusAdds
  <2>2. \A s \in SUBSET S : s # {} => pick[s] \in s
    BY <1>2
  <2>3. Amount(0) \in Amounts
    BY DEF Amounts, Amount
  <2>4. IsFiniteSet(S)
    BY FS_Interval
  <2> HIDE DEF step, pick, chosen, Rest, S
  <2> QED BY <2>1, <2>2, <2>3, <2>4, FoldExists
<1>4. ASSUME NEW s \in SUBSET S PROVE F[s] = Rest(F, s)
  <2>1. CASE s = {}
    BY <1>3, <2>1 DEF Answers
  <2>2. CASE s # {}
    <3>1. pick[s] = Max(s) /\ Max(s) \in S
      BY <1>2, <2>2
    <3>2. F[s \ {Max(s)}] \in Amounts
      BY <1>3 DEF Answers
    <3>3. step[Max(s)][F[s \ {Max(s)}]] = Plus(F[s \ {Max(s)}], amounts[Max(s)])
      BY <3>1, <3>2
    <3> QED BY <1>3, <2>2, <3>1, <3>3 DEF Answers
  <2> QED BY <2>1, <2>2
<1>5. F = [s \in SUBSET S |-> Rest(F, s)]
  <2>1. F \in [SUBSET S -> Amounts]
    BY <1>3 DEF Answers
  <2> HIDE DEF Rest, S
  <2> QED BY <1>4, <2>1
<1>6. chosen = [s \in SUBSET S |-> Rest(chosen, s)]
  BY <1>5
<1>7. \A s \in SUBSET S : chosen[s] = Rest(chosen, s)
  <2> HIDE DEF chosen, Rest
  <2> QED BY <1>6
<1> DEFINE upTo == [k \in 0..n |-> chosen[1..k]]
<1>8. upTo[0] = Amount(0)
  <2>1. upTo[0] = chosen[{}]
    OBVIOUS
  <2>2. chosen[{}] = Rest(chosen, {})
    <3> HIDE DEF chosen, Rest
    <3> QED BY <1>7
  <2> HIDE DEF chosen
  <2> QED BY <2>1, <2>2
<1>9. ASSUME NEW k \in 1..n PROVE upTo[k] = Plus(upTo[k - 1], amounts[k])
  <2>1. /\ 1..k \in SUBSET S /\ 1..k # {} /\ Max(1..k) = k
        /\ (1..k) \ {k} = 1..(k - 1)
    BY Segment
  <2>2. chosen[1..k] = Plus(chosen[1..(k - 1)], amounts[k])
    <3>1. chosen[1..k] = Rest(chosen, 1..k)
      <4> HIDE DEF chosen, Rest
      <4> QED BY <1>7, <2>1
    <3> HIDE DEF chosen
    <3> QED BY <2>1, <3>1
  <2>3. k \in 0..n /\ k - 1 \in 0..n
    OBVIOUS
  <2> HIDE DEF chosen
  <2> QED BY <2>2, <2>3
<1>10. Total(amounts) = upTo[n]
  <2> HIDE DEF chosen
  <2> QED BY <1>1
<1> HIDE DEF upTo
<1> QED BY <1>8, <1>9, <1>10

\* Without an overflow a total is the sum, and no amount has one.
TotalsTo(amounts, ms, n) ==
    /\ Total(amounts) \in Amounts /\ Total(amounts).ms \in 0..MaxInt
    /\ Total(amounts).overflow = FALSE =>
        /\ \A i \in 1..n : amounts[i].overflow = FALSE /\ amounts[i].ms >= 0
        /\ Total(amounts).ms = SumFunctionOnSet(ms, 1..n)

LEMMA TotalSum ==
    ASSUME NEW n \in Nat, NEW amounts, DOMAIN amounts = 1..n,
           \A i \in 1..n : amounts[i] \in Amounts,
           NEW ms, \A i \in 1..n : ms[i] = amounts[i].ms
    PROVE  TotalsTo(amounts, ms, n)
<1> DEFINE Sum(k) == SumFunctionOnSet(ms, 1..k)
<1>1. PICK upTo : /\ upTo[0] = Amount(0)
                  /\ \A k \in 1..n : upTo[k] = Plus(upTo[k - 1], amounts[k])
                  /\ Total(amounts) = upTo[n]
  BY TotalRuns
<1> DEFINE Reached(k) ==
        /\ upTo[k] \in Amounts /\ upTo[k].ms \in 0..MaxInt
        /\ upTo[k].overflow = FALSE =>
            /\ \A i \in 1..k : amounts[i].overflow = FALSE /\ amounts[i].ms >= 0
            /\ upTo[k].ms = Sum(k)
           P == {k \in Nat : k <= n => Reached(k)}
<1>2. 0 \in P
  <2>1. Sum(0) = 0
    BY SumEmpty
  <2>2. MaxInt \in Nat /\ Amount(0) \in Amounts /\ Amount(0).ms = 0
    BY PlanConstants DEF Amounts, Amount
  <2> HIDE DEF Sum
  <2>3. Reached(0)
    BY <1>1, <2>1, <2>2
  <2> QED BY <2>3
<1>3. ASSUME NEW k \in Nat, k \in P PROVE k + 1 \in P
  <2> HIDE DEF Reached
  <2>1. SUFFICES ASSUME k + 1 <= n PROVE Reached(k + 1)
    OBVIOUS
  <2>2. Reached(k) /\ k + 1 \in 1..n /\ (k + 1) - 1 = k
    BY <1>3, <2>1
  <2> HIDE DEF P
  <2> USE DEF Reached
  <2>3. upTo[k + 1] = Plus(upTo[k], amounts[k + 1])
    BY <1>1, <2>2
  <2>4. /\ upTo[k + 1] \in Amounts /\ upTo[k + 1].ms \in 0..MaxInt
        /\ upTo[k + 1].overflow = FALSE =>
            /\ upTo[k].overflow = FALSE /\ amounts[k + 1].overflow = FALSE
            /\ amounts[k + 1].ms >= 0 /\ upTo[k + 1].ms = upTo[k].ms + amounts[k + 1].ms
    <3>1. upTo[k] \in Amounts /\ amounts[k + 1] \in Amounts
      BY <2>2
    <3>2. PICK left, right : left = upTo[k] /\ right = amounts[k + 1]
      OBVIOUS
    <3>3. /\ Plus(left, right) \in Amounts /\ Plus(left, right).ms \in 0..MaxInt
          /\ Plus(left, right).overflow = FALSE =>
                /\ left.overflow = FALSE /\ right.overflow = FALSE
                /\ left.ms >= 0 /\ right.ms >= 0
                /\ Plus(left, right).ms = left.ms + right.ms
      BY <3>1, <3>2, PlusAdds
    <3> QED BY ONLY <2>3, <3>2, <3>3
  <2>5. Sum(k + 1) = ms[k + 1] + Sum(k) /\ Sum(k) \in Int
    <3>1. \A i \in 1..n : ms[i] \in Int
      BY DEF Amounts
    <3> QED BY <2>2, <3>1, SumUpTo
  <2>6. ms[k + 1] = amounts[k + 1].ms /\ ms[k + 1] \in Int
    BY <2>2 DEF Amounts
  <2> HIDE DEF Sum
  <2>7. ASSUME upTo[k + 1].overflow = FALSE
        PROVE  /\ \A i \in 1..(k + 1) : amounts[i].overflow = FALSE /\ amounts[i].ms >= 0
               /\ upTo[k + 1].ms = Sum(k + 1)
    <3>1. \A i \in 1..k : amounts[i].overflow = FALSE /\ amounts[i].ms >= 0
      BY <2>2, <2>4, <2>7
    <3>2. \A i \in 1..(k + 1) : i \in 1..k \/ i = k + 1
      OBVIOUS
    <3>3. upTo[k].ms = Sum(k)
      BY <2>2, <2>4, <2>7
    <3>4. upTo[k + 1].ms = Sum(k + 1)
      BY <2>4, <2>5, <2>6, <2>7, <3>3
    <3> QED BY <2>4, <2>7, <3>1, <3>2, <3>4
  <2> QED BY <2>4, <2>7
<1>4. \A k \in Nat : k \in P
  <2> HIDE DEF P
  <2> QED BY <1>2, <1>3, EveryNumber
<1>5. Reached(n)
  BY <1>4
<1> QED BY <1>1, <1>5 DEF TotalsTo

-----------------------------------------------------------------------------
(* Sorting by places.                                                      *)

\* The entries that do not come after entry i.
Before(numbers, i) ==
    {j \in DOMAIN numbers : numbers[j] < numbers[i] \/ (numbers[j] = numbers[i] /\ j <= i)}

\* Every place is taken by one entry, and smaller entries have the places before.
LEMMA Places ==
    ASSUME NEW n \in Nat, NEW numbers, DOMAIN numbers = 1..n,
           \A i \in 1..n : numbers[i] \in Int
    PROVE  /\ \A i \in 1..n : Place(numbers, i) \in 1..n
           /\ \A i, j \in 1..n : Place(numbers, i) = Place(numbers, j) => i = j
           /\ \A k \in 1..n : \E i \in 1..n : Place(numbers, i) = k
           /\ \A i, j \in 1..n :
                numbers[i] < numbers[j] => Place(numbers, i) < Place(numbers, j)
<1>1. IsFiniteSet(1..n) /\ Cardinality(1..n) = n
  BY FS_Interval
<1>2. ASSUME NEW i \in 1..n
      PROVE  /\ Before(numbers, i) \in SUBSET (1..n) /\ i \in Before(numbers, i)
             /\ IsFiniteSet(Before(numbers, i))
             /\ Place(numbers, i) = Cardinality(Before(numbers, i))
             /\ Place(numbers, i) \in 1..n
  <2>1. Before(numbers, i) \in SUBSET (1..n) /\ i \in Before(numbers, i)
    BY DEF Before
  <2>2. Place(numbers, i) = Cardinality(Before(numbers, i))
    BY DEF Place, Before
  <2>3. /\ IsFiniteSet(Before(numbers, i)) /\ Cardinality(Before(numbers, i)) \in Nat
        /\ Cardinality(Before(numbers, i)) <= n
    BY <1>1, <2>1, FS_Subset, FS_CardinalityType
  <2>4. Cardinality(Before(numbers, i)) # 0
    BY <2>1, <2>3, FS_EmptySet
  <2> QED BY <2>1, <2>2, <2>3, <2>4
<1>3. ASSUME NEW i \in 1..n, NEW j \in 1..n,
             numbers[i] < numbers[j] \/ (numbers[i] = numbers[j] /\ i < j)
      PROVE  Place(numbers, i) < Place(numbers, j)
  <2>1. Before(numbers, i) \in SUBSET Before(numbers, j) /\ j \notin Before(numbers, i)
    BY <1>3 DEF Before
  <2>2. Cardinality(Before(numbers, i)) <= Cardinality(Before(numbers, j))
    BY <1>2, <2>1, FS_Subset
  <2>3. Cardinality(Before(numbers, i)) # Cardinality(Before(numbers, j))
    BY <1>2, <2>1, FS_Subset
  <2>4. Place(numbers, i) \in Int /\ Place(numbers, j) \in Int
    BY <1>2
  <2> QED BY <1>2, <2>2, <2>3, <2>4
<1>4. ASSUME NEW i \in 1..n, NEW j \in 1..n, Place(numbers, i) = Place(numbers, j)
      PROVE  i = j
  <2>1. Place(numbers, i) \in Int /\ Place(numbers, j) \in Int
    BY <1>2
  <2>2. ~(Place(numbers, i) < Place(numbers, j)) /\ ~(Place(numbers, j) < Place(numbers, i))
    BY <1>4, <2>1
  <2>3. ~(numbers[i] < numbers[j]) /\ ~(numbers[j] < numbers[i])
    BY <1>3, <2>2
  <2>4. numbers[i] = numbers[j]
    BY <2>3
  <2> QED BY <1>3, <2>2, <2>4
<1>5. \A k \in 1..n : \E i \in 1..n : Place(numbers, i) = k
  <2> DEFINE place == [i \in 1..n |-> Place(numbers, i)]
  <2>1. place \in Injection(1..n, 1..n)
    BY <1>2, <1>4 DEF Injection, IsInjective
  <2> HIDE DEF place
  <2>2. place \in Surjection(1..n, 1..n)
    BY <1>1, <2>1, FS_Injection
  <2>3. \A k \in 1..n : \E i \in 1..n : place[i] = k
    BY <2>2 DEF Surjection
  <2> QED BY <2>3 DEF place
<1> QED BY <1>2, <1>3, <1>4, <1>5

\* A sorted list is the list in another order, and it ascends.
Sorts(at, numbers, n) ==
    /\ at \in [1..n -> 1..n]
    /\ \A k \in 1..n : Place(numbers, at[k]) = k
    /\ \A j, k \in 1..n : j <= k => numbers[at[j]] <= numbers[at[k]]
    /\ Ascending(numbers) = [k \in 1..n |-> numbers[at[k]]]

LEMMA Sorted ==
    ASSUME NEW n \in Nat, NEW numbers, DOMAIN numbers = 1..n,
           \A i \in 1..n : numbers[i] \in Int
    PROVE  \E at : Sorts(at, numbers, n)
<1> DEFINE at == [k \in 1..n |-> CHOOSE i \in 1..n : Place(numbers, i) = k]
<1>1. /\ \A k \in 1..n : \E i \in 1..n : Place(numbers, i) = k
      /\ \A i, j \in 1..n : numbers[i] < numbers[j] => Place(numbers, i) < Place(numbers, j)
  BY Places
<1>2. ASSUME NEW k \in 1..n PROVE at[k] \in 1..n /\ Place(numbers, at[k]) = k
  BY <1>1
<1>3. Ascending(numbers) = [k \in 1..n |-> numbers[at[k]]]
  BY DEF Ascending
<1>4. at \in [1..n -> 1..n]
  BY <1>2
<1> HIDE DEF at
<1>5. ASSUME NEW j \in 1..n, NEW k \in 1..n, j <= k PROVE numbers[at[j]] <= numbers[at[k]]
  <2>1. numbers[at[j]] \in Int /\ numbers[at[k]] \in Int
    BY <1>2
  <2>2. at[k] \in 1..n /\ at[j] \in 1..n /\ Place(numbers, at[k]) = k
        /\ Place(numbers, at[j]) = j
    BY <1>2
  <2>3. numbers[at[k]] < numbers[at[j]] => k < j
    BY <1>1, <2>2
  <2>4. j \in Int /\ k \in Int
    OBVIOUS
  <2> QED BY <1>5, <2>1, <2>3, <2>4
<1> QED BY <1>2, <1>3, <1>4, <1>5 DEF Sorts

\* How many entries are no greater than a value.
Within(numbers, ms) == Cardinality({i \in DOMAIN numbers : numbers[i] <= ms})

\* At least as many as its place are no greater than an entry, fewer are no greater
\* than an entry below it.
LEMMA KeptAtPlace ==
    ASSUME NEW n \in Nat, NEW numbers, DOMAIN numbers = 1..n,
           \A i \in 1..n : numbers[i] \in Int, NEW e \in 1..n
    PROVE  /\ \A ms : Within(numbers, ms) \in Nat
           /\ Within(numbers, numbers[e]) >= Place(numbers, e)
           /\ \A l \in 1..n :
                numbers[l] < numbers[e] => Within(numbers, numbers[l]) < Place(numbers, e)
<1>1. IsFiniteSet(1..n)
  BY FS_Interval
<1>2. IsFiniteSet(Before(numbers, e)) /\ Place(numbers, e) = Cardinality(Before(numbers, e))
      /\ Cardinality(Before(numbers, e)) \in Nat
  <2>1. Before(numbers, e) \in SUBSET (1..n)
    BY DEF Before
  <2>2. Place(numbers, e) = Cardinality(Before(numbers, e))
    BY DEF Before, Place
  <2> QED BY <1>1, <2>1, <2>2, FS_Subset, FS_CardinalityType
<1> DEFINE WithinOf(ms) == {i \in DOMAIN numbers : numbers[i] <= ms}
<1>3. \A ms : /\ IsFiniteSet(WithinOf(ms)) /\ Within(numbers, ms) = Cardinality(WithinOf(ms))
              /\ Within(numbers, ms) \in Nat
  <2>1. \A ms : WithinOf(ms) \in SUBSET (1..n)
    OBVIOUS
  <2>2. \A ms : Within(numbers, ms) = Cardinality(WithinOf(ms))
    BY DEF Within
  <2> HIDE DEF WithinOf
  <2> QED BY <1>1, <2>1, <2>2, FS_Subset, FS_CardinalityType
<1>4. Within(numbers, numbers[e]) >= Place(numbers, e)
  <2>1. Before(numbers, e) \in SUBSET WithinOf(numbers[e])
    <3>1. \A i \in 1..n : numbers[i] < numbers[e] \/ numbers[i] = numbers[e] =>
                numbers[i] <= numbers[e]
      OBVIOUS
    <3> QED BY <3>1 DEF Before
  <2>2. Cardinality(Before(numbers, e)) <= Cardinality(WithinOf(numbers[e]))
    BY <1>3, <2>1, FS_Subset
  <2> HIDE DEF WithinOf
  <2> QED BY <1>2, <1>3, <2>2
<1>5. ASSUME NEW l \in 1..n, numbers[l] < numbers[e]
      PROVE  Within(numbers, numbers[l]) < Place(numbers, e)
  <2>1. WithinOf(numbers[l]) \in SUBSET Before(numbers, e) /\ e \notin WithinOf(numbers[l])
    <3>1. \A i \in 1..n : numbers[i] <= numbers[l] => numbers[i] < numbers[e]
      BY <1>5
    <3>2. ~(numbers[e] <= numbers[l])
      BY <1>5
    <3> QED BY <3>1, <3>2 DEF Before
  <2>2. e \in Before(numbers, e)
    BY DEF Before
  <2> HIDE DEF WithinOf
  <2>3. /\ Cardinality(WithinOf(numbers[l])) <= Cardinality(Before(numbers, e))
        /\ Cardinality(WithinOf(numbers[l])) # Cardinality(Before(numbers, e))
    BY <1>2, <2>1, <2>2, FS_Subset
  <2> QED BY <1>2, <1>3, <2>3
<1> QED BY <1>3, <1>4, <1>5

\* The nearest rank is what it is called: 95 of 100 samples are no longer, and no
\* shorter sample has that many.
LEMMA NearestRank ==
    ASSUME NEW n \in Nat, n > 0, NEW samples, DOMAIN samples = 1..n,
           \A i \in 1..n : samples[i] \in Int, Len(samples) = n
    PROVE  \E e \in 1..n :
             /\ NearestRank95(samples) = samples[e]
             /\ 100 * Within(samples, samples[e]) >= 95 * n
             /\ \A l \in 1..n :
                    samples[l] < samples[e] => 100 * Within(samples, samples[l]) < 95 * n
<1>1. PICK k : k = (95 * n + 99) \div 100
  OBVIOUS
<1>2. k \in 1..n /\ k \in Nat /\ 100 * k >= 95 * n /\ 100 * (k - 1) < 95 * n
  BY <1>1
<1>3. PICK at : Sorts(at, samples, n)
  BY Sorted
<1>4. PICK e : e = at[k]
  OBVIOUS
<1>5. e \in 1..n /\ NearestRank95(samples) = samples[e] /\ Place(samples, e) = k
  BY <1>1, <1>2, <1>3, <1>4 DEF NearestRank95, Sorts
<1>6. /\ \A ms : Within(samples, ms) \in Nat
      /\ Within(samples, samples[e]) >= k
      /\ \A l \in 1..n : samples[l] < samples[e] => Within(samples, samples[l]) < k
  BY <1>5, KeptAtPlace
<1>7. 100 * Within(samples, samples[e]) >= 95 * n
  BY <1>2, <1>6
<1>8. ASSUME NEW l \in 1..n, samples[l] < samples[e]
      PROVE  100 * Within(samples, samples[l]) < 95 * n
  <2>1. Within(samples, samples[l]) \in Nat /\ Within(samples, samples[l]) < k
    BY <1>6, <1>8
  <2> QED BY ONLY <2>1, <1>2, n \in Nat
<1> QED BY <1>5, <1>7, <1>8

-----------------------------------------------------------------------------
(* A retry budget spent on the costliest partitions first.                 *)

Spendings == [amount : Amounts, left : Int]

LEMMA SpendKeeps ==
    ASSUME NEW input, RetrySlots(input) \in Nat, NEW state \in Spendings, NEW cost \in Int
    PROVE  \E slots \in Int :
             /\ slots <= RetrySlots(input) /\ slots <= state.left
             /\ slots = RetrySlots(input) \/ slots = state.left
             /\ Spend(input, state, cost) \in Spendings
             /\ Spend(input, state, cost).left = state.left - slots
             /\ Spend(input, state, cost).amount.overflow = FALSE =>
                    /\ state.amount.overflow = FALSE
                    /\ Spend(input, state, cost).amount.ms = state.amount.ms + cost * slots
<1>1. PICK slots : slots = IF RetrySlots(input) > state.left THEN state.left
                           ELSE RetrySlots(input)
  OBVIOUS
<1>2. state.left \in Int /\ state.amount \in Amounts
  BY DEF Spendings
<1>3. /\ slots \in Int /\ slots <= RetrySlots(input) /\ slots <= state.left
      /\ slots = RetrySlots(input) \/ slots = state.left
  BY <1>1, <1>2
<1>4. PICK product : product = CheckedMultiply(cost, slots)
  OBVIOUS
<1>5. product \in Amounts /\ (product.overflow = FALSE => product.ms = cost * slots)
  BY <1>3, <1>4, CheckedProduct
<1>6. PICK sum : sum = Plus(state.amount, product)
  OBVIOUS
<1>7. /\ sum \in Amounts
      /\ sum.overflow = FALSE =>
            /\ state.amount.overflow = FALSE /\ product.overflow = FALSE
            /\ sum.ms = state.amount.ms + product.ms
  BY <1>2, <1>5, <1>6, PlusAdds
<1>8. Spend(input, state, cost) = [amount |-> sum, left |-> state.left - slots]
  BY <1>1, <1>4, <1>6 DEF Spend
<1>9. state.left - slots \in Int
  BY <1>2, <1>3
<1> QED BY <1>3, <1>5, <1>7, <1>8, <1>9 DEF Spendings

SpendAll(input, first, costs) ==
    FoldLeft(LAMBDA state, cost : Spend(input, state, cost), first, costs)

\* What is spent after each cost, in their order.
SpendsUpTo(upTo, input, first, n, costs) ==
    /\ upTo[0] = first
    /\ \A k \in 1..n : upTo[k] = Spend(input, upTo[k - 1], costs[k])
    /\ SpendAll(input, first, costs) = upTo[n]

\* The budget is spent partition by partition.
LEMMA SpendRuns ==
    ASSUME NEW input, RetrySlots(input) \in Nat, NEW first \in Spendings,
           NEW n \in Nat, NEW costs, DOMAIN costs = 1..n, \A i \in 1..n : costs[i] \in Int
    PROVE  \E upTo : SpendsUpTo(upTo, input, first, n, costs)
<1> DEFINE S == 1..n
           Rest(F, s) == IF s = {} THEN first
                         ELSE Spend(input, F[s \ {Max(s)}], costs[Max(s)])
           chosen == CHOOSE F : F = [s \in SUBSET S |-> Rest(F, s)]
           step == [i \in S |-> [v \in Spendings |-> Spend(input, v, costs[i])]]
           pick == [s \in SUBSET S |-> Max(s)]
           fold == SpendAll(input, first, costs)
<1>1. fold = chosen[S]
  <2>1. fold = (CHOOSE F : F = [s \in SUBSET DOMAIN costs |-> Rest(F, s)])[DOMAIN costs]
    BY DEF SpendAll, FoldLeft, MapThenFoldSet
  <2> QED BY <2>1
<1> HIDE DEF fold
<1>2. \A s \in SUBSET S : s # {} => Max(s) \in s
  BY Greatest
<1>3. PICK F : Answers(F, S, Spendings, first, step, pick)
  <2>1. ASSUME NEW i \in S, NEW v \in Spendings PROVE step[i][v] \in Spendings
    <3>1. Spend(input, v, costs[i]) \in Spendings
      BY SpendKeeps
    <3> QED BY <3>1
  <2>2. \A s \in SUBSET S : s # {} => pick[s] \in s
    BY <1>2
  <2>3. IsFiniteSet(S)
    BY FS_Interval
  <2> HIDE DEF step, pick, chosen, Rest, S
  <2> QED BY <2>1, <2>2, <2>3, FoldExists
<1>4. ASSUME NEW s \in SUBSET S PROVE F[s] = Rest(F, s)
  <2>1. CASE s = {}
    BY <1>3, <2>1 DEF Answers
  <2>2. CASE s # {}
    <3>1. pick[s] = Max(s) /\ Max(s) \in S
      BY <1>2, <2>2
    <3>2. F[s \ {Max(s)}] \in Spendings
      BY <1>3 DEF Answers
    <3>3. step[Max(s)][F[s \ {Max(s)}]] = Spend(input, F[s \ {Max(s)}], costs[Max(s)])
      BY <3>1, <3>2
    <3> QED BY <1>3, <2>2, <3>1, <3>3 DEF Answers
  <2> QED BY <2>1, <2>2
<1>5. F = [s \in SUBSET S |-> Rest(F, s)]
  <2>1. F \in [SUBSET S -> Spendings]
    BY <1>3 DEF Answers
  <2> HIDE DEF Rest, S
  <2> QED BY <1>4, <2>1
<1>6. chosen = [s \in SUBSET S |-> Rest(chosen, s)]
  BY <1>5
<1>7. \A s \in SUBSET S : chosen[s] = Rest(chosen, s)
  <2> HIDE DEF chosen, Rest
  <2> QED BY <1>6
<1> DEFINE upTo == [k \in 0..n |-> chosen[1..k]]
<1>8. upTo[0] = first
  <2>1. upTo[0] = chosen[{}]
    OBVIOUS
  <2>2. chosen[{}] = Rest(chosen, {})
    <3> HIDE DEF chosen, Rest
    <3> QED BY <1>7
  <2> HIDE DEF chosen
  <2> QED BY <2>1, <2>2
<1>9. ASSUME NEW k \in 1..n PROVE upTo[k] = Spend(input, upTo[k - 1], costs[k])
  <2>1. /\ 1..k \in SUBSET S /\ 1..k # {} /\ Max(1..k) = k
        /\ (1..k) \ {k} = 1..(k - 1)
    BY Segment
  <2>2. chosen[1..k] = Spend(input, chosen[1..(k - 1)], costs[k])
    <3>1. chosen[1..k] = Rest(chosen, 1..k)
      <4> HIDE DEF chosen, Rest
      <4> QED BY <1>7, <2>1
    <3> HIDE DEF chosen
    <3> QED BY <2>1, <3>1
  <2>3. k \in 0..n /\ k - 1 \in 0..n
    OBVIOUS
  <2> HIDE DEF chosen
  <2> QED BY <2>2, <2>3
<1>10. fold = upTo[n]
  <2> HIDE DEF chosen
  <2> QED BY <1>1
<1> HIDE DEF upTo
<1>11. SpendsUpTo(upTo, input, first, n, costs)
  BY <1>8, <1>9, <1>10 DEF fold, SpendsUpTo
<1> QED BY <1>11

LEMMA Products ==
    ASSUME NEW a \in Nat, NEW b \in Nat, a <= b, NEW d \in Nat
    PROVE  a * d \in Int /\ b * d \in Int /\ a * d <= b * d
<1>1. PICK c \in Nat : b = a + c
  <2>1. b - a \in Nat /\ b = a + (b - a)
    OBVIOUS
  <2> QED BY <2>1
<1>2. b * d = a * d + c * d /\ c * d >= 0 /\ c * d \in Nat /\ a * d \in Int
  BY <1>1
<1> QED BY <1>2

\* One more partition: whatever it uses of the retries, no more is left undone.
LEMMA SpendMore ==
    ASSUME NEW c \in Nat, NEW w \in Nat, c <= w, NEW undone \in Nat, NEW slots \in Nat,
           NEW x \in Nat, x <= undone + slots, NEW before \in Int, NEW spent \in Int,
           before + w * undone <= spent
    PROVE  (before + x * w) + c * (undone + slots - x) <= spent + w * slots
<1>1. undone + slots - x \in Nat
  OBVIOUS
<1>2. PICK d \in Nat : d = undone + slots - x
  BY <1>1
<1>3. c * d <= w * d /\ c * d \in Int /\ w * d \in Int
  BY Products
<1>4. w * d + w * x = w * (d + x)
  OBVIOUS
<1>5. d + x = undone + slots
  BY <1>2
<1>6. w * (undone + slots) = w * undone + w * slots
  OBVIOUS
<1>7. x * w = w * x /\ w * x \in Int /\ w * undone \in Int /\ w * slots \in Int
  OBVIOUS
<1>8. w * d + x * w = w * undone + w * slots
  BY <1>3, <1>4, <1>5, <1>6, <1>7
<1>9. before + x * w + c * d <= spent + w * slots
  <2>1. \A cd, wd, xw, wu, ws \in Int :
            cd <= wd /\ wd + xw = wu + ws /\ before + wu <= spent
                => before + xw + cd <= spent + ws
    OBVIOUS
  <2> QED BY <1>3, <1>7, <1>8, <2>1
<1> QED BY <1>2, <1>9

\* The partition each turn falls on, and their costs from the costliest down.
Turns(turn, costs, estimates, n) ==
    /\ \A k \in 1..n : turn[k] \in 1..n /\ costs[k] = estimates[turn[k]]
    /\ \A k \in 1..n : Place(estimates, turn[k]) = n + 1 - k
    /\ \A j, k \in 1..n : j <= k => costs[k] <= costs[j]

\* The costliest come first: each partition has its turn, and those before it cost
\* no less.
LEMMA CostliestFirst ==
    ASSUME NEW n \in Nat, NEW estimates, DOMAIN estimates = 1..n,
           \A i \in 1..n : estimates[i] \in Int,
           NEW costs, costs = Reverse(Ascending(estimates))
    PROVE  DOMAIN costs = 1..n /\ \E turn : Turns(turn, costs, estimates, n)
<1>1. PICK at : Sorts(at, estimates, n)
  BY Sorted
<1>2. PICK sorted : sorted = Ascending(estimates)
  OBVIOUS
<1>3. sorted = [k \in 1..n |-> estimates[at[k]]] /\ at \in [1..n -> 1..n]
  BY <1>1, <1>2 DEF Sorts
<1>4. Len(sorted) = n
  BY <1>3
<1>5. costs = [k \in 1..n |-> sorted[n - k + 1]]
  BY <1>2, <1>4 DEF Reverse
<1> DEFINE turn == [k \in 1..n |-> at[n - k + 1]]
<1>6. ASSUME NEW k \in 1..n
      PROVE  /\ n - k + 1 \in 1..n /\ turn[k] \in 1..n /\ costs[k] = estimates[turn[k]]
             /\ Place(estimates, turn[k]) = n + 1 - k
  <2>1. n - k + 1 \in 1..n /\ n - k + 1 = n + 1 - k
    OBVIOUS
  <2>2. turn[k] = at[n - k + 1] /\ at[n - k + 1] \in 1..n
    BY <1>3, <2>1
  <2>3. Place(estimates, at[n - k + 1]) = n - k + 1
    BY <1>1, <2>1 DEF Sorts
  <2>4. costs[k] = estimates[at[n - k + 1]]
    BY <1>3, <1>5, <2>1
  <2> HIDE DEF turn
  <2> QED BY <2>1, <2>2, <2>3, <2>4
<1>7. ASSUME NEW j \in 1..n, NEW k \in 1..n, j <= k PROVE costs[k] <= costs[j]
  <2>1. n - k + 1 \in 1..n /\ n - j + 1 \in 1..n /\ n - k + 1 <= n - j + 1
    BY <1>7
  <2>2. estimates[at[n - k + 1]] <= estimates[at[n - j + 1]]
    BY <1>1, <2>1 DEF Sorts
  <2>3. costs[k] = estimates[at[n - k + 1]] /\ costs[j] = estimates[at[n - j + 1]]
    BY <1>3, <1>5, <2>1
  <2> QED BY <2>2, <2>3
<1>8. DOMAIN costs = 1..n
  BY <1>5
<1> HIDE DEF turn
<1>9. Turns(turn, costs, estimates, n)
  BY <1>6, <1>7 DEF Turns
<1> QED BY <1>8, <1>9

\* Whichever partitions use the retries of a budget, what is set aside covers it.
RetriesCovered(input, total, estimates, n, extra, more) ==
    /\ SpendRetries(input, total, estimates).ms \in Int
    /\ total.ms + SumFunctionOnSet(more, 1..n) <= SpendRetries(input, total, estimates).ms

LEMMA SpendCovers ==
    ASSUME NEW input, RetrySlots(input) \in Nat, input.retry.total \in Nat,
           NEW total \in Amounts, NEW n \in Nat, NEW estimates, DOMAIN estimates = 1..n,
           \A i \in 1..n : estimates[i] \in Nat,
           SpendRetries(input, total, estimates).overflow = FALSE,
           NEW extra, \A i \in 1..n : extra[i] \in Nat /\ extra[i] <= RetrySlots(input),
           SumFunctionOnSet(extra, 1..n) <= input.retry.total,
           NEW more, \A i \in 1..n : more[i] = extra[i] * estimates[i]
    PROVE  RetriesCovered(input, total, estimates, n, extra, more)
<1>1. PICK budget \in Nat : budget = input.retry.total
  OBVIOUS
<1>2. PICK slotsEach \in Nat : slotsEach = RetrySlots(input)
  OBVIOUS
<1>3. PICK first : first = [amount |-> total, left |-> budget]
  OBVIOUS
<1>4. \A i \in 1..n : estimates[i] \in Int
  OBVIOUS
<1>5. PICK costs : costs = Reverse(Ascending(estimates))
  OBVIOUS
<1>6. DOMAIN costs = 1..n
  BY <1>5, <1>4, CostliestFirst
<1>7. PICK turn : Turns(turn, costs, estimates, n)
  BY <1>5, <1>4, CostliestFirst
<1>8. /\ \A k \in 1..n : turn[k] \in 1..n /\ costs[k] = estimates[turn[k]]
      /\ \A k \in 1..n : Place(estimates, turn[k]) = n + 1 - k
      /\ \A j, k \in 1..n : j <= k => costs[k] <= costs[j]
  BY <1>7 DEF Turns
<1>9. \A k \in 1..n : costs[k] \in Nat
  BY <1>8
<1>10. first \in Spendings
  BY <1>3 DEF Spendings
<1>11. PICK upTo : SpendsUpTo(upTo, input, first, n, costs)
  <2>1. \A k \in 1..n : costs[k] \in Int
    BY <1>9
  <2> QED BY <1>6, <1>10, <2>1, SpendRuns
<1>12. /\ upTo[0] = first
      /\ \A k \in 1..n : upTo[k] = Spend(input, upTo[k - 1], costs[k])
  BY <1>11 DEF SpendsUpTo
<1>13. SpendAll(input, first, costs) = upTo[n]
  BY <1>11 DEF SpendsUpTo
<1>14. SpendRetries(input, total, estimates) = upTo[n].amount
  <2>1. first = [amount |-> total, left |-> input.retry.total]
    BY <1>1, <1>3
  <2>2. SpendRetries(input, total, estimates) = SpendAll(input, first, costs).amount
    BY ONLY <1>5, <2>1 DEF SpendRetries, SpendAll
  <2>3. PICK all : all = SpendAll(input, first, costs)
    OBVIOUS
  <2>4. all = upTo[n]
    BY <1>13, <2>3
  <2> QED BY ONLY <2>2, <2>3, <2>4
<1> DEFINE Had(k) == {i \in 1..n : Place(estimates, i) > n - k}
           Used(k) == SumFunctionOnSet(extra, Had(k))
           Paid(k) == SumFunctionOnSet(more, Had(k))
           Covers(k) ==
             /\ upTo[k] \in Spendings /\ upTo[k].left \in 0..budget
             /\ Used(k) <= budget - upTo[k].left
             /\ upTo[k].amount.overflow = FALSE =>
                \A c \in Nat : (\A j \in 1..k : c <= costs[j]) =>
                    Paid(k) + c * (budget - upTo[k].left - Used(k))
                        <= upTo[k].amount.ms - total.ms
           P == {k \in Nat : k <= n => Covers(k)}
<1>15. /\ \A i \in 1..n : extra[i] \in Int /\ extra[i] >= 0 /\ more[i] \in Int
      /\ IsFiniteSet(1..n)
  <2>1. ASSUME NEW i \in 1..n
        PROVE  extra[i] \in Int /\ extra[i] >= 0 /\ more[i] \in Int
    <3>1. extra[i] \in Nat /\ estimates[i] \in Nat
      OBVIOUS
    <3>2. extra[i] * estimates[i] \in Nat
      BY ONLY <3>1
    <3> QED BY <3>1, <3>2
  <2>2. n \in Int /\ 1 \in Int
    OBVIOUS
  <2>3. IsFiniteSet(1..n)
    BY ONLY <2>2, FS_Interval
  <2> QED BY <2>1, <2>3
<1>16. \A k \in Nat : /\ IsFiniteSet(Had(k)) /\ Had(k) \in SUBSET (1..n)
                      /\ Used(k) \in Int /\ Paid(k) \in Int
                      /\ 0 <= Used(k) /\ Used(k) <= budget
  <2> SUFFICES ASSUME NEW k \in Nat
               PROVE  /\ IsFiniteSet(Had(k)) /\ Had(k) \in SUBSET (1..n)
                      /\ Used(k) \in Int /\ Paid(k) \in Int
                      /\ 0 <= Used(k) /\ Used(k) <= budget
    OBVIOUS
  <2>1. Had(k) \in SUBSET (1..n)
    OBVIOUS
  <2> HIDE DEF Had
  <2>2. IsFiniteSet(Had(k))
    BY <1>15, <2>1, FS_Subset
  <2>3. Used(k) \in Int /\ Paid(k) \in Int
    BY <1>15, <2>1, <2>2, SumInt
  <2>4. 0 <= Used(k) /\ Used(k) <= SumFunctionOnSet(extra, 1..n)
    BY <1>15, <1>1, <2>1, SumOfPart
  <2>5. SumFunctionOnSet(extra, 1..n) \in Int
    BY <1>15, SumInt
  <2> HIDE DEF Used, Paid
  <2> QED BY <1>1, <2>1, <2>2, <2>3, <2>4, <2>5
<1>17. 0 \in P
  <2>1. Had(0) = {}
    <3>1. \A i \in 1..n : Place(estimates, i) \in 1..n
      BY <1>4, Places
    <3> QED BY <3>1
  <2>2. Used(0) = 0 /\ Paid(0) = 0
    BY <2>1, SumEmpty
  <2>3. total.ms \in Int
    BY DEF Amounts
  <2>4. upTo[0].left = budget /\ upTo[0].amount = total /\ upTo[0] \in Spendings
    BY <1>10, <1>12, <1>3
  <2> HIDE DEF Used, Paid
  <2>5. Covers(0)
    BY <2>2, <2>3, <2>4
  <2> QED BY <2>5
<1>18. ASSUME NEW k \in Nat, k \in P PROVE k + 1 \in P
  <2> HIDE DEF Covers
  <2>1. SUFFICES ASSUME k + 1 <= n PROVE Covers(k + 1)
    OBVIOUS
  <2>2. Covers(k) /\ k + 1 \in 1..n /\ (k + 1) - 1 = k /\ k + 1 \in Nat
    BY <1>18, <2>1
  <2> HIDE DEF P
  <2> USE DEF Covers
  <2>3. PICK w, i, x : w = costs[k + 1] /\ i = turn[k + 1] /\ x = extra[i]
    OBVIOUS
  <2>4. /\ i \in 1..n /\ w = estimates[i] /\ w \in Nat
        /\ x \in Nat /\ x <= slotsEach /\ more[i] = x * w
        /\ Place(estimates, i) = n - k
    <3> HIDE DEF Covers
    <3>1. i \in 1..n /\ w = estimates[i] /\ Place(estimates, i) = n + 1 - (k + 1)
      BY <1>8, <2>2, <2>3
    <3>2. w \in Nat /\ x \in Nat /\ x <= slotsEach /\ more[i] = x * w
      BY <1>2, <2>3, <3>1
    <3>3. n + 1 - (k + 1) = n - k
      OBVIOUS
    <3> QED BY <3>1, <3>2, <3>3
  <2>5. Had(k + 1) \ {i} = Had(k) /\ i \in Had(k + 1)
    <3>1. \A j \in 1..n : Place(estimates, j) \in Int
                          /\ (Place(estimates, j) = Place(estimates, i) => j = i)
      <4> HIDE DEF Covers
      <4>1. /\ \A j \in 1..n : Place(estimates, j) \in 1..n
            /\ \A a, b \in 1..n : Place(estimates, a) = Place(estimates, b) => a = b
        BY <1>4, Places
      <4>2. i \in 1..n
        BY <2>4
      <4> QED BY ONLY <4>1, <4>2
    <3>2. \A j \in 1..n : Place(estimates, j) > n - (k + 1) <=>
                          Place(estimates, j) > n - k \/ j = i
      BY <2>4, <3>1
    <3>3. i \in Had(k + 1) /\ i \notin Had(k)
      BY <2>4, <3>2
    <3>4. \A j : j \in Had(k + 1) <=> j \in Had(k) \/ j = i
      BY <2>4, <3>2
    <3> HIDE DEF Had
    <3> QED BY <3>3, <3>4
  <2>6. Used(k + 1) = x + Used(k) /\ Paid(k + 1) = x * w + Paid(k)
    <3>1. /\ SumFunctionOnSet(extra, Had(k + 1)) = extra[i] + SumFunctionOnSet(extra, Had(k))
          /\ SumFunctionOnSet(more, Had(k + 1)) = more[i] + SumFunctionOnSet(more, Had(k))
      <4>1. /\ IsFiniteSet(Had(k + 1))
            /\ \A j \in Had(k + 1) : extra[j] \in Int /\ more[j] \in Int
        BY <1>15, <1>16, <2>2
      <4> HIDE DEF Had
      <4> QED BY <2>5, <4>1, SumRemove
    <3> QED BY <2>3, <2>4, <3>1
  <2> HIDE DEF Had, Used, Paid
  <2>7. /\ Used(k) \in Int /\ Paid(k) \in Int /\ 0 <= Used(k)
        /\ Used(k + 1) <= budget
    BY <1>16, <2>2
  <2>8. PICK held : held = upTo[k]
    OBVIOUS
  <2>9. PICK slots \in Int :
             /\ slots <= RetrySlots(input) /\ slots <= held.left
             /\ slots = RetrySlots(input) \/ slots = held.left
             /\ Spend(input, held, w) \in Spendings
             /\ Spend(input, held, w).left = held.left - slots
             /\ Spend(input, held, w).amount.overflow = FALSE =>
                    /\ held.amount.overflow = FALSE
                    /\ Spend(input, held, w).amount.ms = held.amount.ms + w * slots
    <3>1. held \in Spendings /\ w \in Int
      BY <2>2, <2>4, <2>8
    <3> HIDE DEF Covers
    <3> QED BY <3>1, SpendKeeps
  <2>10. upTo[k + 1] = Spend(input, held, w)
    BY <1>12, <2>2, <2>3, <2>8
  <2>11. /\ held.left \in Int /\ held.left >= 0 /\ held.left <= budget
         /\ Used(k) <= budget - held.left
    BY <2>2, <2>8
  <2>12. slots \in Nat /\ upTo[k + 1].left = held.left - slots
    BY <2>9, <2>10, <2>11
  <2>13. upTo[k + 1] \in Spendings /\ upTo[k + 1].left \in 0..budget
    BY <2>9, <2>10, <2>11, <2>12
  <2>14. Used(k + 1) <= budget - upTo[k + 1].left
    <3>1. slots = slotsEach \/ slots = held.left
      BY <1>2, <2>9
    <3>2. x \in Nat /\ x <= slotsEach /\ Used(k + 1) = x + Used(k)
      BY <2>4, <2>6
    <3> QED BY ONLY <2>7, <2>11, <2>12, <3>1, <3>2, budget \in Nat, slotsEach \in Nat
  <2>15. ASSUME upTo[k + 1].amount.overflow = FALSE, NEW c \in Nat,
                \A j \in 1..(k + 1) : c <= costs[j]
         PROVE  Paid(k + 1) + c * (budget - upTo[k + 1].left - Used(k + 1))
                    <= upTo[k + 1].amount.ms - total.ms
    <3>1. held.amount.overflow = FALSE /\ upTo[k + 1].amount.ms = held.amount.ms + w * slots
      BY <2>9, <2>10, <2>15
    <3>2. \A j \in 1..k : w <= costs[j]
      <4>1. \A j \in 1..k : j \in 1..n /\ j <= k + 1
        BY <2>2
      <4> QED BY <1>8, <2>2, <2>3, <4>1
    <3>3. PICK undone : undone = budget - held.left - Used(k)
      OBVIOUS
    <3>4. Paid(k) + w * undone <= held.amount.ms - total.ms
      BY <2>2, <2>4, <2>8, <3>1, <3>2, <3>3
    <3>5. c <= w
      BY <2>2, <2>3, <2>15
    <3>6. undone \in Nat /\ x <= undone + slots
      <4>1. x \in Nat /\ Used(k + 1) = x + Used(k)
        BY <2>4, <2>6
      <4> QED BY ONLY <2>7, <2>11, <2>12, <2>14, <3>3, <4>1, budget \in Nat
    <3>7. PICK spent : spent = held.amount.ms - total.ms
      OBVIOUS
    <3>8. held.amount.ms \in Int /\ total.ms \in Int /\ spent \in Int
      <4>1. held \in Spendings
        BY <2>2, <2>8
      <4> HIDE DEF Covers
      <4> QED BY <3>7, <4>1 DEF Spendings, Amounts
    <3>9. (Paid(k) + x * w) + c * (undone + slots - x) <= spent + w * slots
      <4>1. Paid(k) + w * undone <= spent
        BY <3>4, <3>7
      <4> HIDE DEF Covers
      <4> QED BY <2>4, <2>7, <2>12, <3>5, <3>6, <3>8, <4>1, SpendMore
    <3>10. budget - upTo[k + 1].left - Used(k + 1) = undone + slots - x
      <4>1. x \in Nat /\ Used(k + 1) = x + Used(k)
        BY <2>4, <2>6
      <4> QED BY ONLY <2>7, <2>11, <2>12, <3>3, <4>1, budget \in Nat
    <3>11. x * w \in Int /\ w * slots \in Int
      BY <2>4, <2>12
    <3>12. Paid(k + 1) = Paid(k) + x * w
      BY <2>6, <2>7, <3>11
    <3>13. upTo[k + 1].amount.ms - total.ms = spent + w * slots
      BY <3>1, <3>7, <3>8, <3>11
    <3> QED BY ONLY <3>9, <3>10, <3>12, <3>13
  <2> QED BY <2>13, <2>14, <2>15
<1>19. \A k \in Nat : k \in P
  <2> HIDE DEF P
  <2> QED BY <1>17, <1>18, EveryNumber
<1>20. Covers(n)
  <2> HIDE DEF Covers
  <2> QED BY <1>19
<1>21. Had(n) = 1..n
  <2>1. \A i \in 1..n : Place(estimates, i) \in 1..n
    BY <1>4, Places
  <2> QED BY <2>1
<1>22. \A j \in 1..n : 0 <= costs[j]
  BY <1>9
<1>23. Paid(n) + 0 * (budget - upTo[n].left - Used(n)) <= upTo[n].amount.ms - total.ms
  <2> HIDE DEF Paid, Used, Had
  <2> QED BY <1>14, <1>20, <1>22
<1>24. /\ Paid(n) \in Int /\ Used(n) \in Int /\ upTo[n].left \in Int
       /\ total.ms \in Int /\ upTo[n].amount.ms \in Int
  <2> HIDE DEF Paid, Used, Had
  <2> QED BY <1>16, <1>20 DEF Spendings, Amounts
<1>25. total.ms + Paid(n) <= upTo[n].amount.ms
  <2> HIDE DEF Paid, Used, Had
  <2> QED BY <1>23, <1>24
<1>26. PICK spent : spent = SpendRetries(input, total, estimates)
  OBVIOUS
<1>27. Paid(n) = SumFunctionOnSet(more, 1..n)
  BY <1>21
<1>28. spent.ms \in Int /\ total.ms + SumFunctionOnSet(more, 1..n) <= spent.ms
  <2> HIDE DEF Paid, Used, Had
  <2> QED BY <1>14, <1>24, <1>25, <1>26, <1>27
<1> QED BY ONLY <1>26, <1>28 DEF RetriesCovered
-----------------------------------------------------------------------------
(* The lists the planner builds.                                           *)

\* A flattened list holds what the flattened lists hold.
LEMMA Flattened ==
    ASSUME NEW V, NEW seqs \in Seq(Seq(V))
    PROVE  FlattenSeq(seqs) \in Seq(V)
<1>1. PICK n \in Nat : n = Len(seqs)
  OBVIOUS
<1>2. CASE n = 0
  <2>1. seqs \in Seq(V)
    <3>1. seqs \in [1..n -> Seq(V)]
      BY <1>1
    <3>2. \A i \in 1..n : seqs[i] \in V
      BY <1>2
    <3>3. seqs \in [1..n -> V]
      BY ONLY <3>1, <3>2
    <3> QED BY ONLY <3>3, n \in Nat
  <2>2. FlattenSeq(seqs) = seqs
    BY <1>1, <1>2 DEF FlattenSeq
  <2> QED BY <2>1, <2>2
<1>3. CASE n > 0
  <2> DEFINE S == 1..n
             Rest(f, i) == IF i = 1 THEN seqs[i] ELSE f[i - 1] \o seqs[i]
             chosen == CHOOSE f : f = [i \in S |-> Rest(f, i)]
             step == [i \in S |-> [v \in Seq(V) |-> v \o seqs[i]]]
             pick == [s \in SUBSET S |-> Max(s)]
  <2>1. FlattenSeq(seqs) = chosen[n]
    BY <1>1, <1>3 DEF FlattenSeq
  <2>2. \A i \in S : seqs[i] \in Seq(V)
    BY <1>1
  <2>3. PICK F : Answers(F, S, Seq(V), << >>, step, pick)
    <3>1. \A i \in S : \A v \in Seq(V) : step[i][v] \in Seq(V)
      BY <2>2
    <3>2. \A s \in SUBSET S : s # {} => pick[s] \in s
      BY Greatest
    <3>3. IsFiniteSet(S)
      BY FS_Interval
    <3>4. << >> \in Seq(V)
      OBVIOUS
    <3> HIDE DEF step, pick, S
    <3> QED BY <3>1, <3>2, <3>3, <3>4, FoldExists
  <2> DEFINE f == [i \in S |-> F[1..i]]
  <2>4. ASSUME NEW i \in S PROVE f[i] \in Seq(V)
    <3>1. 1..i \in SUBSET S
      OBVIOUS
    <3>2. F[1..i] \in Seq(V)
      BY <2>3, <3>1 DEF Answers
    <3> QED BY <3>2
  <2>5. F[{}] = << >>
    BY <2>3 DEF Answers
  <2>6. ASSUME NEW i \in S PROVE F[1..i] = F[1..(i - 1)] \o seqs[i]
    <3>1. /\ 1..i \in SUBSET S /\ 1..i # {} /\ Max(1..i) = i
          /\ (1..i) \ {i} = 1..(i - 1)
      BY Segment
    <3>2. F[1..i] = step[pick[1..i]][F[(1..i) \ {pick[1..i]}]]
      BY <2>3, <3>1 DEF Answers
    <3>3. pick[1..i] = i
      BY <3>1
    <3>4. F[1..i] = step[i][F[1..(i - 1)]]
      BY <3>1, <3>2, <3>3
    <3>5. F[1..(i - 1)] \in Seq(V)
      <4>1. 1..(i - 1) \in SUBSET S
        OBVIOUS
      <4> QED BY <2>3, <4>1 DEF Answers
    <3> QED BY <3>4, <3>5
  <2>7. ASSUME NEW i \in S PROVE f[i] = Rest(f, i)
    <3>1. CASE i = 1
      <4>1. 1..(i - 1) = {}
        BY <3>1
      <4>2. F[1..i] = << >> \o seqs[i]
        BY <2>5, <2>6, <4>1
      <4>3. seqs[i] \in Seq(V)
        BY <2>2
      <4>4. << >> \o seqs[i] = seqs[i]
        BY <4>3
      <4> QED BY <3>1, <4>2, <4>4
    <3>2. CASE i # 1
      <4>1. i - 1 \in S
        BY <3>2
      <4> QED BY <2>6, <3>2, <4>1
    <3> QED BY <3>1, <3>2
  <2>8. f = [i \in S |-> Rest(f, i)]
    <3>1. f = [i \in S |-> f[i]]
      OBVIOUS
    <3> HIDE DEF f, Rest
    <3> QED BY <2>7, <3>1
  <2>9. chosen = [i \in S |-> Rest(chosen, i)]
    <3> HIDE DEF f, Rest
    <3> QED BY <2>8
  <2>10. \A i \in S : chosen[i] = Rest(chosen, i)
    <3> HIDE DEF chosen, Rest
    <3> QED BY <2>9
  <2> HIDE DEF chosen
  <2> DEFINE P == {k \in Nat : k + 1 <= n => chosen[k + 1] \in Seq(V)}
  <2>11. 0 \in P
    <3>1. chosen[1] = seqs[1] /\ 1 \in S
      BY <1>3, <2>10
    <3> QED BY <2>2, <3>1
  <2>12. ASSUME NEW k \in Nat, k \in P PROVE k + 1 \in P
    <3>1. SUFFICES ASSUME k + 1 + 1 <= n PROVE chosen[k + 1 + 1] \in Seq(V)
      OBVIOUS
    <3>2. chosen[k + 1] \in Seq(V)
      BY <2>12, <3>1
    <3>3. k + 2 \in S /\ k + 2 # 1 /\ (k + 2) - 1 = k + 1
      BY <3>1
    <3>4. chosen[k + 2] = chosen[k + 1] \o seqs[k + 2]
      BY <2>10, <3>3
    <3>5. seqs[k + 2] \in Seq(V)
      BY <2>2, <3>3
    <3>6. chosen[k + 1] \o seqs[k + 2] \in Seq(V)
      BY <3>2, <3>5
    <3>7. chosen[k + 2] \in Seq(V)
      BY <3>4, <3>6
    <3>8. k + 1 + 1 = k + 2
      OBVIOUS
    <3> QED BY ONLY <3>7, <3>8
  <2>13. \A k \in Nat : k \in P
    <3> HIDE DEF P
    <3> QED BY <2>11, <2>12, EveryNumber
  <2>14. n - 1 \in P /\ (n - 1) + 1 = n
    BY <1>3, <2>13
  <2>15. chosen[n] \in Seq(V)
    BY <2>14
  <2> QED BY <2>1, <2>15
<1> QED BY <1>2, <1>3

-----------------------------------------------------------------------------
(* A plan that raises no conflict.                                         *)

LEMMA WhenEmpty ==
    ASSUME NEW condition, NEW code, When(condition, code) = {}
    PROVE  ~condition
<1> QED BY DEF When

\* A plan that may be activated raised no conflict.
LEMMA AllowedIsQuiet ==
    ASSUME NEW input, NEW partitions, PlanOver(input, partitions).allowed
    PROVE  /\ EnvelopeConflicts(input) = {} /\ ClassificationConflicts(input) = {}
           /\ HistoryConflicts(input) = {} /\ PartitionConflicts(input, partitions) = {}
           /\ CostConflicts(input, partitions, Costs(input, partitions)) = {}
<1> DEFINE costs == Costs(input, partitions)
           codes == EnvelopeConflicts(input) \union ClassificationConflicts(input)
                    \union HistoryConflicts(input) \union PartitionConflicts(input, partitions)
                    \union CostConflicts(input, partitions, costs)
<1> HIDE DEF costs
<1>1. PlanOver(input, partitions) = Plan(input, partitions, costs, codes)
  BY DEF PlanOver, costs
<1> HIDE DEF codes
<1>2. Plan(input, partitions, costs, codes).allowed = (codes = {})
  BY DEF Plan
<1>3. codes = {}
  BY <1>1, <1>2
<1> QED BY <1>3 DEF codes, costs

LEMMA QuietEnvelope ==
    ASSUME NEW input, EnvelopeConflicts(input) = {}, input.boundBefore \in BOOLEAN
    PROVE  input.boundBefore = TRUE
<1>1. When(~input.boundBefore, "activation_predates_policy") = {}
  BY DEF EnvelopeConflicts
<1> QED BY <1>1, WhenEmpty

LEMMA QuietClassification ==
    ASSUME NEW input, ClassificationConflicts(input) = {}, input.classifiedFirst \in BOOLEAN
    PROVE  input.classifiedFirst = TRUE /\ CatalogEntries(input) = DOMAIN input.tests
<1>1. /\ When(~input.classifiedFirst, "classification_after_partitioning") = {}
      /\ When(CatalogEntries(input) # DOMAIN input.tests, "test_catalog_identity_invalid") = {}
  BY DEF ClassificationConflicts
<1> QED BY <1>1, WhenEmpty

-----------------------------------------------------------------------------
(* Estimates.                                                              *)

LEMMA EmptyList == ASSUME NEW V, NEW list \in Seq(V), Len(list) = 0 PROVE list = << >>
<1>1. list # << >> => Len(list) \in Nat \ {0}
  OBVIOUS
<1> QED BY <1>1

\* A history of samples that raises no conflict has some.
LEMMA UsableSamples ==
    ASSUME NEW samples \in Seq(Int), SampleConflicts(samples) = {}
    PROVE  \E n \in Nat : /\ n > 0 /\ Len(samples) = n /\ DOMAIN samples = 1..n
                          /\ \A i \in 1..n : samples[i] \in Int
<1>1. PICK n \in Nat : n = Len(samples)
  OBVIOUS
<1>2. DOMAIN samples = 1..n /\ \A i \in 1..n : samples[i] \in Int
  BY <1>1
<1>3. ASSUME n = 0 PROVE FALSE
  <2>1. samples = << >>
    BY <1>1, <1>3, EmptyList
  <2> QED BY <2>1 DEF SampleConflicts
<1> QED BY <1>1, <1>2, <1>3

\* Its estimate is the nearest rank.
LEMMA UsableEstimate ==
    ASSUME NEW samples \in Seq(Int), SampleConflicts(samples) = {}
    PROVE  /\ NearestRank95(samples) \in Int /\ NearestRank95(samples) \in Range(samples)
           /\ 100 * Within(samples, NearestRank95(samples)) >= 95 * Len(samples)
           /\ \A less \in Range(samples) :
                less < NearestRank95(samples) => 100 * Within(samples, less) < 95 * Len(samples)
<1>1. PICK n \in Nat : /\ n > 0 /\ Len(samples) = n /\ DOMAIN samples = 1..n
                       /\ \A i \in 1..n : samples[i] \in Int
  BY UsableSamples
<1>2. PICK e \in 1..n :
        /\ NearestRank95(samples) = samples[e]
        /\ 100 * Within(samples, samples[e]) >= 95 * n
        /\ \A l \in 1..n : samples[l] < samples[e] => 100 * Within(samples, samples[l]) < 95 * n
  BY <1>1, NearestRank
<1>3. samples[e] \in Int /\ samples[e] \in Range(samples)
  BY <1>1 DEF Range
<1>4. ASSUME NEW less \in Range(samples), less < samples[e]
      PROVE  100 * Within(samples, less) < 95 * n
  <2>1. PICK l \in 1..n : less = samples[l]
    BY <1>1 DEF Range
  <2> QED BY <1>2, <1>4, <2>1
<1> QED BY <1>1, <1>2, <1>3, <1>4

\* An estimate is a whole number.
LEMMA EstimateIsWhole ==
    ASSUME NEW input, PlanInput(input), NEW test
    PROVE  Estimate(input, test) \in Int
<1> DEFINE entries == {i \in UsableHistory(input) \ RepeatedHistory(input) :
                            input.history[i].test = test}
           entry == CHOOSE i \in entries : TRUE
<1>1. CASE entries = {}
  <2>1. Estimate(input, test) = 0
    BY <1>1 DEF Estimate
  <2> QED BY <2>1
<1>2. CASE entries # {}
  <2>1. Estimate(input, test) = NearestRank95(input.history[entry].samples)
    BY <1>2 DEF Estimate
  <2>2. entry \in UsableHistory(input)
    BY <1>2
  <2> HIDE DEF entry
  <2>3. /\ input.history[entry].samples \in Seq(Int)
        /\ SampleConflicts(input.history[entry].samples) = {}
    BY <2>2 DEF UsableHistory, PlanInput
  <2> QED BY <2>1, <2>3, UsableEstimate
<1> QED BY <1>1, <1>2

LEMMA QuietHistory ==
    ASSUME NEW input, HistoryConflicts(input) = {}
    PROVE  /\ RepeatedHistory(input) = {}
           /\ \A i \in DOMAIN input.history : SampleConflicts(input.history[i].samples) = {}
<1>1. When(RepeatedHistory(input) # {}, "duration_history_duplicate") = {}
  BY DEF HistoryConflicts
<1>2. RepeatedHistory(input) = {}
  BY <1>1, WhenEmpty
<1>3. UNION {SampleConflicts(input.history[i].samples) :
                i \in DOMAIN input.history \ RepeatedHistory(input)} = {}
  BY DEF HistoryConflicts
<1> QED BY <1>2, <1>3

\* Without a conflict in the history, every estimate is that of the test's one entry.
LEMMA QuietEstimate ==
    ASSUME NEW input, PlanInput(input), HistoryConflicts(input) = {},
           NEW i \in DOMAIN input.history
    PROVE  /\ input.history[i].samples \in Seq(Int)
           /\ SampleConflicts(input.history[i].samples) = {}
           /\ Estimate(input, input.history[i].test) = NearestRank95(input.history[i].samples)
<1>1. /\ RepeatedHistory(input) = {}
      /\ \A j \in DOMAIN input.history : SampleConflicts(input.history[j].samples) = {}
  BY QuietHistory
<1>2. UsableHistory(input) = DOMAIN input.history
  BY <1>1 DEF UsableHistory
<1>3. DOMAIN input.history \in SUBSET Int
  BY DEF PlanInput
<1> DEFINE entries == {j \in UsableHistory(input) \ RepeatedHistory(input) :
                            input.history[j].test = input.history[i].test}
           entry == CHOOSE j \in entries : TRUE
<1>4. i \in entries
  BY <1>1, <1>2
<1>5. ASSUME NEW j \in entries PROVE j = i
  <2>1. /\ i \in DOMAIN input.history /\ j \in DOMAIN input.history /\ i \in Int /\ j \in Int
        /\ input.history[j].test = input.history[i].test
    BY <1>2, <1>3
  <2>2. i \notin RepeatedHistory(input) /\ j \notin RepeatedHistory(input)
    BY <1>1
  <2>3. ~(j < i) /\ ~(i < j)
    BY <1>2, <2>1, <2>2 DEF RepeatedHistory
  <2> QED BY <2>1, <2>3
<1>6. entry = i
  BY <1>4, <1>5
<1>7. Estimate(input, input.history[i].test) = NearestRank95(input.history[entry].samples)
  BY <1>4 DEF Estimate
<1>8. input.history[i].samples \in Seq(Int)
  BY DEF PlanInput
<1> HIDE DEF entry
<1> QED BY <1>1, <1>6, <1>7, <1>8

-----------------------------------------------------------------------------
(* Partitions.                                                             *)

\* A set listed and sorted is a list of its members.
LEMMA ListedInOrder ==
    ASSUME NEW S, IsFiniteSet(S), \A x \in S : x \in Nat
    PROVE  Ascending(SetToSeq(S)) \in Seq(S)
<1>1. PICK n \in Nat : n = Cardinality(S)
  BY FS_CardinalityType
<1>2. \E f : f \in [1..n -> S] /\ IsInjective(f)
  BY <1>1, FS_CardinalityType DEF ExistsBijection, Bijection, Injection
<1>3. PICK listed : listed = SetToSeq(S)
  OBVIOUS
<1>4. listed \in [1..n -> S]
  <2>1. listed = CHOOSE f \in [1..n -> S] : IsInjective(f)
    BY <1>1, <1>3 DEF SetToSeq
  <2> QED BY <1>2, <2>1
<1>5. DOMAIN listed = 1..n /\ \A i \in 1..n : listed[i] \in S /\ listed[i] \in Int
  BY <1>4
<1>6. PICK at : Sorts(at, listed, n)
  BY <1>5, Sorted
<1>7. at \in [1..n -> 1..n] /\ Ascending(listed) = [k \in 1..n |-> listed[at[k]]]
  BY <1>6 DEF Sorts
<1>8. \A k \in 1..n : listed[at[k]] \in S
  BY <1>5, <1>7
<1>9. Ascending(listed) \in [1..n -> S]
  BY <1>7, <1>8
<1>10. Ascending(listed) \in Seq(S)
  BY ONLY <1>9, n \in Nat
<1> QED BY <1>3, <1>10

\* The tests of one class in a request are known to the catalog.
LEMMA OfClassIsList ==
    ASSUME NEW input, PlanInput(input), NEW r \in DOMAIN input.requests, NEW class
    PROVE  OfClass(input, input.requests[r], class) \in Seq(Nat \intersect DOMAIN Catalog(input))
<1> DEFINE known == Nat \intersect DOMAIN Catalog(input)
<1>1. PICK tests : tests = input.requests[r].tests
  OBVIOUS
<1>2. tests \in Seq(Nat)
  BY <1>1 DEF PlanInput
<1>3. PICK n \in Nat : n = Len(tests)
  BY <1>2
<1>4. tests \in Surjection(1..n, Range(tests)) /\ \A x \in Range(tests) : x \in Nat
  <2>1. tests \in [1..n -> Nat] /\ DOMAIN tests = 1..n
    BY <1>2, <1>3
  <2>2. tests \in [1..n -> Range(tests)]
    BY <2>1 DEF Range
  <2> QED BY <2>1, <2>2 DEF Range, Surjection
<1>5. IsFiniteSet(Range(tests))
  <2>1. n \in Int /\ 1 \in Int
    OBVIOUS
  <2>2. IsFiniteSet(1..n)
    BY <2>1, FS_Interval
  <2> QED BY <1>4, <2>2, FS_Surjection
<1>6. PICK S : S = {id \in Range(tests) \intersect DOMAIN Catalog(input) :
                        Catalog(input)[id].class = class}
  OBVIOUS
<1>7. OfClass(input, input.requests[r], class) = Ascending(SetToSeq(S))
  BY <1>1, <1>6 DEF OfClass
<1>8. S \in SUBSET Range(tests) /\ S \in SUBSET known
  BY <1>4, <1>6
<1>9. IsFiniteSet(S)
  BY <1>5, <1>8, FS_Subset
<1>10. Ascending(SetToSeq(S)) \in Seq(S)
  BY <1>4, <1>8, <1>9, ListedInOrder
<1> HIDE DEF known
<1>11. Ascending(SetToSeq(S)) \in Seq(known)
  BY <1>8, <1>10
<1> QED BY <1>7, <1>11 DEF known

\* A known test is one of the input's.
LEMMA CatalogRepeats ==
    ASSUME NEW input, PlanInput(input), NEW id \in DOMAIN Catalog(input)
    PROVE  Catalog(input)[id].repeat \in Int
<1> DEFINE entry == CHOOSE i \in CatalogEntries(input) : input.tests[i].id = id
<1>1. /\ id \in {input.tests[i].id : i \in CatalogEntries(input)}
      /\ Catalog(input)[id] = input.tests[entry]
  BY DEF Catalog
<1>2. entry \in CatalogEntries(input)
  BY <1>1
<1>3. entry \in DOMAIN input.tests
  BY <1>2 DEF CatalogEntries, FirstWith
<1> HIDE DEF entry
<1> QED BY <1>1, <1>3 DEF PlanInput

LEMMA NodeBudgetIsWhole ==
    ASSUME NEW input, PlanInput(input), NEW partition
    PROVE  NodeBudget(input, partition) \in Int
<1> DEFINE mine == BudgetsOf(input, partition)
           chosen == CHOOSE i \in mine : \A j \in mine : j <= i
<1>1. CASE mine = {}
  <2>1. NodeBudget(input, partition) = 0
    BY <1>1 DEF NodeBudget
  <2> QED BY <2>1
<1>2. CASE mine # {}
  <2>1. NodeBudget(input, partition) = input.nodeBudgets[chosen].ms
    BY <1>2 DEF NodeBudget
  <2>2. input.nodeBudgets \in Seq(Range(input.nodeBudgets))
    BY DEF PlanInput
  <2>3. PICK n \in Nat : DOMAIN input.nodeBudgets = 1..n
    BY <2>2
  <2>4. mine \in SUBSET (1..n)
    BY <2>3 DEF BudgetsOf, UsableBudgets
  <2> HIDE DEF mine
  <2>5. Max(mine) \in mine /\ \A j \in mine : j <= Max(mine)
    BY <1>2, <2>4, Greatest
  <2>6. chosen \in mine
    BY <2>5
  <2> HIDE DEF chosen
  <2>7. input.nodeBudgets[chosen].ms \in Int
    BY <2>3, <2>4, <2>6 DEF PlanInput
  <2> QED BY <2>1, <2>7
<1> QED BY <1>1, <1>2

\* What a planned partition costs and may cost, whatever its retry allowance.
Sound(partition) ==
    /\ partition.estimate \in Nat /\ partition.nodeBudget \in Int
    /\ \A ms : /\ [partition EXCEPT !.retryAllowance = ms].estimate = partition.estimate
               /\ [partition EXCEPT !.retryAllowance = ms].nodeBudget = partition.nodeBudget
               /\ [partition EXCEPT !.retryAllowance = ms].retryAllowance = ms

LEMMA PartitionIsSound ==
    ASSUME NEW input, PlanInput(input), NEW request, NEW class,
           NEW tests \in Seq(Nat), NEW repeat \in Int
    PROVE  Sound(Partition(input, request, class, tests, repeat))
<1>1. PICK n \in Nat : n = Len(tests)
  OBVIOUS
<1>2. PICK runs : runs = [i \in DOMAIN tests |->
                            CheckedMultiply(Estimate(input, tests[i]), repeat)]
  OBVIOUS
<1>3. DOMAIN runs = 1..n /\ \A i \in 1..n : runs[i] \in Amounts
  <2>1. DOMAIN tests = 1..n
    BY <1>1
  <2>2. ASSUME NEW i \in 1..n PROVE runs[i] \in Amounts
    <3>1. runs[i] = CheckedMultiply(Estimate(input, tests[i]), repeat)
      BY <1>2, <2>1
    <3>2. Estimate(input, tests[i]) \in Int
      BY EstimateIsWhole
    <3> QED BY <3>1, <3>2, CheckedProduct
  <2> QED BY <1>2, <2>1, <2>2
<1>4. Total(runs) \in Amounts
  <2>1. PICK ms : ms = [i \in 1..n |-> runs[i].ms]
    OBVIOUS
  <2>2. \A i \in 1..n : ms[i] = runs[i].ms
    BY <2>1
  <2>3. TotalsTo(runs, ms, n)
    BY <1>3, <2>2, TotalSum
  <2> QED BY <2>3 DEF TotalsTo
<1>5. input.setup \in Int /\ input.safety \in Int
  BY DEF PlanInput
<1>6. PICK cost : cost = CheckedAdd(Total(runs), input.setup)
  OBVIOUS
<1>7. cost \in Amounts
  BY <1>4, <1>5, <1>6, CheckedAddition
<1>8. PICK whole : whole = CheckedAdd(cost, input.safety)
  OBVIOUS
<1>9. whole.ms \in Nat
  <2>1. whole.ms \in 0..MaxInt
    BY <1>5, <1>7, <1>8, CheckedAddition
  <2> QED BY <2>1
<1>10. PICK over : over = (Total(runs).overflow \/ cost.overflow \/ whole.overflow)
  OBVIOUS
<1>11. PICK requested, budget :
            requested = Catalog(input)[tests[1]].repeat /\ budget = NodeBudget(input, request.id)
  OBVIOUS
<1>12. budget \in Int
  BY <1>11, NodeBudgetIsWhole
<1>13. PICK partition : partition = Partition(input, request, class, tests, repeat)
  OBVIOUS
<1>13a. PICK named : named = IF class = "scale" THEN tests ELSE << >>
  OBVIOUS
<1>14. partition =
        [id |-> <<request.id, class, named>>, node |-> <<request.node, class, named>>,
         class |-> class, tests |-> tests, requested |-> requested, repeat |-> repeat,
         estimate |-> whole.ms, overflow |-> over, nodeBudget |-> budget, retryAllowance |-> 0]
  BY <1>2, <1>6, <1>8, <1>10, <1>11, <1>13, <1>13a DEF Partition
<1>15. Sound(partition)
  BY ONLY <1>9, <1>12, <1>14 DEF Sound
<1> QED BY <1>13, <1>15

\* The partitions an input may be planned into.
Plannable(input) ==
    {Partition(input, input.requests[r], class, tests, repeat) :
        r \in DOMAIN input.requests, class \in {"scale", "regular"},
        tests \in Seq(Nat), repeat \in Int}

LEMMA PlannedIsPlannable ==
    ASSUME NEW input, PlanInput(input)
    PROVE  PlannedPartitions(input) \in Seq(Plannable(input))
<1> DEFINE V == Plannable(input)
           parts == [r \in DOMAIN input.requests |-> PartitionsOf(input, input.requests[r])]
<1>1. input.requests \in Seq(Range(input.requests))
  BY DEF PlanInput
<1>2. PICK n \in Nat : DOMAIN input.requests = 1..n
  BY <1>1
<1>3. ASSUME NEW r \in DOMAIN input.requests
      PROVE  PartitionsOf(input, input.requests[r]) \in Seq(V)
  <2>1. PICK request : request = input.requests[r]
    OBVIOUS
  <2>2. \A class \in {"scale", "regular"}, tests \in Seq(Nat), repeat \in Int :
            Partition(input, request, class, tests, repeat) \in V
    BY <2>1 DEF Plannable
  <2> DEFINE known == Nat \intersect DOMAIN Catalog(input)
  <2>3. PICK scales, regular : scales = OfClass(input, request, "scale")
                               /\ regular = OfClass(input, request, "regular")
    OBVIOUS
  <2>4. scales \in Seq(known) /\ regular \in Seq(known)
    BY <2>1, <2>3, OfClassIsList
  <2> HIDE DEF V
  <2>5. PICK first : first =
            [i \in DOMAIN scales |-> Partition(input, request, "scale", <<scales[i]>>, 1)]
    OBVIOUS
  <2>6. first \in Seq(V)
    <3>1. PICK m \in Nat : DOMAIN scales = 1..m
      BY <2>4
    <3>2. ASSUME NEW i \in 1..m
          PROVE  Partition(input, request, "scale", <<scales[i]>>, 1) \in V
      <4>1. scales[i] \in Nat
        BY <2>4, <3>1
      <4>2. <<scales[i]>> \in Seq(Nat)
        BY <4>1
      <4>3. PICK tests \in Seq(Nat) : tests = <<scales[i]>>
        BY <4>2
      <4>4. Partition(input, request, "scale", tests, 1) \in V
        BY <2>2
      <4> QED BY <4>3, <4>4
    <3>3. first \in [1..m -> V]
      BY <2>5, <3>1, <3>2
    <3> QED BY ONLY <3>3, m \in Nat
  <2>7. PICK second : second =
            IF regular = <<>> THEN <<>>
            ELSE <<Partition(input, request, "regular", regular,
                             Catalog(input)[regular[1]].repeat)>>
    OBVIOUS
  <2>8. second \in Seq(V)
    <3>1. CASE regular = <<>>
      BY <2>7, <3>1
    <3>2. CASE regular # <<>>
      <4>1. regular[1] \in known
        <5>1. Len(regular) \in Nat \ {0}
          BY <2>4, <3>2
        <5> HIDE DEF known
        <5> QED BY <2>4, <5>1
      <4>2. Catalog(input)[regular[1]].repeat \in Int
        BY <4>1, CatalogRepeats
      <4>3. regular \in Seq(Nat)
        BY <2>4
      <4>4. Partition(input, request, "regular", regular,
                      Catalog(input)[regular[1]].repeat) \in V
        BY <2>2, <4>2, <4>3
      <4> QED BY <2>7, <3>2, <4>4
    <3> QED BY <3>1, <3>2
  <2>9. PartitionsOf(input, request) = first \o second
    BY <2>3, <2>5, <2>7 DEF PartitionsOf
  <2> QED BY <2>1, <2>6, <2>8, <2>9
<1> HIDE DEF V
<1>4. parts \in Seq(Seq(V))
  <2>1. parts \in [1..n -> Seq(V)]
    BY <1>2, <1>3
  <2> HIDE DEF parts
  <2> QED BY ONLY <2>1, n \in Nat
<1>5. PlannedPartitions(input) = FlattenSeq(parts)
  BY DEF PlannedPartitions
<1> HIDE DEF parts
<1>6. FlattenSeq(parts) \in Seq(V)
  BY <1>4, Flattened
<1> QED BY <1>5, <1>6 DEF V

\* Every planned partition costs a whole number.
LEMMA PlannedIsSound ==
    ASSUME NEW input, PlanInput(input)
    PROVE  \E n \in Nat : /\ Len(PlannedPartitions(input)) = n
                          /\ DOMAIN PlannedPartitions(input) = 1..n
                          /\ \A i \in 1..n : Sound(PlannedPartitions(input)[i])
<1>1. PICK partitions : partitions = PlannedPartitions(input)
  OBVIOUS
<1>2. partitions \in Seq(Plannable(input))
  BY <1>1, PlannedIsPlannable
<1>3. PICK n \in Nat : n = Len(partitions)
  BY <1>2
<1>4. DOMAIN partitions = 1..n
  BY <1>2, <1>3
<1>5. ASSUME NEW i \in 1..n PROVE Sound(partitions[i])
  <2>1. partitions[i] \in Plannable(input)
    BY <1>2, <1>3
  <2>2. PICK r \in DOMAIN input.requests, class \in {"scale", "regular"},
             tests \in Seq(Nat), repeat \in Int :
                partitions[i] = Partition(input, input.requests[r], class, tests, repeat)
    BY <2>1 DEF Plannable
  <2> QED BY <2>2, PartitionIsSound
<1> QED BY <1>1, <1>3, <1>4, <1>5

-----------------------------------------------------------------------------
(* What the plan sets aside covers its worst case.                         *)

LEMMA QuietRetry ==
    ASSUME NEW input, PlanInput(input), EnvelopeConflicts(input) = {}
    PROVE  /\ input.retry.present = TRUE /\ input.retry.attempts \in 1..4
           /\ Attempts(input) = input.retry.attempts
           /\ RetrySlots(input) = input.retry.attempts - 1
           /\ RetrySlots(input) \in Nat /\ Attempts(input) \in Nat
<1>1. RetryConflicts(input.retry) = {}
  BY DEF EnvelopeConflicts
<1>2. input.retry.present \in BOOLEAN
  BY DEF PlanInput
<1>3. input.retry.present = TRUE
  <2>1. ASSUME ~input.retry.present PROVE FALSE
    BY <1>1, <2>1 DEF RetryConflicts
  <2> QED BY <1>2, <2>1
<1>4. When(input.retry.attempts \notin 1..4 \/ ~input.retry.described,
           "retry_policy_incomplete") = {}
  BY <1>1, <1>3 DEF RetryConflicts
<1>5. ~(input.retry.attempts \notin 1..4 \/ ~input.retry.described)
  BY <1>4, WhenEmpty
<1>6. PICK attempts \in 1..4 : attempts = input.retry.attempts
  BY <1>5
<1>7. Attempts(input) = attempts
  BY <1>3, <1>6 DEF Attempts
<1>8. RetrySlots(input) = attempts - 1
  BY <1>7 DEF RetrySlots
<1> QED BY <1>3, <1>6, <1>7, <1>8

\* What a plan without a conflict in its costs has ruled out.
LEMMA QuietCosts ==
    ASSUME NEW input, NEW partitions, NEW costs, CostConflicts(input, partitions, costs) = {}
    PROVE  /\ ~costs.total.overflow /\ ~costs.everyRetry.overflow /\ ~costs.spent.overflow
           /\ \A i \in DOMAIN partitions :
                /\ ~(partitions[i].estimate > input.perAttempt)
                /\ ~(WithRetry(input, partitions[i]) > input.totalNode)
                /\ ~(partitions[i].estimate > partitions[i].nodeBudget)
                /\ ~(WithRetry(input, partitions[i]) > partitions[i].nodeBudget)
           /\ LimitsRetries(input) =>
                /\ ~(input.retry.total < 0)
                /\ ~(input.retry.total > RetryCapacity(input, Len(partitions)))
           /\ ~(costs.spent.ms > input.lease.max)
<1>1. /\ When(\/ \E i \in DOMAIN partitions : partitions[i].overflow
              \/ costs.total.overflow \/ costs.everyRetry.overflow \/ costs.spent.overflow,
              "duration_arithmetic_overflow") = {}
      /\ When(\E i \in DOMAIN partitions : partitions[i].estimate > input.perAttempt,
              "timeout_below_estimate") = {}
      /\ When(\E i \in DOMAIN partitions : WithRetry(input, partitions[i]) > input.totalNode,
              "retry_total_timeout_exceeded") = {}
      /\ When(\E i \in DOMAIN partitions : partitions[i].estimate > partitions[i].nodeBudget,
              "partition_node_budget_exceeded") = {}
      /\ When(\E i \in DOMAIN partitions :
                    WithRetry(input, partitions[i]) > partitions[i].nodeBudget,
              "retry_node_budget_exceeded") = {}
      /\ When(LimitsRetries(input) /\ input.retry.total < 0, "retry_budget_invalid") = {}
      /\ When(LimitsRetries(input)
              /\ input.retry.total > RetryCapacity(input, Len(partitions)),
              "retry_budget_exceeds_attempt_capacity") = {}
      /\ When(costs.spent.ms > input.lease.max, "lease_budget_exceeded") = {}
  BY DEF CostConflicts
<1> QED BY <1>1, WhenEmpty

\* The retries may use only the attempts beyond the first.
LEMMA RetryWithin ==
    ASSUME NEW e \in Nat, NEW attempts \in 1..4, NEW x \in Nat, x <= attempts - 1
    PROVE  /\ (x + 1) * e = e + x * e /\ (x + 1) * e \in Nat /\ x * e \in Nat
           /\ (x + 1) * e <= e * attempts /\ e * attempts \in Nat
<1>1. PICK y \in Nat : y = x + 1
  OBVIOUS
<1>2. attempts \in Nat /\ y <= attempts
  BY <1>1
<1>3. y * e \in Int /\ attempts * e \in Int /\ y * e <= attempts * e
  BY <1>2, Products
<1>4. attempts * e = e * attempts /\ y * e = e + x * e /\ x * e \in Nat
  BY <1>1, <1>2
<1> QED BY <1>1, <1>3, <1>4

\* However the retries of the policy fall on the partitions of a plan that raises no
\* conflict, their costs stay within what the plan sets aside, and that within the lease;
\* each stays within its node's budget and total timeout.
CostsFit(input, partitions, n, extra, cost) ==
    /\ ~LimitsRetries(input) \/ SumFunctionOnSet(extra, 1..n) <= input.retry.total
            => /\ SumFunctionOnSet(cost, 1..n) <= Costs(input, partitions).spent.ms
               /\ Costs(input, partitions).spent.ms \in Int
               /\ Costs(input, partitions).spent.ms <= input.lease.max
    /\ \A i \in 1..n : /\ cost[i] \in Int /\ cost[i] <= input.totalNode
                       /\ cost[i] <= partitions[i].nodeBudget
                       /\ cost[i] <= WithRetry(input, partitions[i])

LEMMA CostsCovered ==
    ASSUME NEW input, PlanInput(input), EnvelopeConflicts(input) = {},
           NEW partitions, NEW n \in Nat, DOMAIN partitions = 1..n, Len(partitions) = n,
           \A i \in 1..n : Sound(partitions[i]),
           CostConflicts(input, partitions, Costs(input, partitions)) = {},
           NEW extra, \A i \in 1..n : extra[i] \in Nat /\ extra[i] <= RetrySlots(input),
           NEW cost, \A i \in 1..n : cost[i] = (extra[i] + 1) * partitions[i].estimate
    PROVE  CostsFit(input, partitions, n, extra, cost)
<1>1. PICK attempts \in 1..4 :
        /\ attempts = input.retry.attempts /\ Attempts(input) = attempts
        /\ RetrySlots(input) = attempts - 1
  BY QuietRetry
<1>2. PICK estimates : estimates = [i \in 1..n |-> partitions[i].estimate]
  OBVIOUS
<1>3. DOMAIN estimates = 1..n
      /\ \A i \in 1..n : estimates[i] = partitions[i].estimate /\ estimates[i] \in Nat
                         /\ estimates[i] \in Int
  BY <1>2 DEF Sound
<1>4. PICK amounts : amounts = [i \in 1..n |-> Amount(estimates[i])]
  OBVIOUS
<1>5. PICK products : products = [i \in 1..n |-> CheckedMultiply(estimates[i], attempts)]
  OBVIOUS
<1>6. PICK costs : costs = Costs(input, partitions)
  OBVIOUS
<1>7. /\ costs.total = Total(amounts) /\ costs.everyRetry = Total(products)
      /\ costs.spent = IF LimitsRetries(input)
                          /\ input.retry.total \in 0..RetryCapacity(input, n)
                       THEN SpendRetries(input, Total(amounts), estimates)
                       ELSE Total(products)
  BY <1>1, <1>2, <1>4, <1>5, <1>6, <1>3 DEF Costs
<1>8. /\ DOMAIN amounts = 1..n
      /\ \A i \in 1..n : amounts[i] \in Amounts /\ estimates[i] = amounts[i].ms
  BY <1>3, <1>4 DEF Amount, Amounts
<1>9. /\ DOMAIN products = 1..n
      /\ \A i \in 1..n : /\ products[i] \in Amounts
                         /\ products[i].overflow = FALSE =>
                                products[i].ms = estimates[i] * attempts
  <2>1. ASSUME NEW i \in 1..n
        PROVE  /\ products[i] \in Amounts
               /\ products[i].overflow = FALSE => products[i].ms = estimates[i] * attempts
    <3>1. products[i] = CheckedMultiply(estimates[i], attempts)
      BY <1>5
    <3>2. estimates[i] \in Int /\ attempts \in Int
      BY <1>3
    <3> QED BY <3>1, <3>2, CheckedProduct
  <2> QED BY <1>5, <2>1
<1>10. PICK priced : priced = [i \in 1..n |-> products[i].ms]
  OBVIOUS
<1>11. /\ Total(amounts) \in Amounts
       /\ Total(amounts).overflow = FALSE =>
            Total(amounts).ms = SumFunctionOnSet(estimates, 1..n)
  <2>1. TotalsTo(amounts, estimates, n)
    BY <1>8, TotalSum
  <2> QED BY <2>1 DEF TotalsTo
<1>12. /\ Total(products) \in Amounts
       /\ Total(products).overflow = FALSE =>
            /\ \A i \in 1..n : products[i].overflow = FALSE
            /\ Total(products).ms = SumFunctionOnSet(priced, 1..n)
  <2>1. \A i \in 1..n : products[i] \in Amounts
    BY <1>9
  <2>2. \A i \in 1..n : priced[i] = products[i].ms
    BY <1>10
  <2>3. DOMAIN products = 1..n
    BY <1>9
  <2>4. TotalsTo(products, priced, n)
    BY <2>1, <2>2, <2>3, TotalSum
  <2> QED BY <2>4 DEF TotalsTo
<1>13. /\ ~costs.total.overflow /\ ~costs.everyRetry.overflow /\ ~costs.spent.overflow
       /\ \A i \in 1..n : /\ ~(WithRetry(input, partitions[i]) > input.totalNode)
                          /\ ~(WithRetry(input, partitions[i]) > partitions[i].nodeBudget)
       /\ LimitsRetries(input) =>
            ~(input.retry.total < 0) /\ ~(input.retry.total > RetryCapacity(input, n))
       /\ ~(costs.spent.ms > input.lease.max)
  BY <1>6, QuietCosts
<1>14. Total(amounts).overflow = FALSE /\ Total(products).overflow = FALSE
  BY <1>7, <1>11, <1>12, <1>13 DEF Amounts
<1>15. \A i \in 1..n : /\ products[i].overflow = FALSE
                       /\ priced[i] = estimates[i] * attempts
                       /\ WithRetry(input, partitions[i]) = priced[i]
  <2>1. ASSUME NEW i \in 1..n
        PROVE  /\ products[i].overflow = FALSE
               /\ priced[i] = estimates[i] * attempts
               /\ WithRetry(input, partitions[i]) = priced[i]
    <3>1. products[i].overflow = FALSE
      BY <1>12, <1>14
    <3>2. priced[i] = products[i].ms
      BY <1>10
    <3>3. products[i] = CheckedMultiply(partitions[i].estimate, Attempts(input))
      BY <1>1, <1>3, <1>5
    <3>4. WithRetry(input, partitions[i]) = products[i].ms
      BY <3>3 DEF WithRetry
    <3> QED BY <1>9, <3>1, <3>2, <3>4
  <2> QED BY <2>1
<1>16. PICK more : more = [i \in 1..n |-> extra[i] * estimates[i]]
  OBVIOUS
<1>17. \A i \in 1..n : /\ more[i] = extra[i] * estimates[i]
                       /\ cost[i] = estimates[i] + more[i]
                       /\ cost[i] \in Int /\ more[i] \in Int /\ priced[i] \in Int
                       /\ cost[i] <= priced[i]
  <2>1. ASSUME NEW i \in 1..n
        PROVE  /\ more[i] = extra[i] * estimates[i]
               /\ cost[i] = estimates[i] + more[i]
               /\ cost[i] \in Int /\ more[i] \in Int /\ priced[i] \in Int
               /\ cost[i] <= priced[i]
    <3>1. PICK x \in Nat, e \in Nat : x = extra[i] /\ e = estimates[i]
      BY <1>3
    <3>2. x <= attempts - 1
      BY <1>1, <3>1
    <3>3. /\ (x + 1) * e = e + x * e /\ (x + 1) * e \in Nat /\ x * e \in Nat
          /\ (x + 1) * e <= e * attempts /\ e * attempts \in Nat
      BY <3>2, RetryWithin
    <3>4. cost[i] = (x + 1) * e /\ more[i] = x * e /\ priced[i] = e * attempts
      BY <1>3, <1>15, <1>16, <3>1
    <3> QED BY <3>1, <3>3, <3>4
  <2> QED BY <2>1
<1>18. IsFiniteSet(1..n)
  <2>1. n \in Int /\ 1 \in Int
    OBVIOUS
  <2> QED BY ONLY <2>1, FS_Interval
<1>19. SumFunctionOnSet(cost, 1..n) =
        SumFunctionOnSet(estimates, 1..n) + SumFunctionOnSet(more, 1..n)
  <2>1. \A i \in 1..n : /\ estimates[i] \in Int /\ more[i] \in Int
                        /\ cost[i] = estimates[i] + more[i]
    BY <1>3, <1>17
  <2> QED BY ONLY <1>18, <2>1, SumPlus
<1>20. ASSUME LimitsRetries(input), SumFunctionOnSet(extra, 1..n) <= input.retry.total
       PROVE  SumFunctionOnSet(cost, 1..n) <= costs.spent.ms /\ costs.spent.ms \in Int
  <2>1. /\ input.retry.total \in Nat /\ input.retry.total \in 0..RetryCapacity(input, n)
    <3>1. input.retry.total \in Int
      BY DEF PlanInput
    <3>2. RetryCapacity(input, n) \in Int
      BY <1>1, PlanConstants DEF RetryCapacity
    <3> QED BY <1>13, <1>20, <3>1, <3>2
  <2>2. PICK total \in Amounts : total = Total(amounts)
    BY <1>11
  <2>3. costs.spent = SpendRetries(input, total, estimates)
    BY <1>7, <1>20, <2>1, <2>2
  <2>4. SpendRetries(input, total, estimates).overflow = FALSE
    <3>1. Total(products) \in Amounts
      BY <1>12
    <3>2. ~SpendRetries(input, total, estimates).overflow
      BY <1>13, <2>3
    <3> QED BY <3>2
  <2>5. RetriesCovered(input, total, estimates, n, extra, more)
    <3>1. RetrySlots(input) \in Nat
      BY QuietRetry
    <3>2. \A i \in 1..n : more[i] = extra[i] * estimates[i]
      BY <1>17
    <3>3. \A i \in 1..n : extra[i] \in Nat /\ extra[i] <= RetrySlots(input)
      OBVIOUS
    <3>4. /\ DOMAIN estimates = 1..n /\ \A i \in 1..n : estimates[i] \in Nat
          /\ SumFunctionOnSet(extra, 1..n) <= input.retry.total /\ input.retry.total \in Nat
      BY <1>3, <1>20, <2>1
    <3> QED BY ONLY <2>4, <3>1, <3>2, <3>3, <3>4, total \in Amounts, n \in Nat,
                    PlanConstants, SpendCovers
  <2> QED BY <1>11, <1>14, <1>19, <2>2, <2>3, <2>5 DEF RetriesCovered
<1>21. ASSUME ~LimitsRetries(input)
       PROVE  SumFunctionOnSet(cost, 1..n) <= costs.spent.ms /\ costs.spent.ms \in Int
  <2>1. costs.spent = Total(products) /\ costs.spent.ms = SumFunctionOnSet(priced, 1..n)
    BY <1>7, <1>12, <1>14, <1>21
  <2>2. \A i \in 1..n : cost[i] \in Int /\ priced[i] \in Int /\ cost[i] <= priced[i]
    BY <1>17
  <2>3. SumFunctionOnSet(cost, 1..n) <= SumFunctionOnSet(priced, 1..n)
    BY ONLY <1>18, <2>2, SumMonotone
  <2> QED BY <1>12, <2>1, <2>3 DEF Amounts
<1>22. costs.spent.ms \in Int => costs.spent.ms <= input.lease.max
  <2>1. input.lease.max \in Int
    BY DEF PlanInput
  <2> QED BY <1>13, <2>1
<1>23. \A i \in 1..n : /\ cost[i] \in Int /\ cost[i] <= input.totalNode
                       /\ cost[i] <= partitions[i].nodeBudget
                       /\ cost[i] <= WithRetry(input, partitions[i])
  <2>1. input.totalNode \in Int /\ \A i \in 1..n : partitions[i].nodeBudget \in Int
    BY DEF PlanInput, Sound
  <2>2. ASSUME NEW i \in 1..n
        PROVE  /\ cost[i] \in Int /\ cost[i] <= input.totalNode
               /\ cost[i] <= partitions[i].nodeBudget
               /\ cost[i] <= WithRetry(input, partitions[i])
    <3>1. /\ ~(WithRetry(input, partitions[i]) > input.totalNode)
          /\ ~(WithRetry(input, partitions[i]) > partitions[i].nodeBudget)
          /\ WithRetry(input, partitions[i]) = priced[i] /\ priced[i] \in Int
          /\ cost[i] \in Int /\ cost[i] <= priced[i]
      BY <1>13, <1>15, <1>17
    <3>2. input.totalNode \in Int /\ partitions[i].nodeBudget \in Int
      BY <2>1
    <3> QED BY ONLY <3>1, <3>2
  <2> QED BY <2>2
<1> QED BY <1>6, <1>20, <1>21, <1>22, <1>23 DEF CostsFit
=============================================================================
