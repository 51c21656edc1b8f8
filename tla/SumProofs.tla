------------------------------ MODULE SumProofs ------------------------------
(***************************************************************************)
(* Facts about Total(f, S), for any finite set S and any function f with   *)
(* values among the integers.  Total is a fold, a function defined by      *)
(* recursion over the subsets of S: that there is such a function, and     *)
(* what it computes, is shown by a smallest set for which it fails.        *)
(***************************************************************************)
EXTENDS Sums, FiniteSetTheorems, TLAPS

\* The principle of the smallest set: a set of subsets of S that is not all of them
\* leaves out a subset of which it holds every smaller one.
LEMMA SmallestSet ==
    ASSUME NEW S, IsFiniteSet(S), NEW G, NEW B \in SUBSET S, B \notin G
    PROVE  \E M \in SUBSET S : /\ M \notin G /\ IsFiniteSet(M)
                               /\ \A T \in SUBSET M : T # M => T \in G
<1> DEFINE Bad == {T \in SUBSET S : T \notin G}
<1>1. Bad \subseteq FiniteSubsetsOf(S) /\ Bad # {}
  BY FS_Subset DEF FiniteSubsetsOf
<1>2. PICK M \in Bad : \A T \in Bad : <<T, M>> \notin StrictSubsetOrdering(S)
  <2> HIDE DEF Bad
  <2> QED
    BY <1>1, FS_StrictSubsetOrderingWellFounded, WFMin
<1>3. \A T \in SUBSET M : T # M => T \in G
  BY <1>2 DEF StrictSubsetOrdering
<1> QED
  BY <1>2, <1>3, FS_Subset

\* A set that holds the empty set, and a set with each element added to it, holds S.
LEMMA GrowingSet ==
    ASSUME NEW S, IsFiniteSet(S), NEW G, {} \in G,
           \A T \in SUBSET S : \A x \in S : T \in G /\ x \notin T => T \cup {x} \in G
    PROVE  S \in G
<1> SUFFICES ASSUME S \notin G PROVE FALSE
  OBVIOUS
<1>1. PICK M \in SUBSET S : M \notin G /\ \A T \in SUBSET M : T # M => T \in G
  BY SmallestSet
<1>2. PICK x \in M : TRUE
  BY <1>1
<1>3. M \ {x} \in SUBSET S /\ M \ {x} # M /\ M \ {x} \in SUBSET M
  BY <1>1, <1>2
<1>4. M \ {x} \in G
  BY <1>1, <1>3
<1>5. x \in S /\ x \notin M \ {x} /\ M = (M \ {x}) \cup {x}
  BY <1>1, <1>2
<1>6. (M \ {x}) \cup {x} \in G
  BY <1>3, <1>4, <1>5
<1> QED
  BY <1>1, <1>5, <1>6

LEMMA LeastNumber ==
    ASSUME NEW T, T \subseteq Nat, T # {}
    PROVE  \E m \in T : \A n \in T : ~(n < m)
<1>1. PICK m \in T : \A n \in T : ~(<<n, m>> \in OpToRel(<, Nat))
  BY NatLessThanWellFounded, WFMin
<1>2. \A n \in T : n < m => <<n, m>> \in OpToRel(<, Nat)
  BY DEF OpToRel
<1> QED
  BY <1>1, <1>2

LEMMA CountingUp ==
    ASSUME NEW G, 0 \in G, \A n \in Nat : n \in G => n + 1 \in G
    PROVE  Nat \subseteq G
<1> SUFFICES ASSUME Nat \ G # {} PROVE FALSE
  OBVIOUS
<1>1. PICK m \in Nat \ G : \A n \in Nat \ G : ~(n < m)
  BY LeastNumber
<1>2. m # 0 /\ m - 1 \in Nat
  BY <1>1
<1>3. m - 1 \in G
  BY <1>1, <1>2
<1> QED
  BY <1>1, <1>2, <1>3

-----------------------------------------------------------------------------
(* The fold.                                                               *)

\* The element that the fold takes out of a set first.
First(s) == CHOOSE x \in s : TRUE

\* One step of the fold.
Unrolled(it, f, s) == IF s = {} THEN 0 ELSE f[First(s)] + it[s \ {First(s)}]

Folded(it, f, S) == it = [s \in SUBSET S |-> Unrolled(it, f, s)]

LEMMA TotalIsAFold ==
    ASSUME NEW f, NEW S
    PROVE  Total(f, S) = (CHOOSE it : Folded(it, f, S))[S]
BY DEF Total, MapThenSumSet, MapThenFoldSet, Folded, Unrolled, First

LEMMA FirstIsIn == \A s : s # {} => First(s) \in s
BY DEF First

\* There is such a function: for every number, one that is right on the subsets with at
\* most that many elements.
LEMMA FoldExists ==
    ASSUME NEW f, NEW S, IsFiniteSet(S)
    PROVE  \E it : Folded(it, f, S)
<1> DEFINE Upto(it, n) == \A s \in SUBSET S : Cardinality(s) <= n => it[s] = Unrolled(it, f, s)
           Found == {n \in Nat : \E it : it = [s \in SUBSET S |-> it[s]] /\ Upto(it, n)}
<1>0. \A s \in SUBSET S : IsFiniteSet(s) /\ Cardinality(s) \in Nat
  BY FS_Subset, FS_CardinalityType
<1>1. 0 \in Found
  <2> DEFINE it == [s \in SUBSET S |-> 0]
  <2>1. ASSUME NEW s \in SUBSET S, Cardinality(s) <= 0 PROVE it[s] = Unrolled(it, f, s)
    <3>1. s = {}
      BY <1>0, <2>1, FS_EmptySet
    <3> QED
      BY <3>1 DEF Unrolled
  <2>2. it = [s \in SUBSET S |-> it[s]] /\ Upto(it, 0)
    BY <2>1
  <2> HIDE DEF it
  <2> QED
    BY <2>2
<1>2. ASSUME NEW n \in Nat, n \in Found PROVE n + 1 \in Found
  <2>1. PICK it : Upto(it, n)
    BY <1>2
  <2> DEFINE next == [s \in SUBSET S |-> Unrolled(it, f, s)]
  <2>2. ASSUME NEW s \in SUBSET S, Cardinality(s) <= n + 1 PROVE next[s] = Unrolled(next, f, s)
    <3>1. CASE s = {}
      BY <3>1 DEF Unrolled
    <3>2. CASE s # {}
      <4> DEFINE t == s \ {First(s)}
      <4>1. t \in SUBSET S /\ Cardinality(t) <= n
        BY <1>0, <2>2, <3>2, FirstIsIn, FS_RemoveElement
      <4>2. it[t] = next[t]
        BY <2>1, <4>1
      <4>3. next[s] = f[First(s)] + it[t] /\ Unrolled(next, f, s) = f[First(s)] + next[t]
        BY <3>2 DEF Unrolled
      <4> QED
        BY <4>2, <4>3
    <3> QED
      BY <3>1, <3>2
  <2>3. next = [s \in SUBSET S |-> next[s]] /\ Upto(next, n + 1)
    BY <2>2
  <2>4. n + 1 \in Nat
    OBVIOUS
  <2>5. \E that : that = [s \in SUBSET S |-> that[s]] /\ Upto(that, n + 1)
    <3> HIDE DEF next, Upto
    <3> QED
      BY <2>3
  <2> QED
    BY <2>4, <2>5
<1>3. Cardinality(S) \in Found
  <2> HIDE DEF Found
  <2> QED
    BY <1>0, <1>1, <1>2, CountingUp
<1>4. PICK it : it = [s \in SUBSET S |-> it[s]] /\ Upto(it, Cardinality(S))
  BY <1>3
<1>5. \A s \in SUBSET S : it[s] = Unrolled(it, f, s)
  BY <1>4, FS_Subset
<1> QED
  BY <1>4, <1>5 DEF Folded

\* Two folds agree where both are defined.
LEMMA FoldsAgree ==
    ASSUME NEW f, NEW S, NEW T, NEW a, NEW b, Folded(a, f, S), Folded(b, f, T),
           IsFiniteSet(S), NEW u \in SUBSET S, u \in SUBSET T
    PROVE  a[u] = b[u]
<1> DEFINE G == {s \in SUBSET S : s \in SUBSET T => a[s] = b[s]}
<1> SUFFICES ASSUME u \notin G PROVE FALSE
  OBVIOUS
<1>1. PICK M \in SUBSET S : M \notin G /\ \A s \in SUBSET M : s # M => s \in G
  <2> HIDE DEF G
  <2> QED
    BY SmallestSet
<1>2. M \in SUBSET T /\ a[M] # b[M]
  BY <1>1
<1>3. a[M] = Unrolled(a, f, M) /\ b[M] = Unrolled(b, f, M)
  BY <1>1, <1>2 DEF Folded
<1>4. CASE M = {}
  BY <1>2, <1>3, <1>4 DEF Unrolled
<1>5. CASE M # {}
  <2>1. a[M \ {First(M)}] = b[M \ {First(M)}]
    BY <1>1, <1>2, <1>5, FirstIsIn
  <2> QED
    BY <1>2, <1>3, <1>5, <2>1 DEF Unrolled
<1> QED
  BY <1>4, <1>5

\* The sum of nothing, and one step of the sum.
LEMMA TotalUnrolled ==
    ASSUME NEW f, NEW S, IsFiniteSet(S)
    PROVE  /\ Total(f, {}) = 0
           /\ S # {} => Total(f, S) = f[First(S)] + Total(f, S \ {First(S)})
<1> DEFINE Fold(s) == CHOOSE it : Folded(it, f, s)
<1>1. \A s : IsFiniteSet(s) => Folded(Fold(s), f, s) /\ Total(f, s) = Fold(s)[s]
  BY FoldExists, TotalIsAFold
<1> HIDE DEF Fold
<1>2. Total(f, {}) = 0
  BY <1>1, FS_EmptySet DEF Folded, Unrolled
<1>3. ASSUME S # {} PROVE Total(f, S) = f[First(S)] + Total(f, S \ {First(S)})
  <2> DEFINE t == S \ {First(S)}
  <2>1. IsFiniteSet(t) /\ t \in SUBSET S
    BY FS_Subset
  <2>2. Total(f, S) = f[First(S)] + Fold(S)[t]
    BY <1>1, <1>3 DEF Folded, Unrolled
  <2>3. Fold(S)[t] = Fold(t)[t]
    BY <1>1, <2>1, FoldsAgree
  <2> QED
    BY <1>1, <2>1, <2>2, <2>3
<1> QED
  BY <1>2, <1>3

-----------------------------------------------------------------------------
(* The sum of integers.                                                    *)

\* Any element can be taken out first.
THEOREM TotalTaken ==
    ASSUME NEW f, NEW S, IsFiniteSet(S), \A s \in S : f[s] \in Int
    PROVE  /\ Total(f, S) \in Int
           /\ \A x \in S : Total(f, S) = f[x] + Total(f, S \ {x})
<1> DEFINE Right(M) == /\ Total(f, M) \in Int
                       /\ \A x \in M : Total(f, M) = f[x] + Total(f, M \ {x})
           G == {M \in SUBSET S : Right(M)}
<1> SUFFICES ASSUME S \notin G PROVE FALSE
  OBVIOUS
<1>1. PICK M \in SUBSET S : M \notin G /\ IsFiniteSet(M) /\ \A T \in SUBSET M : T # M => T \in G
  <2> HIDE DEF G
  <2> QED
    BY SmallestSet
<1>2. \A T \in SUBSET M : T # M => Right(T)
  BY <1>1
<1> DEFINE c == First(M)
<1>3. M # {}
  <2>1. Total(f, {}) = 0
    BY TotalUnrolled
  <2>2. Right({})
    BY <2>1
  <2> QED
    BY <1>1, <2>2
<1>4. c \in M /\ c \in S /\ Total(f, M) = f[c] + Total(f, M \ {c})
  BY <1>1, <1>3, FirstIsIn, TotalUnrolled
<1> HIDE DEF c
<1>5. Total(f, M \ {c}) \in Int
  BY <1>2, <1>4
<1>6. Total(f, M) \in Int
  BY <1>4, <1>5
<1>7. ASSUME NEW x \in M PROVE Total(f, M) = f[x] + Total(f, M \ {x})
  <2>1. CASE x = c
    BY <1>4, <2>1
  <2>2. CASE x # c
    <3> DEFINE t == M \ {c, x}
    <3>1. M \ {c} # M /\ M \ {x} # M /\ x \in M \ {c} /\ c \in M \ {x}
          /\ (M \ {c}) \ {x} = t /\ (M \ {x}) \ {c} = t /\ t # M /\ t \in SUBSET M
      BY <1>4, <2>2
    <3> HIDE DEF t
    <3>2. Total(f, M \ {c}) = f[x] + Total(f, t)
      BY <1>2, <3>1
    <3>3. Total(f, M \ {x}) = f[c] + Total(f, t)
      BY <1>2, <3>1
    <3>4. Total(f, t) \in Int /\ f[x] \in Int /\ f[c] \in Int
      BY <1>2, <1>4, <3>1
    <3> QED
      BY <1>4, <3>2, <3>3, <3>4
  <2> QED
    BY <2>1, <2>2
<1> QED
  BY <1>1, <1>6, <1>7

LEMMA TotalNone == \A f : Total(f, {}) = 0
BY TotalUnrolled, FS_EmptySet

LEMMA TotalInt ==
    ASSUME NEW f, NEW S, IsFiniteSet(S), \A s \in S : f[s] \in Int
    PROVE  Total(f, S) \in Int
BY TotalTaken

LEMMA TotalTake ==
    ASSUME NEW f, NEW S, IsFiniteSet(S), \A s \in S : f[s] \in Int, NEW x \in S
    PROVE  Total(f, S) = f[x] + Total(f, S \ {x})
BY TotalTaken

\* A smaller function has a smaller sum.
LEMMA TotalLe ==
    ASSUME NEW f, NEW g, NEW S, IsFiniteSet(S),
           \A s \in S : f[s] \in Int /\ g[s] \in Int /\ f[s] <= g[s]
    PROVE  Total(f, S) <= Total(g, S)
<1> DEFINE G == {M \in SUBSET S : Total(f, M) <= Total(g, M)}
<1>1. {} \in G
  BY TotalNone
<1>2. ASSUME NEW T \in SUBSET S, NEW x \in S, T \in G, x \notin T PROVE T \cup {x} \in G
  <2> DEFINE U == T \cup {x}
  <2>1. U \in SUBSET S /\ x \in U /\ U \ {x} = T /\ IsFiniteSet(U) /\ IsFiniteSet(T)
    BY <1>2, FS_Subset
  <2> HIDE DEF U
  <2>2. /\ \A s \in U : f[s] \in Int /\ g[s] \in Int
        /\ \A s \in T : f[s] \in Int /\ g[s] \in Int
    BY <2>1
  <2>3. Total(f, U) = f[x] + Total(f, T) /\ Total(g, U) = g[x] + Total(g, T)
    BY <2>1, <2>2, TotalTake
  <2>4. Total(f, T) \in Int /\ Total(g, T) \in Int
    BY <2>1, <2>2, TotalInt
  <2>5. Total(f, T) <= Total(g, T) /\ f[x] <= g[x] /\ f[x] \in Int /\ g[x] \in Int
    BY <1>2
  <2>6. Total(f, U) <= Total(g, U)
    BY <2>3, <2>4, <2>5
  <2> QED
    BY <2>1, <2>6 DEF U
<1> HIDE DEF G
<1>3. S \in G
  BY <1>1, <1>2, GrowingSet
<1> QED
  BY <1>3 DEF G

\* Functions that agree on a set have the same sum over it.
LEMMA TotalSame ==
    ASSUME NEW f, NEW g, NEW S, IsFiniteSet(S), \A s \in S : f[s] \in Int /\ g[s] = f[s]
    PROVE  Total(f, S) = Total(g, S)
<1>1. Total(f, S) <= Total(g, S) /\ Total(g, S) <= Total(f, S)
  BY TotalLe
<1>2. Total(f, S) \in Int /\ Total(g, S) \in Int
  BY TotalInt
<1> QED
  BY <1>1, <1>2

\* The sum of two functions.
LEMMA TotalAdd ==
    ASSUME NEW f, NEW g, NEW h, NEW S, IsFiniteSet(S),
           \A s \in S : f[s] \in Int /\ g[s] \in Int /\ h[s] = f[s] + g[s]
    PROVE  Total(h, S) = Total(f, S) + Total(g, S)
<1> DEFINE G == {M \in SUBSET S : Total(h, M) = Total(f, M) + Total(g, M)}
<1>1. {} \in G
  BY TotalNone
<1>2. ASSUME NEW T \in SUBSET S, NEW x \in S, T \in G, x \notin T PROVE T \cup {x} \in G
  <2> DEFINE U == T \cup {x}
  <2>1. U \in SUBSET S /\ x \in U /\ U \ {x} = T /\ IsFiniteSet(U) /\ IsFiniteSet(T)
    BY <1>2, FS_Subset
  <2> HIDE DEF U
  <2>2. /\ \A s \in U : f[s] \in Int /\ g[s] \in Int /\ h[s] \in Int
        /\ \A s \in T : f[s] \in Int /\ g[s] \in Int /\ h[s] \in Int
    BY <2>1
  <2>3. /\ Total(f, U) = f[x] + Total(f, T) /\ Total(g, U) = g[x] + Total(g, T)
        /\ Total(h, U) = h[x] + Total(h, T)
    BY <2>1, <2>2, TotalTake
  <2>4. Total(f, T) \in Int /\ Total(g, T) \in Int
    BY <2>1, <2>2, TotalInt
  <2>5. Total(h, T) = Total(f, T) + Total(g, T) /\ h[x] = f[x] + g[x] /\ f[x] \in Int /\ g[x] \in Int
    BY <1>2
  <2>6. Total(h, U) = Total(f, U) + Total(g, U)
    BY <2>3, <2>4, <2>5
  <2> QED
    BY <2>1, <2>6 DEF U
<1> HIDE DEF G
<1>3. S \in G
  BY <1>1, <1>2, GrowingSet
<1> QED
  BY <1>3 DEF G

\* A function changed at one argument.
LEMMA TotalChange ==
    ASSUME NEW f, NEW g, NEW S, IsFiniteSet(S), NEW x \in S,
           \A s \in S : f[s] \in Int /\ g[s] \in Int /\ (s # x => g[s] = f[s])
    PROVE  Total(g, S) = Total(f, S) + (g[x] - f[x])
<1> DEFINE T == S \ {x}
<1>1. IsFiniteSet(T) /\ \A s \in T : f[s] \in Int /\ g[s] \in Int /\ g[s] = f[s]
  BY FS_Subset
<1>2. Total(f, S) = f[x] + Total(f, T) /\ Total(g, S) = g[x] + Total(g, T)
  BY TotalTake
<1> HIDE DEF T
<1>3. Total(f, T) = Total(g, T)
  BY <1>1, TotalSame
<1>4. Total(f, T) \in Int
  BY <1>1, TotalInt
<1> QED
  BY <1>2, <1>3, <1>4

\* The sum of nothing but zeros, and of natural numbers.
LEMMA TotalZero ==
    ASSUME NEW f, NEW S, IsFiniteSet(S), \A s \in S : f[s] = 0
    PROVE  Total(f, S) = 0
<1> DEFINE G == {M \in SUBSET S : Total(f, M) = 0}
<1>1. {} \in G
  BY TotalNone
<1>2. ASSUME NEW T \in SUBSET S, NEW x \in S, T \in G, x \notin T PROVE T \cup {x} \in G
  <2> DEFINE U == T \cup {x}
  <2>1. U \in SUBSET S /\ x \in U /\ U \ {x} = T /\ IsFiniteSet(U) /\ Total(f, T) = 0
    BY <1>2, FS_Subset
  <2> HIDE DEF U
  <2>2. \A s \in U : f[s] \in Int /\ f[s] = 0
    BY <2>1
  <2>3. Total(f, U) = f[x] + Total(f, T)
    BY <2>1, <2>2, TotalTake
  <2> QED
    BY <2>1, <2>2, <2>3 DEF U
<1> HIDE DEF G
<1>3. S \in G
  BY <1>1, <1>2, GrowingSet
<1> QED
  BY <1>3 DEF G

LEMMA TotalNat ==
    ASSUME NEW f, NEW S, IsFiniteSet(S), \A s \in S : f[s] \in Nat
    PROVE  Total(f, S) \in Nat
<1> DEFINE z == [s \in S |-> 0]
<1>1. Total(z, S) = 0 /\ Total(z, S) <= Total(f, S) /\ Total(f, S) \in Int
  BY TotalZero, TotalLe, TotalInt
<1> QED
  BY <1>1

\* A part of a sum of natural numbers, and one of them.
LEMMA TotalPart ==
    ASSUME NEW f, NEW S, IsFiniteSet(S), \A s \in S : f[s] \in Nat, NEW x \in S
    PROVE  f[x] <= Total(f, S) /\ Total(f, S \ {x}) <= Total(f, S)
<1>1. Total(f, S) = f[x] + Total(f, S \ {x})
  BY TotalTake
<1>2. Total(f, S \ {x}) \in Nat
  BY FS_Subset, TotalNat
<1> QED
  BY <1>1, <1>2
=============================================================================
