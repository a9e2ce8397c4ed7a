----------------------------- MODULE FiniteSums -----------------------------
(***************************************************************************)
(* Lemmas about the sum of the values a function has on a finite set, as   *)
(* MapThenSumSet of the community modules computes it: gfc_gc_total of     *)
(* gfc_gc.c is such a sum, over the blocks that are handed out.            *)
(***************************************************************************)
EXTENDS Integers, FiniteSetsExt, FiniteSetTheorems, WellFoundedInduction, TLAPS

SumOver(g, S) == MapThenSumSet(LAMBDA a : g[a], S)

-----------------------------------------------------------------------------
(* Induction, stated for a set of numbers.                                 *)

LEMMA SmallestNat ==
  ASSUME NEW T \in SUBSET Nat, T # {}
  PROVE  \E n \in T : \A m \in T : n <= m
  <1>1. PICK n \in T : \A m \in T : ~(<<m, n>> \in OpToRel(<, Nat))
    BY NatLessThanWellFounded, WFMin
  <1>2. \A m \in T : ~(m < n)
    BY <1>1 DEF OpToRel
  <1> QED BY <1>2

LEMMA AllNats ==
  ASSUME NEW T \in SUBSET Nat, 0 \in T, \A n \in T : n + 1 \in T
  PROVE  \A n \in Nat : n \in T
  <1> SUFFICES ASSUME Nat \ T # {} PROVE FALSE
    OBVIOUS
  <1>1. PICK n \in Nat \ T : \A m \in Nat \ T : n <= m
    BY SmallestNat
  <1>2. n - 1 \in Nat /\ n - 1 \in T
    BY <1>1
  <1>3. (n - 1) + 1 \in T
    BY <1>2
  <1> QED BY <1>1, <1>3

-----------------------------------------------------------------------------
(* The function the fold is defined by.                                    *)

pick(s) == CHOOSE x \in s : TRUE

Adds(F, g, s) == IF s = {} THEN 0 ELSE g[pick(s)] + F[s \ {pick(s)}]

\* F sums the values of g on each of the sets in D.
Solves(F, g, D) == F = [s \in D |-> Adds(F, g, s)]

UpTo(S, n) == {s \in SUBSET S : Cardinality(s) <= n}

LEMMA Smaller ==
  ASSUME NEW S, IsFiniteSet(S), NEW s \in SUBSET S, s # {}
  PROVE  /\ pick(s) \in s /\ s \ {pick(s)} \in SUBSET S
         /\ IsFiniteSet(s) /\ Cardinality(s) \in Nat \ {0}
         /\ Cardinality(s \ {pick(s)}) = Cardinality(s) - 1
  <1>1. pick(s) \in s
    BY DEF pick
  <1>2. IsFiniteSet(s) /\ Cardinality(s) \in Nat
    BY FS_Subset, FS_CardinalityType
  <1>3. Cardinality(s) # 0
    BY <1>2, FS_EmptySet
  <1> QED BY <1>1, <1>2, <1>3, FS_RemoveElement

LEMMA UpToZero ==
  ASSUME NEW S, IsFiniteSet(S)
  PROVE  \A s \in UpTo(S, 0) : s = {}
  <1> SUFFICES ASSUME NEW s \in UpTo(S, 0), s # {} PROVE FALSE
    OBVIOUS
  <1>1. Cardinality(s) \in Nat \ {0} /\ Cardinality(s) <= 0
    BY Smaller DEF UpTo
  <1> QED BY <1>1

\* A solution for the sets of n elements gives one for those of n + 1.
LEMMA OneMore ==
  ASSUME NEW S, IsFiniteSet(S), NEW g, NEW n \in Nat, NEW F, Solves(F, g, UpTo(S, n))
  PROVE  \E G : Solves(G, g, UpTo(S, n + 1))
  <1> DEFINE G == [s \in UpTo(S, n + 1) |-> Adds(F, g, s)]
  <1>1. ASSUME NEW s \in UpTo(S, n + 1) PROVE Adds(G, g, s) = Adds(F, g, s)
    <2>1. CASE s = {}
      BY <2>1 DEF Adds
    <2>2. CASE s # {}
      <3> DEFINE r == s \ {pick(s)}
      <3>1. Cardinality(s) \in Nat /\ Cardinality(s) <= n + 1 /\ r \in SUBSET S
            /\ Cardinality(r) = Cardinality(s) - 1
        BY <2>2, Smaller DEF UpTo
      <3>2. Cardinality(r) <= n /\ Cardinality(r) <= n + 1
        BY <3>1
      <3>3. r \in UpTo(S, n) /\ r \in UpTo(S, n + 1)
        BY <3>1, <3>2 DEF UpTo
      <3>4. G[r] = Adds(F, g, r) /\ F[r] = Adds(F, g, r)
        BY <3>3 DEF Solves
      <3> QED BY <2>2, <3>4 DEF Adds
    <2> QED BY <2>1, <2>2
  <1>2. G = [s \in UpTo(S, n + 1) |-> Adds(G, g, s)]
    BY <1>1
  <1> HIDE DEF G
  <1> QED BY <1>2 DEF Solves

LEMMA SolutionExists ==
  ASSUME NEW S, IsFiniteSet(S), NEW g
  PROVE  \E F : Solves(F, g, SUBSET S)
  <1> DEFINE T == {n \in Nat : \E F : Solves(F, g, UpTo(S, n))}
  <1>1. 0 \in T
    <2> DEFINE F == [s \in UpTo(S, 0) |-> 0]
    <2>1. \A s \in UpTo(S, 0) : s = {}
      BY UpToZero
    <2>2. F = [s \in UpTo(S, 0) |-> Adds(F, g, s)]
      BY <2>1 DEF Adds
    <2> HIDE DEF F
    <2> QED BY <2>2 DEF Solves
  <1>2. \A n \in T : n + 1 \in T
    BY OneMore
  <1>3. Cardinality(S) \in T
    <2>1. T \in SUBSET Nat /\ Cardinality(S) \in Nat
      BY FS_CardinalityType
    <2> HIDE DEF T
    <2> QED BY <1>1, <1>2, <2>1, AllNats
  <1>4. UpTo(S, Cardinality(S)) = SUBSET S
    BY FS_Subset DEF UpTo
  <1> QED BY <1>3, <1>4

\* The sum is what a solution gives.
LEMMA SumSolves ==
  ASSUME NEW S, IsFiniteSet(S), NEW g
  PROVE  \E F : Solves(F, g, SUBSET S) /\ SumOver(g, S) = F[S]
  <1> DEFINE F == CHOOSE iter : Solves(iter, g, SUBSET S)
  <1>1. Solves(F, g, SUBSET S)
    BY SolutionExists
  <1>2. SumOver(g, S) = F[S]
    BY DEF SumOver, MapThenSumSet, MapThenFoldSet, Solves, Adds, pick
  <1> QED BY <1>1, <1>2

-----------------------------------------------------------------------------
(* What a solution is on every set.                                        *)

Whole(g, S) == \A a \in S : g[a] \in Int

Agree(g, h, S) == \A a \in S : g[a] = h[a]

LEMMA SolvesStep ==
  ASSUME NEW S, IsFiniteSet(S), NEW g, NEW F, Solves(F, g, SUBSET S),
         NEW s \in SUBSET S, s # {}
  PROVE  F[s] = g[pick(s)] + F[s \ {pick(s)}]
  BY DEF Solves, Adds

LEMMA SolvesEmpty ==
  ASSUME NEW S, NEW g, NEW F, Solves(F, g, SUBSET S)
  PROVE  F[{}] = 0
  BY DEF Solves, Adds

LEMMA SolvesType ==
  ASSUME NEW S, IsFiniteSet(S), NEW g, Whole(g, S), NEW F, Solves(F, g, SUBSET S)
  PROVE  \A s \in SUBSET S : F[s] \in Int
  <1> DEFINE T == {n \in Nat : \A s \in UpTo(S, n) : F[s] \in Int}
  <1>1. 0 \in T
    <2>1. F[{}] \in Int
      BY SolvesEmpty
    <2> QED BY <2>1, UpToZero
  <1>2. ASSUME NEW n \in T PROVE n + 1 \in T
    <2>1. ASSUME NEW s \in UpTo(S, n + 1) PROVE F[s] \in Int
      <3>1. s \in SUBSET S /\ Cardinality(s) <= n + 1
        BY DEF UpTo
      <3>2. CASE s = {}
        BY <3>2, SolvesEmpty
      <3>3. CASE s # {}
        <4>1. /\ pick(s) \in s /\ s \ {pick(s)} \in SUBSET S
              /\ Cardinality(s) \in Nat /\ Cardinality(s \ {pick(s)}) = Cardinality(s) - 1
          BY <3>1, <3>3, Smaller
        <4>2. s \ {pick(s)} \in UpTo(S, n)
          BY <3>1, <4>1 DEF UpTo
        <4>3. F[s \ {pick(s)}] \in Int /\ g[pick(s)] \in Int
          BY <3>1, <4>1, <4>2 DEF Whole
        <4>4. F[s] = g[pick(s)] + F[s \ {pick(s)}]
          BY <3>1, <3>3, SolvesStep
        <4> QED BY <4>3, <4>4
      <3> QED BY <3>2, <3>3
    <2> QED BY <2>1
  <1>3. ASSUME NEW s \in SUBSET S PROVE F[s] \in Int
    <2>1. Cardinality(s) \in Nat
      BY FS_Subset, FS_CardinalityType
    <2>2. T \in SUBSET Nat
      OBVIOUS
    <2> HIDE DEF T
    <2>3. Cardinality(s) \in T
      BY <1>1, <1>2, <2>1, <2>2, AllNats
    <2>4. s \in UpTo(S, Cardinality(s))
      BY <2>1 DEF UpTo
    <2> QED BY <2>3, <2>4 DEF T
  <1> QED BY <1>3

\* Solutions for two functions that agree on U agree on U.
AgreesWith(F, g, S) ==
  \A R, h, G : IsFiniteSet(R) /\ Solves(G, h, SUBSET R) =>
    \A U \in SUBSET S : U \in SUBSET R /\ Agree(g, h, U) => F[U] = G[U]

LEMMA SolvesAgree ==
  ASSUME NEW S, IsFiniteSet(S), NEW g, NEW F, Solves(F, g, SUBSET S)
  PROVE  AgreesWith(F, g, S)
  <1> SUFFICES ASSUME NEW R, IsFiniteSet(R), NEW h, NEW G, Solves(G, h, SUBSET R),
                      NEW U \in SUBSET S, U \in SUBSET R, Agree(g, h, U)
               PROVE  F[U] = G[U]
    BY DEF AgreesWith
  <1> DEFINE T == {n \in Nat : \A s \in UpTo(U, n) : F[s] = G[s]}
  <1>0. IsFiniteSet(U) /\ SUBSET U \subseteq SUBSET S /\ SUBSET U \subseteq SUBSET R
    BY FS_Subset
  <1>1. 0 \in T
    <2>1. F[{}] = 0 /\ G[{}] = 0
      BY SolvesEmpty
    <2>2. \A s \in UpTo(U, 0) : s = {}
      BY <1>0, UpToZero
    <2> QED BY <2>1, <2>2
  <1>2. ASSUME NEW n \in T PROVE n + 1 \in T
    <2>1. ASSUME NEW s \in UpTo(U, n + 1) PROVE F[s] = G[s]
      <3>1. s \in SUBSET U /\ Cardinality(s) <= n + 1
        BY DEF UpTo
      <3>2. CASE s = {}
        BY <3>2, SolvesEmpty
      <3>3. CASE s # {}
        <4>1. /\ pick(s) \in s /\ s \ {pick(s)} \in SUBSET U
              /\ Cardinality(s) \in Nat /\ Cardinality(s \ {pick(s)}) = Cardinality(s) - 1
          BY <1>0, <3>1, <3>3, Smaller
        <4>2. s \ {pick(s)} \in UpTo(U, n)
          BY <3>1, <4>1 DEF UpTo
        <4>3. F[s \ {pick(s)}] = G[s \ {pick(s)}] /\ g[pick(s)] = h[pick(s)]
          BY <3>1, <4>1, <4>2 DEF Agree
        <4>4. F[s] = g[pick(s)] + F[s \ {pick(s)}]
          BY <1>0, <3>1, <3>3, SolvesStep
        <4>5. G[s] = h[pick(s)] + G[s \ {pick(s)}]
          BY <1>0, <3>1, <3>3, SolvesStep
        <4> QED BY <4>3, <4>4, <4>5
      <3> QED BY <3>2, <3>3
    <2>2. \A s \in UpTo(U, n + 1) : F[s] = G[s]
      BY <2>1
    <2> QED BY <2>2
  <1>3. Cardinality(U) \in Nat /\ T \in SUBSET Nat
    BY <1>0, FS_CardinalityType
  <1> HIDE DEF T
  <1>4. Cardinality(U) \in T
    BY <1>1, <1>2, <1>3, AllNats
  <1>5. U \in UpTo(U, Cardinality(U))
    BY <1>3 DEF UpTo
  <1> QED BY <1>4, <1>5 DEF T

\* Any element may be taken out, not only the one the fold picks.
LEMMA SolvesAny ==
  ASSUME NEW S, IsFiniteSet(S), NEW g, Whole(g, S), NEW F, Solves(F, g, SUBSET S)
  PROVE  \A s \in SUBSET S : \A a \in s : F[s] = g[a] + F[s \ {a}]
  <1> DEFINE T == {n \in Nat : \A s \in UpTo(S, n) : \A a \in s : F[s] = g[a] + F[s \ {a}]}
  <1>1. 0 \in T
    BY UpToZero
  <1>2. ASSUME NEW n \in T PROVE n + 1 \in T
    <2>1. ASSUME NEW s \in UpTo(S, n + 1), NEW a \in s PROVE F[s] = g[a] + F[s \ {a}]
      <3> DEFINE b == pick(s)
                 rest == s \ {a, b}
      <3>1. s \in SUBSET S /\ Cardinality(s) <= n + 1 /\ s # {}
        BY DEF UpTo
      <3>2. /\ b \in s /\ Cardinality(s) \in Nat /\ IsFiniteSet(s)
            /\ F[s] = g[b] + F[s \ {b}]
        <4>1. b \in s /\ Cardinality(s) \in Nat /\ IsFiniteSet(s)
          BY <3>1, Smaller
        <4>2. F[s] = g[b] + F[s \ {b}]
          BY <3>1, SolvesStep
        <4> QED BY <4>1, <4>2
      <3>3. CASE a = b
        BY <3>2, <3>3
      <3>4. CASE a # b
        <4>1. /\ Cardinality(s \ {a}) = Cardinality(s) - 1
              /\ Cardinality(s \ {b}) = Cardinality(s) - 1
          BY <3>2, FS_RemoveElement
        <4>2. s \ {a} \in UpTo(S, n) /\ s \ {b} \in UpTo(S, n)
          BY <3>1, <3>2, <4>1 DEF UpTo
        <4>3. (s \ {b}) \ {a} = rest /\ (s \ {a}) \ {b} = rest
              /\ a \in s \ {b} /\ b \in s \ {a}
          BY <3>2, <3>4
        <4>4. F[s \ {b}] = g[a] + F[rest] /\ F[s \ {a}] = g[b] + F[rest]
          BY <4>2, <4>3
        <4>5. g[a] \in Int /\ g[b] \in Int /\ F[rest] \in Int
          BY <3>1, <3>2, SolvesType DEF Whole
        <4> HIDE DEF b, rest
        <4> QED BY <3>2, <4>4, <4>5
      <3> QED BY <3>3, <3>4
    <2> QED BY <2>1
  <1>3. ASSUME NEW s \in SUBSET S PROVE \A a \in s : F[s] = g[a] + F[s \ {a}]
    <2>1. Cardinality(s) \in Nat
      BY FS_Subset, FS_CardinalityType
    <2>2. T \in SUBSET Nat
      OBVIOUS
    <2> HIDE DEF T
    <2>3. Cardinality(s) \in T
      BY <1>1, <1>2, <2>1, <2>2, AllNats
    <2>4. s \in UpTo(S, Cardinality(s))
      BY <2>1 DEF UpTo
    <2> QED BY <2>3, <2>4 DEF T
  <1> QED BY <1>3

-----------------------------------------------------------------------------
(* The sum.                                                                *)

\* A sum of integers is an integer, and that of nothing is 0.
LEMMA SumType ==
  ASSUME NEW S, IsFiniteSet(S), NEW g, Whole(g, S)
  PROVE  SumOver(g, S) \in Int
  BY SumSolves, SolvesType

LEMMA SumEmpty ==
  ASSUME NEW g
  PROVE  SumOver(g, {}) = 0
  BY SumSolves, SolvesEmpty, FS_EmptySet

\* Functions that agree on a set have one sum over it.
LEMMA SumSame ==
  ASSUME NEW S, IsFiniteSet(S), NEW g, NEW h, \A a \in S : g[a] = h[a]
  PROVE  SumOver(g, S) = SumOver(h, S)
  <1>1. PICK F : Solves(F, g, SUBSET S) /\ SumOver(g, S) = F[S]
    BY SumSolves
  <1>2. PICK G : Solves(G, h, SUBSET S) /\ SumOver(h, S) = G[S]
    BY SumSolves
  <1>3. F[S] = G[S]
    <2>1. S \in SUBSET S /\ Agree(g, h, S)
      BY DEF Agree
    <2>2. AgreesWith(F, g, S)
      BY <1>1, SolvesAgree
    <2> QED BY <1>2, <2>1, <2>2 DEF AgreesWith
  <1> QED BY <1>1, <1>2, <1>3

\* An element is taken out of a sum, or added to it.
LEMMA SumRemove ==
  ASSUME NEW S, IsFiniteSet(S), NEW g, Whole(g, S), NEW a \in S
  PROVE  SumOver(g, S \ {a}) = SumOver(g, S) - g[a]
  <1> DEFINE r == S \ {a}
  <1>1. PICK F : Solves(F, g, SUBSET S) /\ SumOver(g, S) = F[S]
    BY SumSolves
  <1>2. IsFiniteSet(r) /\ r \in SUBSET S /\ Agree(g, g, r)
    BY FS_RemoveElement DEF Agree
  <1>3. F[S] = g[a] + F[r] /\ F[r] \in Int /\ g[a] \in Int
    <2>1. F[S] = g[a] + F[r]
      BY <1>1, SolvesAny
    <2>2. F[r] \in Int
      BY <1>1, <1>2, SolvesType
    <2> QED BY <2>1, <2>2 DEF Whole
  <1> HIDE DEF r
  <1>4. PICK G : Solves(G, g, SUBSET r) /\ SumOver(g, r) = G[r]
    BY <1>2, SumSolves
  <1>5. F[r] = G[r]
    <2>1. AgreesWith(F, g, S)
      BY <1>1, SolvesAgree
    <2> QED BY <1>2, <1>4, <2>1 DEF AgreesWith
  <1>6. SumOver(g, r) = SumOver(g, S) - g[a]
    BY <1>1, <1>3, <1>4, <1>5
  <1> QED BY <1>6 DEF r

LEMMA SumAdd ==
  ASSUME NEW S, IsFiniteSet(S), NEW a, a \notin S, NEW g, Whole(g, S \cup {a})
  PROVE  SumOver(g, S \cup {a}) = SumOver(g, S) + g[a]
  <1>1. IsFiniteSet(S \cup {a}) /\ (S \cup {a}) \ {a} = S
    BY FS_AddElement
  <1>2. SumOver(g, S) = SumOver(g, S \cup {a}) - g[a]
    BY <1>1, SumRemove
  <1>3. SumOver(g, S \cup {a}) \in Int /\ g[a] \in Int
    BY <1>1, SumType DEF Whole
  <1> QED BY <1>2, <1>3
=============================================================================
