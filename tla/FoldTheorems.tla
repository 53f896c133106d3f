---------------------------- MODULE FoldTheorems ----------------------------
(***************************************************************************)
(* What the folds of the community modules compute, for an operator Op     *)
(* with a parameter a and a way Pick of choosing the next element.  Both   *)
(* FoldLeft and FoldFunction are MapThenFoldSet, a recursive function over *)
(* the subsets of an index set: the theorems say that this function exists *)
(* and what it is at each set.  A module instantiates them for each of its *)
(* folds (INSTANCE FoldTheorems WITH ...).                                 *)
(*                                                                         *)
(* An instance carries every module named here into each obligation of the *)
(* module that instantiates it, so the libraries are not.  What they say   *)
(* of Nat is the hypothesis WellOrdered, which that module proves once and *)
(* for all its folds; and a set that can be folded is one whose subsets    *)
(* have a rank, which falls when an element is taken away, as the          *)
(* cardinality of the subsets of a finite set does.                        *)
(***************************************************************************)
EXTENDS Integers, Sequences, Folds

CONSTANTS Op(_, _, _),  \* the result so far, the next element, the parameter
          Pick(_)       \* the element that is folded last

Fold(a, base, f, S) ==
    MapThenFoldSet(LAMBDA x, y : Op(y, x, a), base, LAMBDA i : f[i], Pick, S)

\* The elements are picked from the set.
Picks(S) == \A s \in SUBSET S : s # {} => Pick(s) \in s

\* A set of natural numbers that is not empty has a least one.
WellOrdered == \A B \in SUBSET Nat : B # {} => \E n \in B : \A m \in B : n <= m

\* A rank of the subsets of S, and the sets that have one.
IsRank(rank, S) == /\ rank \in [SUBSET S -> Nat]
                   /\ \A s \in SUBSET S : \A x \in s : rank[s \ {x}] < rank[s]
Ranked(S) == \E rank : IsRank(rank, S)

\* The recursion on the sets of the family D.
Recursion(a, base, f, D, iter) ==
    iter = [s \in D |-> IF s = {} THEN base
                        ELSE Op(iter[s \ {Pick(s)}], f[Pick(s)], a)]

-----------------------------------------------------------------------------
\* A family of subsets that is not empty has one of least rank.
LEMMA LeastRank ==
    ASSUME WellOrdered, NEW S, NEW rank, IsRank(rank, S), NEW F \in SUBSET SUBSET S, F # {}
    PROVE  \E s \in F : \A t \in F : rank[s] <= rank[t]
  <1> DEFINE B == {rank[s] : s \in F}
  <1>1. B \in SUBSET Nat /\ B # {}
    BY DEF IsRank
  <1>2. PICK n \in B : \A m \in B : n <= m
    BY <1>1 DEF WellOrdered
  <1> QED
    BY <1>2

\* The subsets of S of rank at most n.
UpTo(S, rank, n) == {s \in SUBSET S : rank[s] <= n}

LEMMA Without ==
    ASSUME NEW S, NEW rank, IsRank(rank, S), Picks(S), NEW s \in SUBSET S, s # {}
    PROVE  /\ Pick(s) \in s /\ s \ {Pick(s)} \in SUBSET S
           /\ rank[s \ {Pick(s)}] \in Nat /\ rank[s] \in Nat
           /\ rank[s \ {Pick(s)}] < rank[s]
  <1>1. Pick(s) \in s /\ s \ {Pick(s)} \in SUBSET S
    BY DEF Picks
  <1> QED
    BY <1>1 DEF IsRank

\* The recursion has a solution, on larger and larger families.
LEMMA Solvable ==
    ASSUME WellOrdered, NEW S, NEW rank, IsRank(rank, S), Picks(S), NEW a, NEW base, NEW f, NEW n \in Nat
    PROVE  \E iter : Recursion(a, base, f, UpTo(S, rank, n), iter)
  <1> DEFINE B == {m \in Nat : ~ \E iter : Recursion(a, base, f, UpTo(S, rank, m), iter)}
  <1>1. SUFFICES ASSUME B # {}
                 PROVE  FALSE
    OBVIOUS
  <1>2. PICK m \in B : \A k \in B : m <= k
    BY <1>1 DEF WellOrdered
  <1>3. CASE m = 0
    <2>1. \A s \in UpTo(S, rank, m) : s = {}
      <3>1. SUFFICES ASSUME NEW s \in UpTo(S, rank, m), s # {}
                     PROVE  FALSE
        OBVIOUS
      <3>2. s \in SUBSET S /\ rank[s] <= 0
        BY <1>3, <3>1 DEF UpTo
      <3> QED
        <4>1. rank[s \ {Pick(s)}] \in Nat /\ rank[s] \in Nat /\ rank[s \ {Pick(s)}] < rank[s]
          BY <3>1, <3>2, Without
        <4> QED
          BY <3>2, <4>1
    <2> DEFINE iter == [s \in UpTo(S, rank, m) |-> base]
    <2>2. Recursion(a, base, f, UpTo(S, rank, m), iter)
      BY <2>1 DEF Recursion
    <2> QED
      BY <1>2, <2>2
  <1>4. CASE m # 0
    <2>1. m - 1 \in Nat /\ m - 1 \notin B
      BY <1>2, <1>4
    <2>2. PICK g : Recursion(a, base, f, UpTo(S, rank, m - 1), g)
      BY <2>1
    <2> DEFINE iter == [s \in UpTo(S, rank, m) |-> IF s = {} THEN base
                                                   ELSE Op(g[s \ {Pick(s)}], f[Pick(s)], a)]
    <2>3. ASSUME NEW s \in UpTo(S, rank, m), s # {}
          PROVE  iter[s \ {Pick(s)}] = g[s \ {Pick(s)}]
      <3>1. s \in SUBSET S /\ rank[s] <= m
        BY DEF UpTo
      <3>2. /\ s \ {Pick(s)} \in SUBSET S /\ rank[s \ {Pick(s)}] \in Nat /\ rank[s] \in Nat
            /\ rank[s \ {Pick(s)}] < rank[s]
        BY <2>3, <3>1, Without
      <3>3. rank[s \ {Pick(s)}] <= m - 1 /\ rank[s \ {Pick(s)}] <= m
        BY <1>2, <3>1, <3>2
      <3>4. s \ {Pick(s)} \in UpTo(S, rank, m - 1) /\ s \ {Pick(s)} \in UpTo(S, rank, m)
        BY <3>2, <3>3 DEF UpTo
      <3> QED
        BY <2>2, <3>4 DEF Recursion
    <2>4. Recursion(a, base, f, UpTo(S, rank, m), iter)
      BY <2>3 DEF Recursion
    <2> QED
      BY <1>2, <2>4
  <1> QED
    BY <1>3, <1>4

\* The function that the fold chooses satisfies its recursion.
TheIter(a, base, f, S) == CHOOSE iter : Recursion(a, base, f, SUBSET S, iter)

LEMMA FoldIsIter ==
    ASSUME NEW S, NEW a, NEW base, NEW f
    PROVE  Fold(a, base, f, S) = TheIter(a, base, f, S)[S]
  BY DEF Fold, MapThenFoldSet, TheIter, Recursion

\* The rank of a subset is at most that of the set.
LEMMA RankOfSubset ==
    ASSUME WellOrdered, NEW S, NEW rank, IsRank(rank, S), NEW s \in SUBSET S
    PROVE  rank[s] <= rank[S]
  <1> DEFINE F == {t \in SUBSET S : s \subseteq t /\ rank[t] <= rank[S]}
  <1>1. rank[S] \in Nat /\ F \in SUBSET SUBSET S /\ S \in F
    BY DEF IsRank
  <1>2. PICK t \in F : \A u \in F : rank[t] <= rank[u]
    BY <1>1, LeastRank
  <1>3. t \in SUBSET S /\ s \subseteq t /\ rank[t] <= rank[S] /\ rank[t] \in Nat
    BY <1>2 DEF IsRank
  <1>4. ASSUME NEW x \in t \ s
        PROVE  FALSE
    <2>1. t \ {x} \in SUBSET S /\ s \subseteq t \ {x}
      BY <1>3
    <2>2. rank[t \ {x}] < rank[t] /\ rank[t \ {x}] \in Nat
      BY <1>3, <2>1 DEF IsRank
    <2>3. rank[t \ {x}] <= rank[S]
      BY <1>1, <1>3, <2>2
    <2>4. t \ {x} \in F
      BY <2>1, <2>3
    <2> QED
      BY <1>2, <1>3, <2>2, <2>4
  <1>5. t = s
    BY <1>3, <1>4
  <1> QED
    BY <1>3, <1>5

LEMMA IterRecurs ==
    ASSUME WellOrdered, NEW S, Ranked(S), Picks(S), NEW a, NEW base, NEW f
    PROVE  Recursion(a, base, f, SUBSET S, TheIter(a, base, f, S))
  <1>1. PICK rank : IsRank(rank, S)
    BY DEF Ranked
  <1>2. PICK n \in Nat : n = rank[S]
    BY <1>1 DEF IsRank
  <1>3. SUBSET S = UpTo(S, rank, n)
    BY <1>1, <1>2, RankOfSubset DEF UpTo
  <1>4. PICK iter : Recursion(a, base, f, UpTo(S, rank, n), iter)
    BY <1>1, Solvable
  <1>5. Recursion(a, base, f, SUBSET S, iter)
    BY <1>3, <1>4
  <1> QED
    BY <1>5 DEF TheIter

\* The subsets of a set that has a rank have one.
LEMMA RankedSubset ==
    ASSUME NEW S, Ranked(S), NEW T \in SUBSET S
    PROVE  Ranked(T)
  <1>1. PICK rank : IsRank(rank, S)
    BY DEF Ranked
  <1>2. IsRank([s \in SUBSET T |-> rank[s]], T)
    BY <1>1 DEF IsRank
  <1> QED
    BY <1>2 DEF Ranked

\* Two solutions agree wherever both are defined and fold the same elements.
LEMMA IterUnique ==
    ASSUME WellOrdered, NEW T, Ranked(T), Picks(T), NEW S \in SUBSET T,
           NEW a, NEW base, NEW f, NEW g, \A i \in S : f[i] = g[i]
    PROVE  TheIter(a, base, f, S)[S] = TheIter(a, base, g, T)[S]
  <1> DEFINE u == TheIter(a, base, f, S)
             v == TheIter(a, base, g, T)
             F == {s \in SUBSET S : u[s] # v[s]}
  <1>1. SUFFICES ASSUME F # {}
                 PROVE  FALSE
    OBVIOUS
  <1>2. Ranked(S) /\ Picks(S)
    BY RankedSubset DEF Picks
  <1>3. Recursion(a, base, f, SUBSET S, u) /\ Recursion(a, base, g, SUBSET T, v)
    BY <1>2, IterRecurs
  <1> HIDE DEF u, v
  <1>4. PICK rank : IsRank(rank, S)
    BY <1>2 DEF Ranked
  <1>5. PICK s \in F : \A t \in F : rank[s] <= rank[t]
    BY <1>1, <1>4, LeastRank
  <1>6. s # {}
    BY <1>3, <1>5 DEF Recursion
  <1>7. s \in SUBSET S /\ s \in SUBSET T
    BY <1>5
  <1>8. s \ {Pick(s)} \notin F /\ s \ {Pick(s)} \in SUBSET S /\ Pick(s) \in S
    <2>1. /\ Pick(s) \in s /\ s \ {Pick(s)} \in SUBSET S
          /\ rank[s \ {Pick(s)}] \in Nat /\ rank[s] \in Nat /\ rank[s \ {Pick(s)}] < rank[s]
      BY <1>2, <1>4, <1>6, <1>7, Without
    <2>2. s \ {Pick(s)} \in F => rank[s] <= rank[s \ {Pick(s)}]
      BY <1>5
    <2> QED
      BY <1>7, <2>1, <2>2
  <1>9. u[s \ {Pick(s)}] = v[s \ {Pick(s)}] /\ f[Pick(s)] = g[Pick(s)]
    BY <1>8
  <1>10. u[s] = Op(u[s \ {Pick(s)}], f[Pick(s)], a)
    BY <1>3, <1>6, <1>7 DEF Recursion
  <1>11. v[s] = Op(v[s \ {Pick(s)}], g[Pick(s)], a)
    BY <1>3, <1>6, <1>7 DEF Recursion
  <1> QED
    BY <1>5, <1>9, <1>10, <1>11

-----------------------------------------------------------------------------
\* A fold over nothing is its base.
THEOREM FoldEmpty ==
    ASSUME WellOrdered, NEW a, NEW base, NEW f
    PROVE  Fold(a, base, f, {}) = base
  <1>1. IsRank([s \in SUBSET {} |-> 0], {}) /\ Picks({})
    BY DEF IsRank, Picks
  <1>2. Recursion(a, base, f, SUBSET {}, TheIter(a, base, f, {}))
    BY <1>1, IterRecurs DEF Ranked
  <1>3. TheIter(a, base, f, {})[{}] = base
    BY <1>2 DEF Recursion
  <1> QED
    BY <1>3, FoldIsIter

\* A fold applies the operator to the fold of the other elements and the one
\* that is picked.
THEOREM FoldStep ==
    ASSUME WellOrdered, NEW S, Ranked(S), S # {}, Picks(S), NEW a, NEW base, NEW f
    PROVE  Fold(a, base, f, S) = Op(Fold(a, base, f, S \ {Pick(S)}), f[Pick(S)], a)
  <1> DEFINE R == S \ {Pick(S)}
  <1>1. R \in SUBSET S
    OBVIOUS
  <1>2. Fold(a, base, f, R) = TheIter(a, base, f, S)[R]
    <2> HIDE DEF R
    <2>1. Fold(a, base, f, R) = TheIter(a, base, f, R)[R]
      BY FoldIsIter
    <2> QED
      BY <1>1, <2>1, IterUnique
  <1>3. Recursion(a, base, f, SUBSET S, TheIter(a, base, f, S))
    BY IterRecurs
  <1>4. TheIter(a, base, f, S)[S] = Op(TheIter(a, base, f, S)[R], f[Pick(S)], a)
    BY <1>3 DEF Recursion
  <1> QED
    BY <1>2, <1>4, FoldIsIter

\* A fold depends only on the elements it folds.
THEOREM FoldSame ==
    ASSUME WellOrdered, NEW S, Ranked(S), Picks(S), NEW a, NEW base, NEW f, NEW g,
           \A i \in S : f[i] = g[i]
    PROVE  Fold(a, base, f, S) = Fold(a, base, g, S)
  <1>1. S \in SUBSET S
    OBVIOUS
  <1> QED
    BY <1>1, IterUnique, FoldIsIter

-----------------------------------------------------------------------------
\* Induction over an index: what holds of the set A holds of every index.
THEOREM EveryIndex ==
    ASSUME WellOrdered, NEW n \in Nat, NEW A, 0 \in A, \A i \in 1..n : i - 1 \in A => i \in A
    PROVE  n \in A
  <1> DEFINE B == {i \in 0..n : i \notin A}
  <1>1. SUFFICES ASSUME n \notin A
                 PROVE  FALSE
    OBVIOUS
  <1>2. B \in SUBSET Nat /\ B # {}
    BY <1>1
  <1>3. PICK i \in B : \A j \in B : i <= j
    BY <1>2 DEF WellOrdered
  <1>4. i \in 1..n /\ i - 1 \notin B /\ i - 1 \in 0..n
    BY <1>3
  <1> QED
    BY <1>3, <1>4

\* An interval has a rank.
LEMMA RankedInterval ==
    ASSUME WellOrdered, NEW n \in Nat
    PROVE  Ranked(1..n)
  <1> DEFINE A == {i \in 0..n : Ranked(1..i)}
  <1>1. 0 \in A
    <2>1. IsRank([s \in SUBSET (1..0) |-> 0], 1..0)
      BY DEF IsRank
    <2> QED
      BY <2>1 DEF Ranked
  <1>2. ASSUME NEW i \in 1..n, i - 1 \in A
        PROVE  i \in A
    <2>1. PICK rank : IsRank(rank, 1..(i - 1))
      BY <1>2 DEF Ranked
    <2> DEFINE g == [s \in SUBSET (1..i) |-> rank[s \ {i}] + (IF i \in s THEN 1 ELSE 0)]
    <2>2. ASSUME NEW s \in SUBSET (1..i)
          PROVE  s \ {i} \in SUBSET (1..(i - 1)) /\ rank[s \ {i}] \in Nat /\ g[s] \in Nat
      <3>1. s \ {i} \in SUBSET (1..(i - 1))
        OBVIOUS
      <3>2. rank[s \ {i}] \in Nat
        BY <2>1, <3>1 DEF IsRank
      <3> QED
        BY <3>1, <3>2
    <2>3. ASSUME NEW s \in SUBSET (1..i), NEW x \in s
          PROVE  g[s \ {x}] < g[s]
      <3>1. s \ {x} \in SUBSET (1..i)
        OBVIOUS
      <3>2. CASE x = i
        <4>1. (s \ {x}) \ {i} = s \ {i} /\ i \notin s \ {x} /\ i \in s
          BY <3>2
        <4>2. g[s] = rank[s \ {i}] + 1 /\ g[s \ {x}] = rank[s \ {i}] + 0
          BY <3>1, <4>1
        <4>3. rank[s \ {i}] \in Nat
          BY <2>2
        <4> QED
          BY <4>2, <4>3
      <3>3. CASE x # i
        <4>1. (s \ {x}) \ {i} = (s \ {i}) \ {x} /\ x \in s \ {i} /\ (i \in s \ {x}) = (i \in s)
          BY <3>3
        <4>2. rank[(s \ {i}) \ {x}] < rank[s \ {i}]
          BY <2>1, <2>2, <4>1 DEF IsRank
        <4>3. rank[(s \ {x}) \ {i}] < rank[s \ {i}] /\ rank[(s \ {x}) \ {i}] \in Nat
              /\ rank[s \ {i}] \in Nat
          BY <2>2, <3>1, <4>1, <4>2
        <4> QED
          BY <3>1, <4>1, <4>3
      <3> QED
        BY <3>2, <3>3
    <2>4. IsRank(g, 1..i)
      <3>1. g \in [SUBSET (1..i) -> Nat]
        BY <2>2
      <3> HIDE DEF g
      <3> QED
        BY <2>3, <3>1 DEF IsRank
    <2> QED
      BY <2>4 DEF Ranked
  <1> HIDE DEF A
  <1>3. n \in A
    BY <1>1, <1>2, EveryIndex
  <1> QED
    BY <1>3 DEF A

-----------------------------------------------------------------------------
(* FoldLeft: the largest index is folded last.                             *)
PicksLargest == \A S : Pick(S) = CHOOSE x \in S : \A y \in S : x >= y

\* Numbers up to n of which there is one have a largest.
LEMMA LargestBelow ==
    ASSUME WellOrdered, NEW n \in Nat, NEW s \in SUBSET (1..n), s # {}
    PROVE  \E x \in s : \A y \in s : x >= y
  <1> DEFINE B == {n - x : x \in s}
  <1>0. \A x \in s : x \in Int /\ n - x \in Nat
    OBVIOUS
  <1>1. B \in SUBSET Nat /\ B # {}
    <2>1. PICK x \in s : TRUE
      OBVIOUS
    <2>2. n - x \in B
      OBVIOUS
    <2> QED
      BY <1>0, <2>2
  <1>2. PICK m \in B : \A k \in B : m <= k
    BY <1>1 DEF WellOrdered
  <1>3. PICK x \in s : m = n - x
    BY <1>2
  <1>4. \A y \in s : n - x <= n - y
    BY <1>2, <1>3
  <1> QED
    BY <1>0, <1>4

LEMMA LargestOf ==
    ASSUME WellOrdered, PicksLargest, NEW n \in Nat
    PROVE  /\ Ranked(1..n) /\ Picks(1..n)
           /\ n # 0 => 1..n # {} /\ Pick(1..n) = n /\ (1..n) \ {n} = 1..(n - 1)
  <1>1. ASSUME NEW s \in SUBSET (1..n), s # {}
        PROVE  Pick(s) \in s /\ \A y \in s : Pick(s) >= y
    <2>1. \E x \in s : \A y \in s : x >= y
      BY <1>1, LargestBelow
    <2> QED
      BY <2>1 DEF PicksLargest
  <1>2. Picks(1..n)
    BY <1>1 DEF Picks
  <1>3. ASSUME n # 0
        PROVE  1..n # {} /\ Pick(1..n) = n /\ (1..n) \ {n} = 1..(n - 1)
    <2>1. n \in 1..n
      BY <1>3
    <2>2. Pick(1..n) \in 1..n /\ Pick(1..n) >= n
      BY <1>1, <2>1
    <2> QED
      BY <1>3, <2>1, <2>2
  <1> QED
    BY <1>2, <1>3, RankedInterval

\* The first n elements folded from the left are the first n - 1 and then the
\* last.
THEOREM FoldNext ==
    ASSUME WellOrdered, PicksLargest, NEW a, NEW base, NEW f, NEW n \in Nat, n # 0
    PROVE  Fold(a, base, f, 1..n) = Op(Fold(a, base, f, 1..(n - 1)), f[n], a)
  <1>1. Ranked(1..n) /\ Picks(1..n) /\ 1..n # {} /\ Pick(1..n) = n
        /\ (1..n) \ {n} = 1..(n - 1)
    BY LargestOf
  <1>2. Fold(a, base, f, 1..n) = Op(Fold(a, base, f, (1..n) \ {Pick(1..n)}), f[Pick(1..n)], a)
    BY <1>1, FoldStep
  <1> QED
    BY <1>1, <1>2

\* A sequence with one element more.
THEOREM FoldAppend ==
    ASSUME WellOrdered, PicksLargest, NEW a, NEW base, NEW T, NEW s \in Seq(T), NEW e
    PROVE  Fold(a, base, Append(s, e), 1..(Len(s) + 1)) = Op(Fold(a, base, s, 1..Len(s)), e, a)
  <1>1. PICK n \in Nat : n = Len(s)
    OBVIOUS
  <1> DEFINE t == Append(s, e)
  <1>2. t[n + 1] = e /\ \A i \in 1..n : t[i] = s[i]
    BY <1>1
  <1> HIDE DEF t
  <1>3. Ranked(1..n) /\ Picks(1..n)
    BY LargestOf
  <1>4. Fold(a, base, t, 1..n) = Fold(a, base, s, 1..n)
    BY <1>2, <1>3, FoldSame
  <1>5. Fold(a, base, t, 1..(n + 1)) = Op(Fold(a, base, t, 1..n), t[n + 1], a)
    <2>1. n + 1 \in Nat /\ n + 1 # 0 /\ (n + 1) - 1 = n
      OBVIOUS
    <2>2. Fold(a, base, t, 1..(n + 1)) = Op(Fold(a, base, t, 1..((n + 1) - 1)), t[n + 1], a)
      BY <2>1, FoldNext
    <2> QED
      BY <2>1, <2>2
  <1> QED
    BY <1>1, <1>2, <1>4, <1>5 DEF t
=============================================================================
