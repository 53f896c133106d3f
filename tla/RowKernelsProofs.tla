--------------------------- MODULE RowKernelsProofs ---------------------------
(***************************************************************************)
(* Theorems about RowKernels, for every number of blocks and of rows:      *)
(* TypeCorrect, LanesKeepToTheirRow, EveryRowComplete, EveryRowWritten.    *)
(*                                                                         *)
(* A kernel's program has a plan (Plan): loops in which lanes add terms of *)
(* their own blocks, then shuffles, shared memory or neither.  At any time *)
(* a lane's running sum is the bag of the terms that some lanes have       *)
(* computed so far: the pieces (Piece) say which terms those are, a lane   *)
(* map (Maps) whose pieces a lane holds.  Loops make the pieces grow,      *)
(* shuffles change the map.  Inv says both of every warp and is inductive; *)
(* the last sections show that every kernel of the tables has a plan.      *)
(***************************************************************************)
EXTENDS RowKernels, FiniteSetTheorems, WellFoundedInduction, TLAPS

-----------------------------------------------------------------------------
(* What a warp holds.  P gives each lane the terms it has computed itself, *)
(* its piece; a lane map M says whose pieces a lane holds by now.          *)

Held(P, M) == [l \in Lanes |-> SetToBag(UNION {P[m] : m \in M[l]})]

\* The pieces of any c lanes in a row are apart.
Apart(P, c) == \A m, q \in Lanes : m \div c = q \div c /\ m # q => P[m] \cap P[q] = {}

\* The lanes of l's d-tuple whose e-tuple is as far from a multiple of k as l's.
Alike(d, e, k) ==
    [l \in Lanes |-> {m \in Lanes : m \div d = l \div d /\ (m \div e) % k = (l \div e) % k}]
Own == [l \in Lanes |-> {l}]
Near(d) == [l \in Lanes |-> {m \in Lanes : m \div d = l \div d}]
Everyone == [l \in Lanes |-> Lanes]
Merge(M, o) == [l \in Lanes |-> M[l] \cup M[Partner(l, o)]]

Offsets5 == {1, 2, 4, 8, 16}

\* The first lane of every d holds what d lanes have computed.
Leading(d) == [l \in Lanes |-> IF l % d = 0 THEN Near(d)[l] ELSE {}]
Maps == {Own, Near(4), Near(8), Everyone, Leading(8), Leading(32)}

\* The trees of shuffles: offsets, the map before and after, and how many
\* lanes in a row must have pieces that are apart.
Trees ==
    {<<<<16, 8, 4, 2, 1>>, Own, Everyone, 32>>, <<<<8, 16, 4, 1, 2>>, Own, Everyone, 32>>,
     <<<<4, 1, 2, 16, 8>>, Own, Everyone, 32>>, <<<<4, 1, 2>>, Own, Near(8), 8>>,
     <<<<4, 1, 2>>, Leading(8), Near(8), 8>>, <<<<1, 2>>, Own, Near(4), 4>>}

\* The partner of a lane is a lane.
LEMMA PartnerLane == \A l \in Lanes, o \in Offsets5 : Partner(l, o) \in Lanes
  BY DEF Partner, Lanes, Offsets5

\* Bags of sets that are apart add up to the bag of their union.
LEMMA JoinSets ==
    ASSUME NEW A, NEW B, A \cap B = {}
    PROVE  SetToBag(A) (+) SetToBag(B) = SetToBag(A \cup B)
  BY DEF SetToBag, (+)

\* An exchange joins the pieces of two lanes, provided that they hold
\* different ones.
LEMMA ButterflyMerges ==
    ASSUME NEW P, NEW M, NEW o \in Offsets5,
           \A l \in Lanes : \A p \in M[l], q \in M[Partner(l, o)] : P[p] \cap P[q] = {}
    PROVE  Butterfly(Held(P, M), o) = Held(P, Merge(M, o))
  <1> DEFINE H(l) == UNION {P[m] : m \in M[l]}
  <1>1. ASSUME NEW l \in Lanes
        PROVE  /\ Held(P, M)[l] (+) Held(P, M)[Partner(l, o)] = SetToBag(H(l) \cup H(Partner(l, o)))
               /\ H(l) \cup H(Partner(l, o)) = UNION {P[m] : m \in Merge(M, o)[l]}
    <2>1. Held(P, M)[l] = SetToBag(H(l)) /\ Held(P, M)[Partner(l, o)] = SetToBag(H(Partner(l, o)))
      BY PartnerLane DEF Held
    <2>2. H(l) \cap H(Partner(l, o)) = {}
      OBVIOUS
    <2>3. H(l) \cup H(Partner(l, o)) = UNION {P[m] : m \in Merge(M, o)[l]}
      BY DEF Merge
    <2> HIDE DEF H
    <2> QED
      BY <2>1, <2>2, <2>3, JoinSets
  <1> HIDE DEF H
  <1> QED
    BY <1>1 DEF Butterfly, Held

-----------------------------------------------------------------------------
(* The trees of shuffles.                                                  *)

Largest(S) == Max(S)
shuffle(sums, offset, a) == Butterfly(sums, offset)
Shuffling == INSTANCE FoldTheorems WITH Op <- shuffle, Pick <- Largest

\* FoldLeft over a tree of shuffles is the fold of FoldTheorems.
LEMMA ShufflesAreFold ==
    ASSUME NEW b, NEW s
    PROVE  FoldLeft(Butterfly, b, s) = Shuffling!Fold(0, b, s, DOMAIN s)
  BY DEF FoldLeft, MapThenFoldSet, Max, Shuffling!Fold, Shuffling!MapThenFoldSet, Largest, shuffle

\* Nat is well ordered.
LEMMA Least == \A B \in SUBSET Nat : B # {} => \E n \in B : \A m \in B : n <= m
  <1>1. SUFFICES ASSUME NEW B \in SUBSET Nat, B # {}
                 PROVE  \E n \in B : \A m \in B : n <= m
    OBVIOUS
  <1>2. PICK n \in B : \A m \in B : ~ (<<m, n>> \in OpToRel(<, Nat))
    BY <1>1, NatLessThanWellFounded, WFMin
  <1>3. \A m \in B : ~ (m < n)
    BY <1>2 DEF OpToRel
  <1>4. \A m \in B : n <= m
    BY <1>3
  <1> QED
    BY <1>4

\* The fold takes the offsets from the last one down.
LEMMA LargestPicked == Shuffling!WellOrdered /\ Shuffling!PicksLargest
  BY Least DEF Shuffling!WellOrdered, Shuffling!PicksLargest, Max, Largest

\* A tree of two, three or five offsets, shuffle by shuffle.
LEMMA Shuffles ==
    ASSUME NEW b, NEW s \in Seq(Offsets5)
    PROVE  /\ Len(s) = 0 => FoldLeft(Butterfly, b, s) = b
           /\ Len(s) = 2 => FoldLeft(Butterfly, b, s) = Butterfly(Butterfly(b, s[1]), s[2])
           /\ Len(s) = 3 => FoldLeft(Butterfly, b, s)
                            = Butterfly(Butterfly(Butterfly(b, s[1]), s[2]), s[3])
           /\ Len(s) = 5 => FoldLeft(Butterfly, b, s)
                            = Butterfly(Butterfly(Butterfly(Butterfly(Butterfly(b, s[1]), s[2]), s[3]), s[4]), s[5])
  <1> DEFINE F(n) == Shuffling!Fold(0, b, s, 1..n)
  <1>1. F(0) = b
    BY LargestPicked, Shuffling!FoldEmpty
  <1>2. \A n \in 1..5 : F(n) = Butterfly(F(n - 1), s[n])
    BY LargestPicked, Shuffling!FoldNext DEF shuffle
  <1>3. DOMAIN s = 1..Len(s)
    OBVIOUS
  <1>4. FoldLeft(Butterfly, b, s) = F(Len(s))
    BY <1>3, ShufflesAreFold
  <1> HIDE DEF F
  <1>5. /\ F(1) = Butterfly(F(0), s[1]) /\ F(2) = Butterfly(F(1), s[2])
        /\ F(3) = Butterfly(F(2), s[3]) /\ F(4) = Butterfly(F(3), s[4])
        /\ F(5) = Butterfly(F(4), s[5])
    <2>1. /\ 2 - 1 = 1 /\ 3 - 1 = 2 /\ 4 - 1 = 3 /\ 5 - 1 = 4 /\ 1 - 1 = 0
      OBVIOUS
    <2> QED
      BY <1>2, <2>1
  <1> QED
    BY <1>1, <1>4, <1>5

\* An exchange at distance o takes the map M to N; both lanes hold pieces of
\* the same c lanes, and different ones.
Fuses(M, o, N, c) ==
    /\ o \in Offsets5 /\ Merge(M, o) = N
    /\ \A l \in Lanes : \A p \in M[l], q \in M[Partner(l, o)] :
          p \in Lanes /\ q \in Lanes /\ p # q /\ p \div c = q \div c

\* So one exchange turns what M says the lanes hold into what N says.
LEMMA FusesHeld ==
    ASSUME NEW P, NEW M, NEW o, NEW N, NEW c, Fuses(M, o, N, c), Apart(P, c)
    PROVE  Butterfly(Held(P, M), o) = Held(P, N)
  BY ButterflyMerges DEF Fuses, Apart

\* Five exchanges in a row, of a whole warp.
LEMMA FiveShuffles ==
    ASSUME NEW P, NEW c, Apart(P, c), NEW M0, NEW M1, NEW M2, NEW M3, NEW M4, NEW M5,
           NEW a, NEW b, NEW d, NEW e, NEW f, Fuses(M0, a, M1, c), Fuses(M1, b, M2, c),
           Fuses(M2, d, M3, c), Fuses(M3, e, M4, c), Fuses(M4, f, M5, c)
    PROVE  FoldLeft(Butterfly, Held(P, M0), <<a, b, d, e, f>>) = Held(P, M5)
  <1> DEFINE s == <<a, b, d, e, f>>
  <1>1. s \in Seq(Offsets5)
    BY DEF Fuses
  <1>2. Len(s) = 5 /\ s[1] = a /\ s[2] = b /\ s[3] = d /\ s[4] = e /\ s[5] = f
    OBVIOUS
  <1> HIDE DEF s
  <1>3. FoldLeft(Butterfly, Held(P, M0), s)
        = Butterfly(Butterfly(Butterfly(Butterfly(Butterfly(Held(P, M0), a), b), d), e), f)
    BY <1>1, <1>2, Shuffles
  <1>4. Butterfly(Held(P, M0), a) = Held(P, M1) /\ Butterfly(Held(P, M1), b) = Held(P, M2)
        /\ Butterfly(Held(P, M2), d) = Held(P, M3) /\ Butterfly(Held(P, M3), e) = Held(P, M4)
        /\ Butterfly(Held(P, M4), f) = Held(P, M5)
    BY FusesHeld
  <1> QED
    BY Zenon, <1>3, <1>4 DEF s

\* Three, of an octet.
LEMMA ThreeShuffles ==
    ASSUME NEW P, NEW c, Apart(P, c), NEW M0, NEW M1, NEW M2, NEW M3, NEW a, NEW b, NEW d,
           Fuses(M0, a, M1, c), Fuses(M1, b, M2, c), Fuses(M2, d, M3, c)
    PROVE  FoldLeft(Butterfly, Held(P, M0), <<a, b, d>>) = Held(P, M3)
  <1> DEFINE s == <<a, b, d>>
  <1>1. s \in Seq(Offsets5)
    BY DEF Fuses
  <1>2. Len(s) = 3 /\ s[1] = a /\ s[2] = b /\ s[3] = d
    OBVIOUS
  <1> HIDE DEF s
  <1>3. FoldLeft(Butterfly, Held(P, M0), s) = Butterfly(Butterfly(Butterfly(Held(P, M0), a), b), d)
    BY <1>1, <1>2, Shuffles
  <1>4. Butterfly(Held(P, M0), a) = Held(P, M1) /\ Butterfly(Held(P, M1), b) = Held(P, M2)
        /\ Butterfly(Held(P, M2), d) = Held(P, M3)
    BY FusesHeld
  <1> QED
    BY Zenon, <1>3, <1>4 DEF s

\* Two, of four lanes.
LEMMA TwoShuffles ==
    ASSUME NEW P, NEW c, Apart(P, c), NEW M0, NEW M1, NEW M2, NEW a, NEW b,
           Fuses(M0, a, M1, c), Fuses(M1, b, M2, c)
    PROVE  FoldLeft(Butterfly, Held(P, M0), <<a, b>>) = Held(P, M2)
  <1> DEFINE s == <<a, b>>
  <1>1. s \in Seq(Offsets5)
    BY DEF Fuses
  <1>2. Len(s) = 2 /\ s[1] = a /\ s[2] = b
    OBVIOUS
  <1> HIDE DEF s
  <1>3. FoldLeft(Butterfly, Held(P, M0), s) = Butterfly(Butterfly(Held(P, M0), a), b)
    BY <1>1, <1>2, Shuffles
  <1>4. Butterfly(Held(P, M0), a) = Held(P, M1) /\ Butterfly(Held(P, M1), b) = Held(P, M2)
    BY FusesHeld
  <1> QED
    BY Zenon, <1>3, <1>4 DEF s

\* Pieces that are apart in the whole warp are apart in any part of it.
LEMMA WideApart == ASSUME NEW P, Apart(P, 32), NEW c \in Nat PROVE Apart(P, c)
  <1>1. \A m \in Lanes : m \div 32 = 0
    BY DEF Lanes
  <1> QED
    BY <1>1 DEF Apart

\* What each tree of shuffles makes of the pieces.
LEMMA TreeMerges ==
    ASSUME NEW P, NEW tree \in Trees, Apart(P, tree[4])
    PROVE  FoldLeft(Butterfly, Held(P, tree[2]), tree[1]) = Held(P, tree[3])
  <1>1. ASSUME tree = <<<<16, 8, 4, 2, 1>>, Own, Everyone, 32>>
        PROVE  FoldLeft(Butterfly, Held(P, Own), <<16, 8, 4, 2, 1>>) = Held(P, Everyone)
    <2>1. Fuses(Own, 16, Alike(32, 1, 16), 32)
      BY DEF Fuses, Merge, Partner, Alike, Own, Lanes, Offsets5
    <2>2. Fuses(Alike(32, 1, 16), 8, Alike(32, 1, 8), 32)
      BY DEF Fuses, Merge, Partner, Alike, Lanes, Offsets5
    <2>3. Fuses(Alike(32, 1, 8), 4, Alike(32, 1, 4), 32)
      BY DEF Fuses, Merge, Partner, Alike, Lanes, Offsets5
    <2>4. Fuses(Alike(32, 1, 4), 2, Alike(32, 1, 2), 32)
      BY DEF Fuses, Merge, Partner, Alike, Lanes, Offsets5
    <2>5. Fuses(Alike(32, 1, 2), 1, Everyone, 32)
      BY DEF Fuses, Merge, Partner, Alike, Everyone, Lanes, Offsets5
    <2>6. Apart(P, 32)
      BY <1>1
    <2> QED
      BY <2>1, <2>2, <2>3, <2>4, <2>5, <2>6, FiveShuffles
  <1>2. ASSUME tree = <<<<8, 16, 4, 1, 2>>, Own, Everyone, 32>>
        PROVE  FoldLeft(Butterfly, Held(P, Own), <<8, 16, 4, 1, 2>>) = Held(P, Everyone)
    <2>1. Fuses(Own, 8, Alike(16, 1, 8), 32)
      BY DEF Fuses, Merge, Partner, Alike, Own, Lanes, Offsets5
    <2>2. Fuses(Alike(16, 1, 8), 16, Alike(32, 1, 8), 32)
      BY DEF Fuses, Merge, Partner, Alike, Lanes, Offsets5
    <2>3. Fuses(Alike(32, 1, 8), 4, Alike(32, 1, 4), 32)
      BY DEF Fuses, Merge, Partner, Alike, Lanes, Offsets5
    <2>4. Fuses(Alike(32, 1, 4), 1, Alike(32, 2, 2), 32)
      BY DEF Fuses, Merge, Partner, Alike, Lanes, Offsets5
    <2>5. Fuses(Alike(32, 2, 2), 2, Everyone, 32)
      BY DEF Fuses, Merge, Partner, Alike, Everyone, Lanes, Offsets5
    <2>6. Apart(P, 32)
      BY <1>2
    <2> QED
      BY <2>1, <2>2, <2>3, <2>4, <2>5, <2>6, FiveShuffles
  <1>3. ASSUME tree = <<<<4, 1, 2, 16, 8>>, Own, Everyone, 32>>
        PROVE  FoldLeft(Butterfly, Held(P, Own), <<4, 1, 2, 16, 8>>) = Held(P, Everyone)
    <2>1. Fuses(Own, 4, Alike(8, 1, 4), 32)
      BY DEF Fuses, Merge, Partner, Alike, Own, Lanes, Offsets5
    <2>2. Fuses(Alike(8, 1, 4), 1, Alike(8, 2, 2), 32)
      BY DEF Fuses, Merge, Partner, Alike, Lanes, Offsets5
    <2>3. Fuses(Alike(8, 2, 2), 2, Near(8), 32)
      BY DEF Fuses, Merge, Partner, Alike, Near, Lanes, Offsets5
    <2>4. Fuses(Near(8), 16, Alike(32, 8, 2), 32)
      BY DEF Fuses, Merge, Partner, Alike, Near, Lanes, Offsets5
    <2>5. Fuses(Alike(32, 8, 2), 8, Everyone, 32)
      BY DEF Fuses, Merge, Partner, Alike, Everyone, Lanes, Offsets5
    <2>6. Apart(P, 32)
      BY <1>3
    <2> QED
      BY <2>1, <2>2, <2>3, <2>4, <2>5, <2>6, FiveShuffles
  <1>4. ASSUME tree = <<<<4, 1, 2>>, Own, Near(8), 8>>
        PROVE  FoldLeft(Butterfly, Held(P, Own), <<4, 1, 2>>) = Held(P, Near(8))
    <2>1. Fuses(Own, 4, Alike(8, 1, 4), 8)
      BY DEF Fuses, Merge, Partner, Alike, Own, Lanes, Offsets5
    <2>2. Fuses(Alike(8, 1, 4), 1, Alike(8, 2, 2), 8)
      BY DEF Fuses, Merge, Partner, Alike, Lanes, Offsets5
    <2>3. Fuses(Alike(8, 2, 2), 2, Near(8), 8)
      BY DEF Fuses, Merge, Partner, Alike, Near, Lanes, Offsets5
    <2>6. Apart(P, 8)
      BY <1>4
    <2> QED
      BY <2>1, <2>2, <2>3, <2>6, ThreeShuffles
  <1>5. ASSUME tree = <<<<4, 1, 2>>, Leading(8), Near(8), 8>>
        PROVE  FoldLeft(Butterfly, Held(P, Leading(8)), <<4, 1, 2>>) = Held(P, Near(8))
    <2> DEFINE Led(d) == [l \in Lanes |-> IF l % d = 0 THEN Near(8)[l] ELSE {}]
               Led3 == [l \in Lanes |-> IF l % 4 \in {0, 1} THEN Near(8)[l] ELSE {}]
    <2>1. Fuses(Leading(8), 4, Led(4), 8)
      BY DEF Fuses, Merge, Partner, Leading, Near, Lanes, Offsets5
    <2>2. Fuses(Led(4), 1, Led3, 8)
      BY DEF Fuses, Merge, Partner, Near, Lanes, Offsets5
    <2>3. Fuses(Led3, 2, Near(8), 8)
      BY DEF Fuses, Merge, Partner, Near, Lanes, Offsets5
    <2>6. Apart(P, 8)
      BY <1>5
    <2> HIDE DEF Led, Led3
    <2> QED
      BY <2>1, <2>2, <2>3, <2>6, ThreeShuffles
  <1>6. ASSUME tree = <<<<1, 2>>, Own, Near(4), 4>>
        PROVE  FoldLeft(Butterfly, Held(P, Own), <<1, 2>>) = Held(P, Near(4))
    <2>1. Fuses(Own, 1, Near(2), 4)
      BY DEF Fuses, Merge, Partner, Near, Own, Lanes, Offsets5
    <2>2. Fuses(Near(2), 2, Near(4), 4)
      BY DEF Fuses, Merge, Partner, Near, Lanes, Offsets5
    <2>6. Apart(P, 4)
      BY <1>6
    <2> QED
      BY <2>1, <2>2, <2>6, TwoShuffles
  <1> QED
    BY <1>1, <1>2, <1>3, <1>4, <1>5, <1>6 DEF Trees

-----------------------------------------------------------------------------
(* Sums over lanes.                                                        *)
Plus(sum, x, a) == x (+) sum
AnyOf(S) == CHOOSE x \in S : TRUE
Summation == INSTANCE FoldTheorems WITH Op <- Plus, Pick <- AnyOf

\* BagSum is the fold of FoldTheorems.
LEMMA BagSumIsFold ==
    ASSUME NEW bags, NEW I
    PROVE  BagSum(bags, I) = Summation!Fold(0, EmptyBag, bags, I)
  BY DEF BagSum, FoldFunctionOnSet, MapThenFoldSet, Summation!Fold, Summation!MapThenFoldSet, Plus,
         AnyOf

\* The folds are over finite sets: the cardinality is their rank.
LEMMA Foldable ==
    /\ Summation!WellOrdered
    /\ \A S : IsFiniteSet(S) => Summation!Ranked(S)
  <1>1. Summation!WellOrdered
    BY Least DEF Summation!WellOrdered
  <1>2. ASSUME NEW S, IsFiniteSet(S)
        PROVE  Summation!Ranked(S)
    <2> DEFINE rank == [s \in SUBSET S |-> Cardinality(s)]
    <2>1. ASSUME NEW s \in SUBSET S, NEW x \in s
          PROVE  Cardinality(s) \in Nat /\ Cardinality(s \ {x}) < Cardinality(s)
      <3>1. IsFiniteSet(s)
        BY <1>2, FS_Subset
      <3>2. IsFiniteSet(s \ {x}) /\ Cardinality(s \ {x}) = Cardinality(s) - 1
        BY <3>1, FS_RemoveElement
      <3> QED
        BY <3>1, <3>2, FS_CardinalityType
    <2>2. rank \in [SUBSET S -> Nat]
      BY <1>2, FS_Subset, FS_CardinalityType
    <2>3. \A s \in SUBSET S : \A x \in s : rank[s \ {x}] < rank[s]
      BY <2>1
    <2> HIDE DEF rank
    <2> QED
      BY <2>2, <2>3 DEF Summation!Ranked, Summation!IsRank
  <1> QED
    BY <1>1, <1>2

\* A family of subsets of a finite set that is not empty has a smallest one.
LEMMA Smallest ==
    ASSUME NEW S, IsFiniteSet(S), NEW F \in SUBSET SUBSET S, F # {}
    PROVE  \E s \in F : \A t \in F : Cardinality(s) <= Cardinality(t)
  <1> DEFINE B == {Cardinality(s) : s \in F}
  <1>1. B \in SUBSET Nat /\ B # {}
    BY FS_Subset, FS_CardinalityType
  <1>2. PICK n \in B : \A m \in B : n <= m
    BY <1>1, Least
  <1> QED
    BY <1>2

\* The sum of sets that are apart is their union.
LEMMA SumOfSets ==
    ASSUME NEW I, IsFiniteSet(I), NEW Q, NEW bags, \A i \in I : bags[i] = SetToBag(Q[i]),
           \A i, j \in I : i # j => Q[i] \cap Q[j] = {}
    PROVE  BagSum(bags, I) = SetToBag(UNION {Q[i] : i \in I})
  <1> DEFINE Sum(J) == Summation!Fold(0, EmptyBag, bags, J)
             F == {J \in SUBSET I : Sum(J) # SetToBag(UNION {Q[i] : i \in J})}
  <1>1. SUFFICES ASSUME F # {}
                 PROVE  FALSE
    BY BagSumIsFold
  <1>2. PICK J \in F : \A K \in F : Cardinality(J) <= Cardinality(K)
    BY <1>1, Smallest
  <1>3. CASE J = {}
    <2>1. Sum(J) = EmptyBag
      BY <1>3, Foldable, Summation!FoldEmpty
    <2>2. UNION {Q[i] : i \in J} = {}
      BY <1>3
    <2> QED
      BY <1>2, <2>1, <2>2 DEF EmptyBag
  <1>4. CASE J # {}
    <2> DEFINE x == AnyOf(J)
               K == J \ {x}
    <2>1. J \in SUBSET I /\ IsFiniteSet(J) /\ x \in J
      <3>1. J \in SUBSET I
        BY <1>2
      <3>2. IsFiniteSet(J)
        BY <3>1, FS_Subset
      <3>3. x \in J
        BY <1>4 DEF AnyOf
      <3> QED
        BY <3>1, <3>2, <3>3
    <2>2. Summation!Picks(J)
      BY DEF Summation!Picks, AnyOf
    <2>3. Sum(J) = bags[x] (+) Sum(K)
      <3>1. Sum(J) = Plus(Sum(K), bags[x], 0)
        BY <1>4, <2>1, <2>2, Foldable, Summation!FoldStep
      <3> QED
        BY <3>1 DEF Plus
    <2> HIDE DEF x
    <2>4. K \notin F
      <3>1. K \in F => Cardinality(J) <= Cardinality(K)
        BY <1>2
      <3>2. Cardinality(J) \in Nat /\ Cardinality(K) = Cardinality(J) - 1
        BY <2>1, FS_RemoveElement, FS_CardinalityType
      <3> QED
        BY <3>1, <3>2
    <2>5. Sum(K) = SetToBag(UNION {Q[i] : i \in K})
      BY <2>1, <2>4
    <2>6. bags[x] = SetToBag(Q[x])
      BY <2>1
    <2>7. Q[x] \cap UNION {Q[i] : i \in K} = {}
      BY <2>1
    <2>8. UNION {Q[i] : i \in J} = Q[x] \cup UNION {Q[i] : i \in K}
      BY <2>1
    <2>9. Sum(J) = SetToBag(UNION {Q[i] : i \in J})
      <3> HIDE DEF Sum, K
      <3> QED
        BY <2>3, <2>5, <2>6, <2>7, <2>8, JoinSets
    <2> QED
      BY <1>2, <2>9
  <1> QED
    BY <1>3, <1>4

-----------------------------------------------------------------------------
(* The plan of a kernel.  Its program starts with loops loops, in which lane l *)
(* adds the terms of the lanes S[l] for a block; when it is done with its  *)
(* shuffles, a lane holds the pieces of the lanes E[l].                    *)

\* Distance between the blocks of a group, and the strides of the loops.
Stride(k) == IF k.split = "stripe" THEN k.warps * (k.lanes \div k.group) ELSE 1
Steps ==
    {<<1, {0}, 1, 1>>, <<1, 0..3, 4, 4>>, <<1, 0..7, 8, 8>>, <<2, {0}, 1, 2>>, <<4, {0}, 1, 4>>,
     <<8, {0}, 1, 8>>, <<4, {0, 4, 8, 12}, 12, 16>>}

\* The place of a lane in its group, as a set of places.
Places(k) == [m \in Lanes |-> IF m < k.lanes THEN {m % k.group} ELSE {}]

Looping(k, loops, S) ==
    /\ loops \in 1..3 /\ loops < Len(k.prog)
    /\ \A i \in 1..loops :
          /\ k.prog[i].op = "loop"
          /\ <<Stride(k), k.prog[i].offs, k.prog[i].room, k.prog[i].step>> \in Steps
          /\ k.prog[i].room = 12 => i = 1 /\ k.prog[1] = FourStripes
          /\ TermsAdded(k, k.prog[i]) = Held(Places(k), S)
    /\ k.prog[loops].room = 1
    /\ \A i \in (loops + 1)..Len(k.prog) : k.prog[i].op # "loop"
    /\ \A l \in Lanes : \A m \in S[l] :
          m < k.lanes => l < k.lanes /\ m \div k.group = l \div k.group

\* Lanes of one row have different pieces: of one group, or of the whole warp
\* where the groups take turns.
Span(k) == IF k.split = "stripe" THEN 32 ELSE k.group
FoldsTo(k, i, S, E) ==
    /\ k.prog[i].op = "fold"
    /\ \E tree \in Trees : tree[1] = k.prog[i].offs /\ tree[2] = S /\ tree[3] = E
                           /\ (tree[4] = Span(k) \/ Span(k) = 32)

\* Each of these lanes holds the pieces of its row, and those alone.
Complete(k, E, lanes) ==
    \A l \in lanes :
       l \in 0..(k.lanes - 1)
         /\ {m \in E[l] : m < k.lanes} = {m \in 0..(k.lanes - 1) : Slot(k, m) = Slot(k, l)}

Writing(k, loops, S, E) ==
    /\ k.warps = 1
    /\ \/ Len(k.prog) = loops + 1 /\ S = E
       \/ Len(k.prog) = loops + 2 /\ FoldsTo(k, loops + 1, S, E)
    /\ k.prog[Len(k.prog)].op = "write" /\ Complete(k, E, k.prog[Len(k.prog)].lanes)

Storing(k, loops, S, E) ==
    /\ Len(k.prog) = loops + 1 /\ S = Own /\ E = Own /\ k.prog[loops + 1].op = "store"
    /\ Slots(k) = {0}

Summing(k, loops, S, E) ==
    /\ k.warps \in {2, 4} /\ k.lanes = 32 /\ Slots(k) = {0} /\ Len(k.prog) = loops + 5
    /\ FoldsTo(k, loops + 1, S, E)
    /\ k.prog[loops + 2].op = "share" /\ k.prog[loops + 2].by = 0..(k.warps - 1)
    /\ k.prog[loops + 3].op = "barrier"
    /\ k.prog[loops + 4].op = "sum" /\ k.prog[loops + 4].lanes = k.prog[loops + 2].lanes
    /\ k.prog[loops + 5].op = "write" /\ k.prog[loops + 5].lanes = {0}
    /\ k.prog[loops + 2].lanes \subseteq Lanes
    /\ UNION {E[l] : l \in k.prog[loops + 2].lanes} = Lanes
    /\ \A l, r \in k.prog[loops + 2].lanes : l # r => E[l] \cap E[r] = {}

Adding(k, loops, S, E) ==
    /\ k.warps = 2 /\ k.lanes = 32 /\ Slots(k) = {0} /\ Len(k.prog) = loops + 5
    /\ k.prog[loops + 1] = Share({1}, Lanes) /\ k.prog[loops + 2].op = "barrier"
    /\ k.prog[loops + 3].op = "add" /\ FoldsTo(k, loops + 4, S, E)
    /\ k.prog[loops + 5].op = "write" /\ k.prog[loops + 5].lanes = {0} /\ E[0] = Lanes

Shape(k) ==
    /\ k.warps \in {1, 2, 4, 8} /\ k.lanes \in {1, 4, 8, 32} /\ k.group \in {1, 4, 8, 16, 32}
    /\ k.group <= k.lanes
    /\ k.split \in {"row", "tile", "stripe", "chunk"}
    /\ k.split \in {"row", "tile"} => k.warps = 1
    /\ k.split = "tile" => k.group = k.lanes
    /\ k.split = "stripe" => k.lanes = 32 /\ Stride(k) \in {2, 4, 8}
    /\ k.split = "chunk" => k.warps \in {2, 4} /\ k.lanes = 32 /\ k.group = 32

Plan(k, loops, S, E) ==
    /\ Shape(k) /\ Looping(k, loops, S)
    /\ Writing(k, loops, S, E) \/ Storing(k, loops, S, E) \/ Summing(k, loops, S, E) \/ Adding(k, loops, S, E)

-----------------------------------------------------------------------------
(* What each lane has computed when its groups have come to the blocks p.  *)
Blocks(s, a, p) == {b \in a..(p - 1) : (b - a) % s = 0}
PieceOf(k, n, w, p) ==
    [m \in Lanes |-> IF m < k.lanes
                     THEN Blocks(Stride(k), FirstBlock(k, n, w, m \div k.group), p[m \div k.group])
                            \X {m % k.group}
                     ELSE {}]
Piece(w) == PieceOf(kernel, launch.n, w, pos[w])
Whole(w) == UNION {Piece(w)[m] : m \in Lanes}
Pieces == [m \in Lanes |-> UNION {Piece(w)[m] : w \in Warps}]

Reached(k, n, w, g, p) ==
    LET a == FirstBlock(k, n, w, g)
    IN  /\ p >= a /\ (p - a) % Stride(k) = 0
        /\ \A b \in Blocks(Stride(k), a, p) : b < LastBlock(k, n, w)

LoopState(loops, S) ==
    \A w \in Warps :
       /\ \A g \in Groups(kernel) :
             /\ Reached(kernel, launch.n, w, g, pos[w][g])
             /\ pc[w] = 1 => pos[w][g] = FirstBlock(kernel, launch.n, w, g)
             /\ pc[w] > loops => pos[w][g] >= LastBlock(kernel, launch.n, w)
       /\ pc[w] <= loops + 1 => regs[w] = Held(Piece(w), S)

Written == pc[0] = Len(kernel.prog) + 1 => \A s \in Slots(kernel) : out[s] = SetToBag(Contributions)

WritingState(loops, S, E) == pc[0] > loops + 1 => regs[0] = Held(Piece(0), E)

StoringState(loops, S, E) ==
    /\ \A w \in Warps : regs[w] = Held(Piece(w), Own)
    /\ out[0] = SetToBag(UNION {Whole(w) : w \in {v \in Warps : pc[v] = loops + 2}})

\* The other warps have left once warp 0 is past the barrier at i.
Left(i) ==
    \A w \in Warps \ {0} : IF pc[0] > i THEN pc[w] = Len(kernel.prog) + 1 ELSE pc[w] <= i

SummingState(loops, S, E) ==
    /\ Left(loops + 3)
    /\ \A w \in Warps : pc[w] > loops + 1 =>
          IF w = 0 /\ pc[0] > loops + 4
          THEN regs[0] = [Held(Piece(0), E) EXCEPT ![0] = SetToBag(Contributions)]
          ELSE regs[w] = Held(Piece(w), E)
    /\ \A w \in Warps : pc[w] > loops + 2 =>
          \A l \in kernel.prog[loops + 2].lanes : shared[w][l] = Held(Piece(w), E)[l]

AddingState(loops, S, E) ==
    /\ Left(loops + 2)
    /\ pc[1] > loops + 1 => regs[1] = Held(Piece(1), S) /\ shared[1] = Held(Piece(1), S)
    /\ pc[0] \in {loops + 2, loops + 3} => regs[0] = Held(Piece(0), S)
    /\ pc[0] = loops + 4 => regs[0] = Held(Pieces, S)
    /\ pc[0] > loops + 4 => regs[0] = Held(Pieces, E)

State(loops, S, E) ==
    /\ LoopState(loops, S)
    /\ Writing(kernel, loops, S, E) => WritingState(loops, S, E)
    /\ Storing(kernel, loops, S, E) => StoringState(loops, S, E)
    /\ Summing(kernel, loops, S, E) => SummingState(loops, S, E)
    /\ Adding(kernel, loops, S, E) => AddingState(loops, S, E)
    /\ kernel.prog[Len(kernel.prog)].op = "write" => Written

Types ==
    /\ launch \in Launches
    /\ kernel.prog[1] = FourStripes => launch.n % 16 < 12
    /\ kernel.split = "chunk" => launch.n >= kernel.warps
    /\ pos \in [Warps -> [Groups(kernel) -> Nat]]
    /\ pc \in [Warps -> 1..(Len(kernel.prog) + 1)]
    /\ DOMAIN regs = Warps /\ DOMAIN shared = Warps
    /\ DOMAIN out = Slots(kernel)

Inv == Types /\ \E loops \in 1..3, S \in Maps, E \in Maps : Plan(kernel, loops, S, E) /\ State(loops, S, E)
-----------------------------------------------------------------------------
(* What a loop takes.                                                      *)
LEMMA JoinBlocks ==
    ASSUME NEW s \in {1, 2, 4, 8}, NEW a \in Nat, NEW p \in Nat, NEW q \in Nat, a <= p, p <= q,
           (p - a) % s = 0
    PROVE  /\ Blocks(s, a, q) = Blocks(s, a, p) \cup Blocks(s, p, q)
           /\ Blocks(s, a, p) \cap Blocks(s, p, q) = {}
  <1>1. \A b \in p..(q - 1) : (b - a) % s = 0 <=> (b - p) % s = 0
    <2>1. CASE s = 1
      BY <2>1
    <2>2. CASE s = 2
      BY <2>2
    <2>3. CASE s = 4
      BY <2>3
    <2>4. CASE s = 8
      BY <2>4
    <2> QED
      BY <2>1, <2>2, <2>3, <2>4
  <1> QED
    BY <1>1 DEF Blocks

\* What a loop with these numbers does from block p on.
Takes(s, loop, p, last) ==
    LET q == p + loop.step * Rounds(loop, p, last)
    IN  /\ q \in Nat /\ q >= p /\ (q - p) % s = 0
        /\ Taken(loop, p, last) = Blocks(s, p, q)
        /\ \A b \in Blocks(s, p, q) : b < last
        /\ loop.room = 1 => q >= last

\* What R rounds take from p on.
TakesIn(s, offs, room, step, p, last, R) ==
    LET q == p + step * R
        taken == {p + step * i + off : i \in 0..(R - 1), off \in offs}
    IN  /\ q \in Nat /\ q >= p /\ (q - p) % s = 0
        /\ taken = Blocks(s, p, q)
        /\ \A b \in Blocks(s, p, q) : b < last
        /\ room = 1 => q >= last

\* R is the number of rounds from p on.
RoundsFrom(s, offs, room, step, p, last, R) ==
    /\ <<s, offs, room, step>> \in Steps
    /\ R > 0 => p + step * (R - 1) + room <= last
    /\ p + step * R + room > last
    /\ room = 12 => last % 16 < 12 /\ p \in 0..3

\* How far the rounds of a loop get, and that there is no room for another.
LEMMA RoundsTake ==
    ASSUME NEW p \in Nat, NEW last \in Nat, NEW R \in Nat, NEW s, NEW offs, NEW room, NEW step,
           RoundsFrom(s, offs, room, step, p, last, R)
    PROVE  TakesIn(s, offs, room, step, p, last, R)
  <1>1. ASSUME s = 1 /\ offs = {0} /\ room = 1 /\ step = 1
        PROVE  TakesIn(s, offs, room, step, p, last, R)
    <2>1. ASSUME NEW i \in 0..(R - 1), NEW off \in offs
          PROVE  p + step * i + off \in Blocks(s, p, p + step * R)
      BY <1>1 DEF Blocks
    <2>2. ASSUME NEW b \in Blocks(s, p, p + step * R)
          PROVE  \E i \in 0..(R - 1), off \in offs : b = p + step * i + off
      <3>1. (b - p) \in 0..(R - 1) /\ 0 \in offs /\ b = p + step * (b - p) + 0
        BY <1>1 DEF Blocks
      <3> QED
        BY <3>1
    <2>3. ASSUME NEW b \in Blocks(s, p, p + step * R)
          PROVE  b < last
      BY <1>1 DEF Blocks, RoundsFrom
    <2>4. {p + step * i + off : i \in 0..(R - 1), off \in offs} = Blocks(s, p, p + step * R)
      BY <2>1, <2>2
    <2>5. p + step * R \in Nat /\ p + step * R >= p /\ ((p + step * R) - p) % s = 0
          /\ (room = 1 => p + step * R >= last)
      BY <1>1 DEF RoundsFrom
    <2> QED
      BY <2>3, <2>4, <2>5 DEF TakesIn
  <1>2. ASSUME s = 1 /\ offs = 0..3 /\ room = 4 /\ step = 4
        PROVE  TakesIn(1, 0..3, 4, 4, p, last, R)
    <2>1. ASSUME NEW i \in 0..(R - 1), NEW off \in 0..3
          PROVE  p + 4 * i + off \in Blocks(1, p, p + 4 * R)
      BY DEF Blocks
    <2>2. ASSUME NEW b \in Blocks(1, p, p + 4 * R)
          PROVE  \E i \in 0..(R - 1), off \in 0..3 : b = p + 4 * i + off
      <3>1. (b - p) \div 4 \in 0..(R - 1) /\ (b - p) % 4 \in 0..3
            /\ b = p + 4 * ((b - p) \div 4) + ((b - p) % 4)
        BY DEF Blocks
      <3> QED
        BY <3>1
    <2>3. ASSUME NEW b \in Blocks(1, p, p + 4 * R)
          PROVE  b < last
      BY <1>2 DEF Blocks, RoundsFrom
    <2>4. {p + 4 * i + off : i \in 0..(R - 1), off \in 0..3} = Blocks(1, p, p + 4 * R)
      BY <2>1, <2>2
    <2>5. p + 4 * R \in Nat /\ p + 4 * R >= p /\ ((p + 4 * R) - p) % 1 = 0
          /\ (4 = 1 => p + 4 * R >= last)
      BY <1>2 DEF RoundsFrom
    <2> QED
      BY <2>3, <2>4, <2>5 DEF TakesIn
  <1>3. ASSUME s = 1 /\ offs = 0..7 /\ room = 8 /\ step = 8
        PROVE  TakesIn(1, 0..7, 8, 8, p, last, R)
    <2>1. ASSUME NEW i \in 0..(R - 1), NEW off \in 0..7
          PROVE  p + 8 * i + off \in Blocks(1, p, p + 8 * R)
      BY DEF Blocks
    <2>2. ASSUME NEW b \in Blocks(1, p, p + 8 * R)
          PROVE  \E i \in 0..(R - 1), off \in 0..7 : b = p + 8 * i + off
      <3>1. (b - p) \div 8 \in 0..(R - 1) /\ (b - p) % 8 \in 0..7
            /\ b = p + 8 * ((b - p) \div 8) + ((b - p) % 8)
        BY DEF Blocks
      <3> QED
        BY <3>1
    <2>3. ASSUME NEW b \in Blocks(1, p, p + 8 * R)
          PROVE  b < last
      BY <1>3 DEF Blocks, RoundsFrom
    <2>4. {p + 8 * i + off : i \in 0..(R - 1), off \in 0..7} = Blocks(1, p, p + 8 * R)
      BY <2>1, <2>2
    <2>5. p + 8 * R \in Nat /\ p + 8 * R >= p /\ ((p + 8 * R) - p) % 1 = 0
          /\ (8 = 1 => p + 8 * R >= last)
      BY <1>3 DEF RoundsFrom
    <2> QED
      BY <2>3, <2>4, <2>5 DEF TakesIn
  <1>4. ASSUME s = 2 /\ offs = {0} /\ room = 1 /\ step = 2
        PROVE  TakesIn(2, {0}, 1, 2, p, last, R)
    <2>1. ASSUME NEW i \in 0..(R - 1), NEW off \in {0}
          PROVE  p + 2 * i + off \in Blocks(2, p, p + 2 * R)
      BY DEF Blocks
    <2>2. ASSUME NEW b \in Blocks(2, p, p + 2 * R)
          PROVE  \E i \in 0..(R - 1), off \in {0} : b = p + 2 * i + off
      <3>1. (b - p) \div 2 \in 0..(R - 1) /\ (b - p) % 2 \in {0}
            /\ b = p + 2 * ((b - p) \div 2) + ((b - p) % 2)
        BY DEF Blocks
      <3> QED
        BY <3>1
    <2>3. ASSUME NEW b \in Blocks(2, p, p + 2 * R)
          PROVE  b < last
      BY <1>4 DEF Blocks, RoundsFrom
    <2>4. {p + 2 * i + off : i \in 0..(R - 1), off \in {0}} = Blocks(2, p, p + 2 * R)
      BY <2>1, <2>2
    <2>5. p + 2 * R \in Nat /\ p + 2 * R >= p /\ ((p + 2 * R) - p) % 2 = 0
          /\ (1 = 1 => p + 2 * R >= last)
      BY <1>4 DEF RoundsFrom
    <2> QED
      BY <2>3, <2>4, <2>5 DEF TakesIn
  <1>5. ASSUME s = 4 /\ offs = {0} /\ room = 1 /\ step = 4
        PROVE  TakesIn(4, {0}, 1, 4, p, last, R)
    <2>1. ASSUME NEW i \in 0..(R - 1), NEW off \in {0}
          PROVE  p + 4 * i + off \in Blocks(4, p, p + 4 * R)
      BY DEF Blocks
    <2>2. ASSUME NEW b \in Blocks(4, p, p + 4 * R)
          PROVE  \E i \in 0..(R - 1), off \in {0} : b = p + 4 * i + off
      <3>1. (b - p) \div 4 \in 0..(R - 1) /\ (b - p) % 4 \in {0}
            /\ b = p + 4 * ((b - p) \div 4) + ((b - p) % 4)
        BY DEF Blocks
      <3> QED
        BY <3>1
    <2>3. ASSUME NEW b \in Blocks(4, p, p + 4 * R)
          PROVE  b < last
      BY <1>5 DEF Blocks, RoundsFrom
    <2>4. {p + 4 * i + off : i \in 0..(R - 1), off \in {0}} = Blocks(4, p, p + 4 * R)
      BY <2>1, <2>2
    <2>5. p + 4 * R \in Nat /\ p + 4 * R >= p /\ ((p + 4 * R) - p) % 4 = 0
          /\ (1 = 1 => p + 4 * R >= last)
      BY <1>5 DEF RoundsFrom
    <2> QED
      BY <2>3, <2>4, <2>5 DEF TakesIn
  <1>6. ASSUME s = 8 /\ offs = {0} /\ room = 1 /\ step = 8
        PROVE  TakesIn(8, {0}, 1, 8, p, last, R)
    <2>1. ASSUME NEW i \in 0..(R - 1), NEW off \in {0}
          PROVE  p + 8 * i + off \in Blocks(8, p, p + 8 * R)
      BY DEF Blocks
    <2>2. ASSUME NEW b \in Blocks(8, p, p + 8 * R)
          PROVE  \E i \in 0..(R - 1), off \in {0} : b = p + 8 * i + off
      <3>1. (b - p) \div 8 \in 0..(R - 1) /\ (b - p) % 8 \in {0}
            /\ b = p + 8 * ((b - p) \div 8) + ((b - p) % 8)
        BY DEF Blocks
      <3> QED
        BY <3>1
    <2>3. ASSUME NEW b \in Blocks(8, p, p + 8 * R)
          PROVE  b < last
      BY <1>6 DEF Blocks, RoundsFrom
    <2>4. {p + 8 * i + off : i \in 0..(R - 1), off \in {0}} = Blocks(8, p, p + 8 * R)
      BY <2>1, <2>2
    <2>5. p + 8 * R \in Nat /\ p + 8 * R >= p /\ ((p + 8 * R) - p) % 8 = 0
          /\ (1 = 1 => p + 8 * R >= last)
      BY <1>6 DEF RoundsFrom
    <2> QED
      BY <2>3, <2>4, <2>5 DEF TakesIn
  <1>7. ASSUME s = 4 /\ offs = {0, 4, 8, 12} /\ room = 12 /\ step = 16
        PROVE  TakesIn(4, {0, 4, 8, 12}, 12, 16, p, last, R)
    <2>1. ASSUME NEW i \in 0..(R - 1), NEW off \in {0, 4, 8, 12}
          PROVE  p + 16 * i + off \in Blocks(4, p, p + 16 * R)
      BY DEF Blocks
    <2>2. ASSUME NEW b \in Blocks(4, p, p + 16 * R)
          PROVE  \E i \in 0..(R - 1), off \in {0, 4, 8, 12} : b = p + 16 * i + off
      <3>1. (b - p) \div 16 \in 0..(R - 1) /\ (b - p) % 16 \in {0, 4, 8, 12}
            /\ b = p + 16 * ((b - p) \div 16) + ((b - p) % 16)
        BY DEF Blocks
      <3> QED
        BY <3>1
    <2>3. ASSUME NEW b \in Blocks(4, p, p + 16 * R)
          PROVE  b < last
      BY <1>7 DEF Blocks, RoundsFrom
    <2>4. {p + 16 * i + off : i \in 0..(R - 1), off \in {0, 4, 8, 12}} = Blocks(4, p, p + 16 * R)
      BY <2>1, <2>2
    <2>5. p + 16 * R \in Nat /\ p + 16 * R >= p /\ ((p + 16 * R) - p) % 4 = 0
          /\ (12 = 1 => p + 16 * R >= last)
      BY <1>7 DEF RoundsFrom
    <2> QED
      BY <2>3, <2>4, <2>5 DEF TakesIn
  <1> QED
    <2>1. <<s, offs, room, step>> \in Steps
      BY DEF RoundsFrom
    <2> QED
      BY <1>1, <1>2, <1>3, <1>4, <1>5, <1>6, <1>7, <2>1 DEF Steps

\* A loop takes the blocks of its stride from where it starts to where it ends.
LEMMA LoopTakes ==
    ASSUME NEW s, NEW loop, <<s, loop.offs, loop.room, loop.step>> \in Steps,
           NEW p \in Nat, NEW last \in Nat, loop.room = 12 => last % 16 < 12 /\ p \in 0..3
    PROVE  Takes(s, loop, p, last)
  <1> DEFINE R == Rounds(loop, p, last)
  <1>1. loop.room \in {1, 4, 8, 12} /\ loop.step \in {1, 2, 4, 8, 16}
    BY DEF Steps
  <1>2. R \in Nat /\ RoundsFrom(s, loop.offs, loop.room, loop.step, p, last, R)
    <2>1. /\ R \in Nat
          /\ R > 0 => p + loop.step * (R - 1) + loop.room <= last
          /\ p + loop.step * R + loop.room > last
      <3>1. R = Rounds(loop, p, last)
        OBVIOUS
      <3> HIDE DEF R
      <3> QED
        BY <1>1, <3>1 DEF Rounds
    <2> HIDE DEF R
    <2> QED
      BY Zenon, <2>1 DEF RoundsFrom
  <1> HIDE DEF R
  <1>3. TakesIn(s, loop.offs, loop.room, loop.step, p, last, R)
    BY <1>2, RoundsTake
  <1>4. Taken(loop, p, last) = {p + loop.step * i + off : i \in 0..(R - 1), off \in loop.offs}
    BY DEF Taken, R
  <1> QED
    BY <1>3, <1>4 DEF Takes, TakesIn, R

-----------------------------------------------------------------------------
(* Pieces.                                                                 *)
LEMMA MapsType == \A M \in Maps, l \in Lanes : M[l] \subseteq Lanes
  BY DEF Maps, Own, Near, Everyone, Leading, Lanes

\* A lane is at one place of one group.
LEMMA LaneGroup ==
    ASSUME NEW k, Shape(k)
    PROVE  /\ \A m \in Lanes : m < k.lanes =>
                 m \div k.group \in Groups(k) /\ m % k.group \in 0..(k.group - 1)
           /\ \A g \in Groups(k), c \in 0..(k.group - 1) :
                 /\ k.group * g + c \in Lanes /\ k.group * g + c < k.lanes
                 /\ (k.group * g + c) \div k.group = g /\ (k.group * g + c) % k.group = c
  <1> DEFINE G == k.group
             N == k.lanes
  <1>1. G \in {1, 4, 8, 16, 32} /\ N \in {1, 4, 8, 32} /\ G <= N
    BY DEF Shape
  <1> HIDE DEF G, N
  <1>2. /\ \A m \in Lanes : m < N => m \div G \in 0..(N \div G - 1) /\ m % G \in 0..(G - 1)
        /\ \A g \in 0..(N \div G - 1), c \in 0..(G - 1) :
              G * g + c \in Lanes /\ G * g + c < N /\ (G * g + c) \div G = g /\ (G * g + c) % G = c
    <2>1. CASE G = 1
      BY <1>1, <2>1 DEF Lanes
    <2>2. CASE G = 4
      BY <1>1, <2>2 DEF Lanes
    <2>3. CASE G = 8
      BY <1>1, <2>3 DEF Lanes
    <2>4. CASE G = 16
      BY <1>1, <2>4 DEF Lanes
    <2>5. CASE G = 32
      BY <1>1, <2>5 DEF Lanes
    <2> QED
      BY <1>1, <2>1, <2>2, <2>3, <2>4, <2>5
  <1> QED
    BY <1>2 DEF Groups, G, N

\* The groups of a striped row start at different blocks below the stride.
LEMMA StripeStart ==
    ASSUME NEW k, Shape(k), k.split = "stripe", NEW n
    PROVE  /\ \A w \in 0..(k.warps - 1), g \in Groups(k) : FirstBlock(k, n, w, g) \in 0..(Stride(k) - 1)
           /\ \A w, v \in 0..(k.warps - 1), g, h \in Groups(k) :
                 FirstBlock(k, n, w, g) = FirstBlock(k, n, v, h) => w = v /\ g = h
           /\ \A a \in 0..(Stride(k) - 1) :
                 \E w \in 0..(k.warps - 1), g \in Groups(k) : FirstBlock(k, n, w, g) = a
  <1> DEFINE G == k.lanes \div k.group
             W == k.warps
  <1>1. W \in {1, 2, 4, 8} /\ G \in {1, 2, 4, 8, 32} /\ W * G \in {2, 4, 8} /\ Stride(k) = W * G
    BY DEF Shape, Stride
  <1>2. \A w, g : FirstBlock(k, n, w, g) = w * G + g
    BY DEF FirstBlock
  <1>3. Groups(k) = 0..(G - 1)
    BY DEF Groups
  <1> HIDE DEF G, W
  <1>4. /\ \A w \in 0..(W - 1), g \in 0..(G - 1) : w * G + g \in 0..(W * G - 1)
        /\ \A w, v \in 0..(W - 1), g, h \in 0..(G - 1) : w * G + g = v * G + h => w = v /\ g = h
    BY <1>1
  <1>5. ASSUME NEW a \in 0..(W * G - 1)
        PROVE  \E w \in 0..(W - 1), g \in 0..(G - 1) : w * G + g = a
    <2>1. a \div G \in 0..(W - 1) /\ a % G \in 0..(G - 1) /\ (a \div G) * G + (a % G) = a
      BY <1>1
    <2> QED
      BY <2>1
  <1> DEFINE Start(w, g) == FirstBlock(k, n, w, g)
  <1> HIDE DEF Start
  <1>6. \A w, g : Start(w, g) = w * G + g
    BY <1>2 DEF Start
  <1> DEFINE D == 0..(W * G - 1)
             V == 0..(W - 1)
             H == 0..(G - 1)
  <1>7. /\ \A w \in V, g \in H : Start(w, g) \in D
        /\ \A w, v \in V, g, h \in H : Start(w, g) = Start(v, h) => w = v /\ g = h
        /\ \A a \in D : \E w \in V, g \in H : Start(w, g) = a
    BY <1>4, <1>5, <1>6
  <1>8. D = 0..(Stride(k) - 1) /\ V = 0..(k.warps - 1) /\ H = Groups(k)
    BY <1>1, <1>3 DEF W
  <1> HIDE DEF D, V, H
  <1> QED
    BY <1>7, <1>8 DEF Start

\* Groups that take turns take different blocks.
LEMMA StripesApart ==
    ASSUME NEW s \in {2, 4, 8}, NEW a \in 0..(s - 1), NEW b \in 0..(s - 1), a # b, NEW p, NEW q
    PROVE  Blocks(s, a, p) \cap Blocks(s, b, q) = {}
  <1> SUFFICES ASSUME NEW x \in Int, x >= a, x >= b, (x - a) % s = 0, (x - b) % s = 0
               PROVE  FALSE
    BY DEF Blocks
  <1>1. CASE s = 2
    BY <1>1
  <1>2. CASE s = 4
    BY <1>2
  <1>3. CASE s = 8
    BY <1>3
  <1> QED
    BY <1>1, <1>2, <1>3

\* Two lanes of a row have computed different terms.
LEMMA PiecesApart ==
    ASSUME NEW k, Shape(k), NEW n, NEW w \in 0..(k.warps - 1), NEW p
    PROVE  Apart(PieceOf(k, n, w, p), Span(k))
  <1> SUFFICES ASSUME NEW m \in Lanes, NEW q \in Lanes, m \div Span(k) = q \div Span(k), m # q,
                      m < k.lanes, q < k.lanes
               PROVE  PieceOf(k, n, w, p)[m] \cap PieceOf(k, n, w, p)[q] = {}
    BY DEF Apart, PieceOf
  <1>1. CASE m % k.group # q % k.group
    BY <1>1 DEF PieceOf
  <1>2. CASE m % k.group = q % k.group
    <2>1. m \div k.group # q \div k.group
      BY <1>2 DEF Shape, Lanes
    <2>2. k.split = "stripe"
      BY <2>1 DEF Span
    <2>3. m \div k.group \in Groups(k) /\ q \div k.group \in Groups(k)
      BY LaneGroup
    <2> DEFINE a == FirstBlock(k, n, w, m \div k.group)
               b == FirstBlock(k, n, w, q \div k.group)
    <2>4. a \in 0..(Stride(k) - 1) /\ b \in 0..(Stride(k) - 1) /\ a # b
      BY <2>1, <2>2, <2>3, StripeStart
    <2>5. Stride(k) \in {2, 4, 8}
      BY <2>2 DEF Shape
    <2> HIDE DEF a, b
    <2>6. Blocks(Stride(k), a, p[m \div k.group]) \cap Blocks(Stride(k), b, p[q \div k.group]) = {}
      BY <2>4, <2>5, StripesApart
    <2> QED
      BY <2>6 DEF PieceOf, a, b
  <1> QED
    BY <1>1, <1>2

\* The chunks of a split row lie end to end.
LEMMA ChunkBounds ==
    ASSUME NEW k, Shape(k), k.split = "chunk", NEW n \in Nat
    PROVE  /\ FirstBlock(k, n, 0, 0) = 0 /\ LastBlock(k, n, k.warps - 1) = n
           /\ \A w \in 0..(k.warps - 1), g \in Groups(k) :
                 /\ FirstBlock(k, n, w, g) \in Nat /\ LastBlock(k, n, w) \in Nat
                 /\ FirstBlock(k, n, w, g) <= LastBlock(k, n, w) /\ LastBlock(k, n, w) <= n
                 /\ w + 1 < k.warps => LastBlock(k, n, w) = FirstBlock(k, n, w + 1, g)
           /\ \A w, v \in 0..(k.warps - 1), g \in Groups(k) :
                 w < v => LastBlock(k, n, w) <= FirstBlock(k, n, v, g)
  <1> USE DEF FirstBlock, LastBlock
  <1>1. CASE k.warps = 2
    BY <1>1 DEF Shape
  <1>2. CASE k.warps = 4
    BY <1>2 DEF Shape
  <1> QED
    BY <1>1, <1>2 DEF Shape

\* A group starts and ends within the row.
LEMMA BlockBounds ==
    ASSUME NEW k, Shape(k), NEW n \in Nat, NEW w \in 0..(k.warps - 1), NEW g \in Groups(k)
    PROVE  /\ FirstBlock(k, n, w, g) \in Nat /\ LastBlock(k, n, w) \in Nat
           /\ LastBlock(k, n, w) <= n
  <1>1. CASE k.split \in {"row", "tile"}
    BY <1>1 DEF FirstBlock, LastBlock
  <1>2. CASE k.split = "stripe"
    <2>1. FirstBlock(k, n, w, g) \in 0..(Stride(k) - 1)
      BY <1>2, StripeStart
    <2>2. LastBlock(k, n, w) = n
      BY <1>2 DEF LastBlock
    <2> QED
      BY <2>1, <2>2
  <1>3. CASE k.split = "chunk"
    BY <1>3, ChunkBounds
  <1> QED
    BY <1>1, <1>2, <1>3 DEF Shape

\* Where a warp has come to, group by group.
AllReached(k, n, w, p) == \A g \in Groups(k) : Reached(k, n, w, g, p[g])

\* A lane has computed terms of its own row only.
LEMMA PieceWithin ==
    ASSUME NEW k, Shape(k), NEW n \in Nat, NEW w \in 0..(k.warps - 1), NEW p, AllReached(k, n, w, p),
           \A g \in Groups(k) : p[g] \in Nat, NEW m \in Lanes
    PROVE  PieceOf(k, n, w, p)[m] \subseteq (0..(n - 1)) \X (0..(k.group - 1))
  <1>1. CASE m < k.lanes
    <2> DEFINE g == m \div k.group
               a == FirstBlock(k, n, w, g)
               c == m % k.group
    <2>1. g \in Groups(k) /\ c \in 0..(k.group - 1)
      BY <1>1, LaneGroup
    <2>2. a \in Nat /\ LastBlock(k, n, w) \in Nat /\ LastBlock(k, n, w) <= n
      BY <2>1, BlockBounds
    <2>3. \A b \in Blocks(Stride(k), a, p[g]) : b < LastBlock(k, n, w)
      BY <2>1 DEF AllReached, Reached
    <2>4. PieceOf(k, n, w, p)[m] = Blocks(Stride(k), a, p[g]) \X {c}
      BY <1>1 DEF PieceOf
    <2> HIDE DEF a, g, c
    <2>5. Blocks(Stride(k), a, p[g]) \subseteq 0..(n - 1)
      <3>1. p[g] \in Nat
        BY <2>1
      <3> QED
        BY <2>2, <2>3, <3>1 DEF Blocks
    <2> QED
      BY <2>1, <2>4, <2>5
  <1>2. CASE ~ (m < k.lanes)
    BY <1>2 DEF PieceOf
  <1> QED
    BY <1>1, <1>2

\* Two warps have computed different terms.
LEMMA WarpsApart ==
    ASSUME NEW k, Shape(k), NEW n \in Nat, NEW w \in 0..(k.warps - 1), NEW v \in 0..(k.warps - 1),
           w # v, NEW p, AllReached(k, n, w, p), \A g \in Groups(k) : p[g] \in Nat,
           NEW q, AllReached(k, n, v, q), \A g \in Groups(k) : q[g] \in Nat,
           NEW m \in Lanes, NEW r \in Lanes
    PROVE  PieceOf(k, n, w, p)[m] \cap PieceOf(k, n, v, q)[r] = {}
  <1> SUFFICES ASSUME m < k.lanes, r < k.lanes
               PROVE  PieceOf(k, n, w, p)[m] \cap PieceOf(k, n, v, q)[r] = {}
    BY DEF PieceOf
  <1> DEFINE g == m \div k.group
             h == r \div k.group
             A == Blocks(Stride(k), FirstBlock(k, n, w, g), p[g])
             B == Blocks(Stride(k), FirstBlock(k, n, v, h), q[h])
  <1>1. PieceOf(k, n, w, p)[m] = A \X {m % k.group} /\ PieceOf(k, n, v, q)[r] = B \X {r % k.group}
    BY DEF PieceOf
  <1>2. g \in Groups(k) /\ h \in Groups(k)
    BY LaneGroup
  <1> HIDE DEF g, h
  <1>3. A \cap B = {}
    <2>1. CASE k.split = "stripe"
      <3>1. FirstBlock(k, n, w, g) \in 0..(Stride(k) - 1) /\ FirstBlock(k, n, v, h) \in 0..(Stride(k) - 1)
            /\ FirstBlock(k, n, w, g) # FirstBlock(k, n, v, h)
        BY <1>2, <2>1, StripeStart
      <3>2. Stride(k) \in {2, 4, 8}
        BY <2>1 DEF Shape
      <3> QED
        BY <3>1, <3>2, StripesApart
    <2>2. CASE k.split = "chunk"
      <3>1. /\ FirstBlock(k, n, w, g) \in Nat /\ FirstBlock(k, n, v, h) \in Nat
            /\ LastBlock(k, n, w) \in Nat /\ LastBlock(k, n, v) \in Nat
            /\ LastBlock(k, n, w) <= FirstBlock(k, n, v, h) \/ LastBlock(k, n, v) <= FirstBlock(k, n, w, g)
        BY <1>2, <2>2, ChunkBounds
      <3>2. /\ \A b \in A : b \in Int /\ b >= FirstBlock(k, n, w, g) /\ b < LastBlock(k, n, w)
            /\ \A b \in B : b \in Int /\ b >= FirstBlock(k, n, v, h) /\ b < LastBlock(k, n, v)
        BY <1>2, <3>1 DEF AllReached, Reached, Blocks
      <3> HIDE DEF A, B
      <3> QED
        BY <3>1, <3>2
    <2> QED
      BY <2>1, <2>2 DEF Shape
  <1> QED
    BY <1>1, <1>3

AllDone(k, n, w, p) == \A g \in Groups(k) : p[g] >= LastBlock(k, n, w)

\* What is in the piece of a lane.
LEMMA PieceHas ==
    ASSUME NEW k, Shape(k), NEW n, NEW w, NEW p, NEW g \in Groups(k), NEW c \in 0..(k.group - 1),
           NEW b \in Blocks(Stride(k), FirstBlock(k, n, w, g), p[g])
    PROVE  /\ k.group * g + c \in Lanes /\ k.group * g + c < k.lanes
           /\ <<b, c>> \in PieceOf(k, n, w, p)[k.group * g + c]
  <1> DEFINE m == k.group * g + c
  <1>1. m \in Lanes /\ m < k.lanes /\ m \div k.group = g /\ m % k.group = c
    BY LaneGroup
  <1> HIDE DEF m
  <1>2. PieceOf(k, n, w, p)[m] = Blocks(Stride(k), FirstBlock(k, n, w, g), p[g]) \X {c}
    BY <1>1 DEF PieceOf
  <1> QED
    BY <1>1, <1>2 DEF m

\* A row that the lanes of a group have to themselves.
LEMMA RowWhole ==
    ASSUME NEW k, Shape(k), NEW n \in Nat, k.split \in {"row", "tile"}, NEW p, AllReached(k, n, 0, p),
           \A g \in Groups(k) : p[g] \in Nat, AllDone(k, n, 0, p), NEW l \in 0..(k.lanes - 1)
    PROVE  UNION {PieceOf(k, n, 0, p)[m] : m \in {m \in 0..(k.lanes - 1) : Slot(k, m) = Slot(k, l)}}
           = (0..(n - 1)) \X (0..(k.group - 1))
  <1> DEFINE g == l \div k.group
             X == {m \in 0..(k.lanes - 1) : Slot(k, m) = Slot(k, l)}
             C == (0..(n - 1)) \X (0..(k.group - 1))
  <1>1. k.warps = 1 /\ Stride(k) = 1 /\ 0 \in 0..(k.warps - 1) /\ 0..(k.lanes - 1) \subseteq Lanes
    BY DEF Shape, Stride, Lanes
  <1>2. \A m \in X : PieceOf(k, n, 0, p)[m] \subseteq C
    BY <1>1, PieceWithin
  <1>3. ASSUME NEW b \in 0..(n - 1), NEW c \in 0..(k.group - 1)
        PROVE  \E m \in X : <<b, c>> \in PieceOf(k, n, 0, p)[m]
    <2>1. g \in Groups(k)
      <3>1. l \in Lanes /\ l < k.lanes
        BY DEF Shape, Lanes
      <3> QED
        BY <3>1, LaneGroup
    <2>2. FirstBlock(k, n, 0, g) = 0 /\ LastBlock(k, n, 0) = n
      BY DEF FirstBlock, LastBlock
    <2>3. p[g] \in Nat /\ p[g] >= n
      BY <2>1, <2>2 DEF AllDone
    <2>4. b \in Blocks(Stride(k), FirstBlock(k, n, 0, g), p[g])
      BY <1>1, <2>2, <2>3 DEF Blocks
    <2> HIDE DEF g
    <2>5. /\ k.group * g + c \in Lanes /\ k.group * g + c < k.lanes
          /\ <<b, c>> \in PieceOf(k, n, 0, p)[k.group * g + c]
      BY <2>1, <2>4, PieceHas
    <2>6. Slot(k, k.group * g + c) = Slot(k, l)
      <3>1. (k.group * g + c) \div k.group = g
        BY <2>1, LaneGroup
      <3> QED
        BY <3>1 DEF Slot, g
    <2>7. k.group * g + c \in X
      <3> DEFINE m == k.group * g + c
      <3>1. m \in 0..(k.lanes - 1) /\ Slot(k, m) = Slot(k, l)
        <4>1. m \in Lanes /\ m < k.lanes /\ k.lanes \in Nat
          BY <2>5 DEF Shape
        <4> HIDE DEF m
        <4>2. m \in 0..(k.lanes - 1)
          BY <4>1 DEF Lanes
        <4> QED
          BY <2>6, <4>2 DEF m
      <3> HIDE DEF m
      <3>2. m \in X
        BY <3>1
      <3> QED
        BY <3>2 DEF m
    <2> QED
      BY <2>5, <2>7
  <1> HIDE DEF X
  <1>4. UNION {PieceOf(k, n, 0, p)[m] : m \in X} = C
    BY <1>2, <1>3
  <1> QED
    BY <1>4 DEF X

\* A row that several groups or warps share.
LEMMA SharedWhole ==
    ASSUME NEW k, Shape(k), NEW n \in Nat, k.split \in {"stripe", "chunk"}, NEW p,
           \A w \in 0..(k.warps - 1) : AllReached(k, n, w, p[w]) /\ AllDone(k, n, w, p[w]),
           \A w \in 0..(k.warps - 1), g \in Groups(k) : p[w][g] \in Nat
    PROVE  UNION {PieceOf(k, n, wl[1], p[wl[1]])[wl[2]] : wl \in (0..(k.warps - 1)) \X Lanes}
           = (0..(n - 1)) \X (0..(k.group - 1))
  <1> DEFINE C == (0..(n - 1)) \X (0..(k.group - 1))
             W == 0..(k.warps - 1)
  <1>1. \A w \in W, m \in Lanes : PieceOf(k, n, w, p[w])[m] \subseteq C
    BY PieceWithin
  <1>2. ASSUME NEW b \in 0..(n - 1)
        PROVE  \E w \in W, g \in Groups(k) : b \in Blocks(Stride(k), FirstBlock(k, n, w, g), p[w][g])
    <2>1. CASE k.split = "stripe"
      <3>1. PICK a \in 0..(Stride(k) - 1) : b >= a /\ (b - a) % Stride(k) = 0
        <4>1. b % Stride(k) \in 0..(Stride(k) - 1) /\ b >= b % Stride(k)
              /\ (b - (b % Stride(k))) % Stride(k) = 0
          BY <2>1 DEF Shape
        <4> QED
          BY <4>1
      <3>2. PICK w \in W, g \in Groups(k) : FirstBlock(k, n, w, g) = a
        BY <2>1, StripeStart
      <3>3. p[w][g] \in Nat /\ p[w][g] >= n
        BY <2>1, <3>2 DEF AllDone, LastBlock
      <3>4. b \in Blocks(Stride(k), a, p[w][g])
        BY <2>1, <3>1, <3>3 DEF Blocks, Shape
      <3> QED
        BY <3>2, <3>4
    <2>2. CASE k.split = "chunk"
      <3>1. PICK w \in W : \A g \in Groups(k) : FirstBlock(k, n, w, g) <= b /\ b < LastBlock(k, n, w)
        <4> USE DEF FirstBlock, LastBlock
        <4>1. CASE k.warps = 2
          BY <2>2, <4>1
        <4>2. CASE k.warps = 4
          BY <2>2, <4>2
        <4> QED
          BY <2>2, <4>1, <4>2 DEF Shape
      <3>2. 0 \in Groups(k) /\ Stride(k) = 1
        BY <2>2 DEF Groups, Shape, Stride
      <3>3. p[w][0] \in Nat /\ p[w][0] >= LastBlock(k, n, w) /\ FirstBlock(k, n, w, 0) \in Nat
            /\ LastBlock(k, n, w) \in Nat
        BY <3>2, BlockBounds DEF AllDone
      <3>4. b \in Blocks(Stride(k), FirstBlock(k, n, w, 0), p[w][0])
        BY <3>1, <3>2, <3>3 DEF Blocks
      <3> QED
        BY <3>2, <3>4
    <2> QED
      BY <2>1, <2>2
  <1>3. ASSUME NEW b \in 0..(n - 1), NEW c \in 0..(k.group - 1)
        PROVE  \E w \in W, m \in Lanes : <<b, c>> \in PieceOf(k, n, w, p[w])[m]
    <2>1. PICK w \in W, g \in Groups(k) : b \in Blocks(Stride(k), FirstBlock(k, n, w, g), p[w][g])
      BY <1>2
    <2>2. k.group * g + c \in Lanes /\ <<b, c>> \in PieceOf(k, n, w, p[w])[k.group * g + c]
      BY <2>1, PieceHas
    <2> QED
      BY <2>2
  <1> DEFINE Q(wl) == PieceOf(k, n, wl[1], p[wl[1]])[wl[2]]
  <1>4. \A wl \in W \X Lanes : Q(wl) \subseteq C
    BY <1>1
  <1>5. \A b \in 0..(n - 1), c \in 0..(k.group - 1) : \E wl \in W \X Lanes : <<b, c>> \in Q(wl)
    <2> SUFFICES ASSUME NEW b \in 0..(n - 1), NEW c \in 0..(k.group - 1)
                 PROVE  \E wl \in W \X Lanes : <<b, c>> \in Q(wl)
      OBVIOUS
    <2>1. PICK w \in W, m \in Lanes : <<b, c>> \in PieceOf(k, n, w, p[w])[m]
      BY <1>3
    <2>2. <<w, m>> \in W \X Lanes /\ <<b, c>> \in Q(<<w, m>>)
      BY <2>1
    <2> QED
      BY <2>2
  <1> HIDE DEF Q
  <1>6. UNION {Q(wl) : wl \in W \X Lanes} = C
    BY <1>4, <1>5
  <1> QED
    BY <1>6 DEF Q

\* The groups of warp w go from blocks p to blocks q in a loop.
Advances(k, n, w, loop, p, q) ==
    \A g \in Groups(k) :
       /\ p[g] \in Nat /\ Takes(Stride(k), loop, p[g], LastBlock(k, n, w))
       /\ q[g] = p[g] + loop.step * Rounds(loop, p[g], LastBlock(k, n, w))

\* One loop on, the blocks taken are those before it and those it takes.
LEMMA StepBlocks ==
    ASSUME NEW k, Shape(k), Stride(k) \in {1, 2, 4, 8}, NEW n \in Nat, NEW w \in 0..(k.warps - 1),
           NEW loop, NEW p, NEW q, AllReached(k, n, w, p), Advances(k, n, w, loop, p, q),
           NEW g \in Groups(k)
    PROVE  LET a == FirstBlock(k, n, w, g)
               s == Stride(k)
           IN  /\ a \in Nat /\ q[g] \in Nat /\ Reached(k, n, w, g, q[g])
               /\ loop.room = 1 => q[g] >= LastBlock(k, n, w)
               /\ Blocks(s, a, q[g]) = Blocks(s, a, p[g]) \cup Taken(loop, p[g], LastBlock(k, n, w))
               /\ Blocks(s, a, p[g]) \cap Taken(loop, p[g], LastBlock(k, n, w)) = {}
  <1> DEFINE a == FirstBlock(k, n, w, g)
             s == Stride(k)
             last == LastBlock(k, n, w)
  <1>1. a \in Nat /\ last \in Nat
    BY BlockBounds
  <1>2. /\ p[g] \in Nat /\ p[g] >= a /\ (p[g] - a) % s = 0
        /\ \A b \in Blocks(s, a, p[g]) : b < last
    BY DEF AllReached, Reached, Advances
  <1>3. /\ q[g] \in Nat /\ q[g] >= p[g] /\ (q[g] - p[g]) % s = 0
        /\ Taken(loop, p[g], last) = Blocks(s, p[g], q[g])
        /\ \A b \in Blocks(s, p[g], q[g]) : b < last
        /\ loop.room = 1 => q[g] >= last
    BY DEF Advances, Takes
  <1>4. s \in {1, 2, 4, 8}
    OBVIOUS
  <1> HIDE DEF a, s, last
  <1>5. /\ Blocks(s, a, q[g]) = Blocks(s, a, p[g]) \cup Blocks(s, p[g], q[g])
        /\ Blocks(s, a, p[g]) \cap Blocks(s, p[g], q[g]) = {}
    BY <1>1, <1>2, <1>3, <1>4, JoinBlocks
  <1>6. q[g] >= a /\ (q[g] - a) % s = 0
    <2> DEFINE x == p[g]
               y == q[g]
    <2>1. x \in Nat /\ y \in Nat /\ x >= a /\ y >= x /\ (x - a) % s = 0 /\ (y - x) % s = 0
      BY <1>2, <1>3
    <2> HIDE DEF x, y
    <2>2. y >= a /\ (y - a) % s = 0
      <3>1. CASE s = 1
        BY <1>1, <2>1, <3>1
      <3>2. CASE s = 2
        BY <1>1, <2>1, <3>2
      <3>3. CASE s = 4
        BY <1>1, <2>1, <3>3
      <3>4. CASE s = 8
        BY <1>1, <2>1, <3>4
      <3> QED
        BY <1>4, <3>1, <3>2, <3>3, <3>4
    <2> QED
      BY <2>2 DEF y
  <1>7. Reached(k, n, w, g, q[g])
    BY <1>2, <1>3, <1>5, <1>6 DEF Reached, a, s, last
  <1> QED
    BY <1>1, <1>3, <1>5, <1>7 DEF a, s, last

\* The lanes of S[l] are of the group of l.
SameGroup(k, S) ==
    \A l \in Lanes : \A m \in S[l] :
       m \in Lanes /\ (m < k.lanes => l < k.lanes /\ m \div k.group = l \div k.group)

\* A lane adds what the lanes of added have computed of the blocks.
GroupAdds(k, sum, l, blocks, added) ==
    IF l >= k.lanes THEN EmptyBag
    ELSE sum (+) [t \in blocks \X DOMAIN added |-> added[t[2]]]

\* What lane l adds of the blocks that warp w takes from p to q.
LaneStep(k, n, w, loop, p, q, S, l, added, blocks) ==
    /\ Shape(k) /\ Stride(k) \in {1, 2, 4, 8} /\ n \in Nat /\ w \in 0..(k.warps - 1)
    /\ AllReached(k, n, w, p) /\ Advances(k, n, w, loop, p, q)
    /\ SameGroup(k, S) /\ l \in Lanes /\ added = Held(Places(k), S)[l]
    /\ l < k.lanes => blocks = Taken(loop, p[l \div k.group], LastBlock(k, n, w))

\* A lane's sum grows with the pieces of the lanes it adds.
LEMMA PieceStep ==
    ASSUME NEW k, NEW n, NEW w, NEW loop, NEW p, NEW q, NEW S, NEW l, NEW added, NEW blocks,
           LaneStep(k, n, w, loop, p, q, S, l, added, blocks)
    PROVE  Held(PieceOf(k, n, w, q), S)[l]
           = GroupAdds(k, Held(PieceOf(k, n, w, p), S)[l], l, blocks, added)
  <1>0. /\ Shape(k) /\ Stride(k) \in {1, 2, 4, 8} /\ n \in Nat /\ w \in 0..(k.warps - 1)
        /\ AllReached(k, n, w, p) /\ Advances(k, n, w, loop, p, q)
        /\ SameGroup(k, S) /\ l \in Lanes /\ added = Held(Places(k), S)[l]
        /\ l < k.lanes => blocks = Taken(loop, p[l \div k.group], LastBlock(k, n, w))
    BY DEF LaneStep
  <1> USE <1>0
  <1> DEFINE P == PieceOf(k, n, w, p)
             Q == PieceOf(k, n, w, q)
             A == UNION {P[m] : m \in S[l]}
             C == UNION {Places(k)[m] : m \in S[l]}
  <1>1. Held(P, S)[l] = SetToBag(A) /\ Held(Q, S)[l] = SetToBag(UNION {Q[m] : m \in S[l]})
        /\ added = SetToBag(C)
    BY DEF Held
  <1>2. k.lanes \in Nat
    BY DEF Shape
  <1>3. CASE l >= k.lanes
    <2>1. \A m \in S[l] : Q[m] = {}
      BY <1>2, <1>3 DEF SameGroup, PieceOf, Lanes
    <2>2. UNION {Q[m] : m \in S[l]} = {}
      BY <2>1
    <2> QED
      BY <1>1, <1>3, <2>2 DEF EmptyBag, GroupAdds
  <1>4. CASE l < k.lanes
    <2> DEFINE g == l \div k.group
               s == Stride(k)
               a == FirstBlock(k, n, w, g)
               D == blocks \X C
    <2>1. g \in Groups(k)
      BY <1>4, LaneGroup
    <2> HIDE DEF g
    <2>2. Blocks(s, a, q[g]) = Blocks(s, a, p[g]) \cup blocks /\ Blocks(s, a, p[g]) \cap blocks = {}
      <3>1. blocks = Taken(loop, p[g], LastBlock(k, n, w))
        BY <1>4 DEF g
      <3> QED
        BY <2>1, <3>1, StepBlocks
    <2>3. \A m \in S[l] :
             \/ P[m] = {} /\ Q[m] = {} /\ Places(k)[m] = {}
             \/ /\ Places(k)[m] = {m % k.group}
                /\ P[m] = Blocks(s, a, p[g]) \X {m % k.group}
                /\ Q[m] = Blocks(s, a, q[g]) \X {m % k.group}
      BY DEF SameGroup, PieceOf, Places, g
    <2> HIDE DEF P, Q, s, a
    <2>4. A \cap D = {}
      BY <2>2, <2>3
    <2>5. UNION {Q[m] : m \in S[l]} = A \cup D
      <3>1. ASSUME NEW m \in S[l]
            PROVE  Q[m] = P[m] \cup (blocks \X Places(k)[m])
        BY <2>2, <2>3
      <3>2. D = UNION {blocks \X Places(k)[m] : m \in S[l]}
        OBVIOUS
      <3> QED
        BY <3>1, <3>2
    <2> HIDE DEF A, C
    <2>6. [t \in blocks \X DOMAIN added |-> added[t[2]]] = SetToBag(D)
      BY <1>1 DEF SetToBag
    <2> HIDE DEF D
    <2>7. SetToBag(A) (+) SetToBag(D) = SetToBag(A \cup D)
      BY <2>4, JoinSets
    <2>8. ~ (l >= k.lanes)
      BY <1>2, <1>4 DEF Lanes
    <2> QED
      BY Zenon, <1>1, <2>5, <2>6, <2>7, <2>8 DEF P, Q, GroupAdds
  <1> QED
    BY <1>2, <1>3, <1>4 DEF Lanes

-----------------------------------------------------------------------------
(* The loops.                                                              *)
LEMMA LaunchSizes == ASSUME Types PROVE launch.n \in Nat /\ launch.rows \in Nat
  BY SizesAssumption DEF Types, Launches

\* The stride is one of those of Steps.
LEMMA StrideOf ==
    ASSUME NEW k, NEW loops, NEW S, Looping(k, loops, S)
    PROVE  Stride(k) \in {1, 2, 4, 8}
  <1>1. <<Stride(k), k.prog[1].offs, k.prog[1].room, k.prog[1].step>> \in Steps
    BY DEF Looping
  <1> QED
    BY <1>1 DEF Steps

\* A loop leaves every group where LoopState says it may be.
LEMMA LoopAdvances ==
    ASSUME Types, NEW loops, NEW S, Shape(kernel), Looping(kernel, loops, S), LoopState(loops, S),
           NEW w \in Warps, RunLoop(w)
    PROVE  /\ pc[w] \in 1..loops
           /\ AllReached(kernel, launch.n, w, pos[w])
           /\ Advances(kernel, launch.n, w, Instruction(w), pos[w], pos'[w])
  <1>1. pc[w] \in 1..loops
    <2>1. pc[w] \in 1..(Len(kernel.prog) + 1) /\ pc[w] <= Len(kernel.prog)
          /\ kernel.prog[pc[w]].op = "loop"
      BY DEF Types, RunLoop, At
    <2>2. loops \in 1..3 /\ loops < Len(kernel.prog)
          /\ \A i \in (loops + 1)..Len(kernel.prog) : kernel.prog[i].op # "loop"
      BY DEF Looping
    <2>3. pc[w] \notin (loops + 1)..Len(kernel.prog)
      BY <2>1, <2>2
    <2>4. PICK n : n = Len(kernel.prog)
      OBVIOUS
    <2> QED
      BY <2>1, <2>2, <2>3, <2>4
  <1>2. AllReached(kernel, launch.n, w, pos[w])
    BY DEF LoopState, AllReached
  <1> DEFINE loop == Instruction(w)
             last == LastBlock(kernel, launch.n, w)
             s == Stride(kernel)
  <1>3. <<s, loop.offs, loop.room, loop.step>> \in Steps
        /\ (loop.room = 12 => pc[w] = 1 /\ kernel.prog[1] = FourStripes)
    BY <1>1 DEF Looping, Instruction
  <1>4. ASSUME NEW g \in Groups(kernel)
        PROVE  /\ pos[w][g] \in Nat /\ Takes(s, loop, pos[w][g], last)
               /\ pos'[w][g] = pos[w][g] + loop.step * Rounds(loop, pos[w][g], last)
    <2>1. pos[w][g] \in Nat /\ last \in Nat
      BY LaunchSizes, BlockBounds DEF Types, Warps
    <2>2. loop.room = 12 => last % 16 < 12 /\ pos[w][g] \in 0..3
      <3> SUFFICES ASSUME loop.room = 12
                   PROVE  last % 16 < 12 /\ pos[w][g] \in 0..3
        OBVIOUS
      <3>1. pos[w][g] = FirstBlock(kernel, launch.n, w, g) /\ launch.n % 16 < 12
        BY <1>3 DEF LoopState, Types
      <3>2. s = 4
        BY <1>3 DEF Steps
      <3>3. kernel.split = "stripe"
        BY <3>2 DEF Stride
      <3>4. last = launch.n
        BY <3>3 DEF LastBlock
      <3>5. FirstBlock(kernel, launch.n, w, g) \in 0..3
        BY <3>2, <3>3, StripeStart DEF Warps
      <3> QED
        BY <3>1, <3>4, <3>5
    <2>3. Takes(s, loop, pos[w][g], last)
      <3> HIDE DEF s, loop, last
      <3> QED
        BY <1>3, <2>1, <2>2, LoopTakes
    <2>4. pos'[w][g] = pos[w][g] + loop.step * Rounds(loop, pos[w][g], last)
      BY DEF RunLoop, Types
    <2> QED
      BY <2>1, <2>3, <2>4
  <1>5. Advances(kernel, launch.n, w, Instruction(w), pos[w], pos'[w])
    BY <1>4 DEF Advances
  <1> QED
    BY <1>1, <1>2, <1>5

\* After a loop a lane holds the pieces as they are by then.
LEMMA LoopSums ==
    ASSUME Types, NEW loops, NEW S \in Maps, Shape(kernel), Looping(kernel, loops, S),
           LoopState(loops, S), NEW w \in Warps, RunLoop(w)
    PROVE  regs'[w] = Held(PieceOf(kernel, launch.n, w, pos'[w]), S)
  <1> DEFINE loop == Instruction(w)
             n == launch.n
             last == LastBlock(kernel, n, w)
             added == TermsAdded(kernel, loop)
             blocks == [g \in Groups(kernel) |-> Taken(loop, pos[w][g], last)]
             p == pos[w]
             q == pos'[w]
  <1>1. pc[w] \in 1..loops /\ AllReached(kernel, n, w, p) /\ Advances(kernel, n, w, loop, p, q)
    BY LoopAdvances
  <1>2. added = Held(Places(kernel), S)
    BY <1>1 DEF Looping, Instruction
  <1>3. SameGroup(kernel, S)
    BY MapsType DEF Looping, SameGroup
  <1>4. regs[w] = Held(PieceOf(kernel, n, w, p), S)
    <2>1. pc[w] <= loops + 1
      BY <1>1 DEF Looping
    <2> QED
      BY <2>1 DEF LoopState, Piece
  <1>5. regs'[w] = [l \in Lanes |->
                      IF l >= kernel.lanes THEN EmptyBag
                      ELSE regs[w][l] (+) [t \in blocks[l \div kernel.group] \X DOMAIN added[l] |->
                                             added[l][t[2]]]]
    BY DEF RunLoop, Types
  <1>6. n \in Nat /\ w \in 0..(kernel.warps - 1) /\ Stride(kernel) \in {1, 2, 4, 8}
    BY LaunchSizes, StrideOf DEF Warps
  <1>7. ASSUME NEW l \in Lanes
        PROVE  regs'[w][l] = Held(PieceOf(kernel, n, w, q), S)[l]
    <2> DEFINE bl == blocks[l \div kernel.group]
               ad == added[l]
    <2>1. l < kernel.lanes => bl = Taken(loop, p[l \div kernel.group], last)
      BY LaneGroup
    <2>2. ad = Held(Places(kernel), S)[l]
      BY <1>2
    <2>3. regs'[w][l] = GroupAdds(kernel, Held(PieceOf(kernel, n, w, p), S)[l], l, bl, ad)
      BY <1>4, <1>5 DEF GroupAdds
    <2> HIDE DEF bl, ad, loop, n, p, q
    <2> QED
      <3>1. l < kernel.lanes => bl = Taken(loop, p[l \div kernel.group], LastBlock(kernel, n, w))
        BY <2>1 DEF last
      <3>2. LaneStep(kernel, n, w, loop, p, q, S, l, ad, bl)
        BY <1>1, <1>3, <1>6, <2>2, <3>1 DEF LaneStep
      <3>3. Held(PieceOf(kernel, n, w, q), S)[l]
            = GroupAdds(kernel, Held(PieceOf(kernel, n, w, p), S)[l], l, bl, ad)
        BY <3>2, PieceStep
      <3> QED
        BY <2>3, <3>3
  <1>8. DOMAIN regs'[w] = Lanes /\ regs'[w] = [l \in Lanes |-> regs'[w][l]]
    BY <1>5
  <1> HIDE DEF n, p, q
  <1>9. Held(PieceOf(kernel, n, w, q), S) = [l \in Lanes |-> Held(PieceOf(kernel, n, w, q), S)[l]]
    BY DEF Held
  <1>10. regs'[w] = Held(PieceOf(kernel, n, w, q), S)
    BY <1>7, <1>8, <1>9
  <1> QED
    BY <1>10 DEF n, q

\* A loop keeps LoopState.
LEMMA LoopKept ==
    ASSUME Types, NEW loops, NEW S \in Maps, Shape(kernel), Looping(kernel, loops, S),
           LoopState(loops, S), NEW w \in Warps, RunLoop(w)
    PROVE  LoopState(loops, S)'
  <1> DEFINE n == launch.n
  <1>1. /\ pc[w] \in 1..loops /\ AllReached(kernel, n, w, pos[w])
        /\ Advances(kernel, n, w, Instruction(w), pos[w], pos'[w])
    BY LoopAdvances
  <1>2. regs'[w] = Held(PieceOf(kernel, n, w, pos'[w]), S)
    BY LoopSums
  <1>3. /\ launch' = launch /\ kernel' = kernel /\ pc'[w] = pc[w] + 1
        /\ \A v \in Warps \ {w} : pc'[v] = pc[v] /\ pos'[v] = pos[v] /\ regs'[v] = regs[v]
    BY DEF RunLoop, Advance, Types
  <1>4. n \in Nat /\ w \in 0..(kernel.warps - 1) /\ Stride(kernel) \in {1, 2, 4, 8}
    BY LaunchSizes, StrideOf DEF Warps
  <1>5. ASSUME NEW g \in Groups(kernel)
        PROVE  /\ Reached(kernel, n, w, g, pos'[w][g])
               /\ pc'[w] > loops => pos'[w][g] >= LastBlock(kernel, n, w)
    <2>1. /\ Reached(kernel, n, w, g, pos'[w][g])
          /\ Instruction(w).room = 1 => pos'[w][g] >= LastBlock(kernel, n, w)
      BY <1>1, <1>4, StepBlocks
    <2>2. pc'[w] > loops => Instruction(w).room = 1
      <3>1. pc'[w] > loops => pc[w] = loops
        BY <1>1, <1>3 DEF Looping
      <3> QED
        BY <3>1 DEF Looping, Instruction
    <2> QED
      BY <2>1, <2>2
  <1>6. pc'[w] # 1
    BY <1>1, <1>3 DEF Looping
  <1> SUFFICES ASSUME NEW v \in Warps'
               PROVE  /\ \A g \in Groups(kernel)' :
                            /\ Reached(kernel', launch'.n, v, g, pos'[v][g])
                            /\ pc'[v] = 1 => pos'[v][g] = FirstBlock(kernel', launch'.n, v, g)
                            /\ pc'[v] > loops => pos'[v][g] >= LastBlock(kernel', launch'.n, v)
                      /\ pc'[v] <= loops + 1 => regs'[v] = Held(PieceOf(kernel', launch'.n, v, pos'[v]), S)
    BY DEF LoopState, Piece
  <1>7. Groups(kernel)' = Groups(kernel) /\ v \in Warps
    BY <1>3 DEF Groups, Warps
  <1>8. CASE v = w
    BY <1>2, <1>3, <1>5, <1>6, <1>7, <1>8
  <1>9. CASE v # w
    BY <1>3, <1>7, <1>9 DEF LoopState, Piece
  <1> QED
    BY <1>8, <1>9

\* A step of warps that are past their loops.
Idle(loops) ==
    /\ launch' = launch /\ kernel' = kernel /\ pos' = pos
    /\ \A v \in Warps : \/ pc'[v] = pc[v] /\ (pc[v] <= loops + 1 => regs'[v] = regs[v])
                        \/ pc[v] > loops /\ pc'[v] > loops + 1

\* So does a step that leaves positions, loops and sums in loops alone.
LEMMA IdleKept ==
    ASSUME Types, NEW loops \in 1..3, NEW S, LoopState(loops, S), Idle(loops),
           pc' \in [Warps -> 1..(Len(kernel.prog) + 1)]
    PROVE  LoopState(loops, S)'
  <1>1. launch' = launch /\ kernel' = kernel /\ pos' = pos
    BY DEF Idle
  <1> SUFFICES ASSUME NEW v \in Warps'
               PROVE  /\ \A g \in Groups(kernel)' :
                            /\ Reached(kernel', launch'.n, v, g, pos'[v][g])
                            /\ pc'[v] = 1 => pos'[v][g] = FirstBlock(kernel', launch'.n, v, g)
                            /\ pc'[v] > loops => pos'[v][g] >= LastBlock(kernel', launch'.n, v)
                      /\ pc'[v] <= loops + 1 => regs'[v] = Held(PieceOf(kernel', launch'.n, v, pos'[v]), S)
    BY DEF LoopState, Piece
  <1>2. Groups(kernel)' = Groups(kernel) /\ v \in Warps
    BY <1>1 DEF Groups, Warps
  <1>3. PICK a, b : a = pc[v] /\ b = pc'[v]
    OBVIOUS
  <1>4. a \in Int /\ b \in Int
    BY <1>2, <1>3 DEF Types
  <1>5. CASE b = a /\ (a <= loops + 1 => regs'[v] = regs[v])
    BY <1>1, <1>2, <1>3, <1>5 DEF LoopState, Piece
  <1>6. CASE a > loops /\ b > loops + 1
    <2>1. b # 1 /\ ~ (b <= loops + 1)
      BY <1>4, <1>6
    <2> QED
      BY <1>1, <1>2, <1>3, <1>6, <2>1 DEF LoopState, Piece
  <1> QED
    BY <1>2, <1>3, <1>5, <1>6 DEF Idle

\* An instruction that is no loop comes after the loops.
LEMMA PastLoops ==
    ASSUME Types, NEW loops, NEW S, Looping(kernel, loops, S), NEW w \in Warps, NEW op, op # "loop",
           At(w, op)
    PROVE  pc[w] \in (loops + 1)..Len(kernel.prog) /\ kernel.prog[pc[w]].op = op
  <1>1. pc[w] \in 1..(Len(kernel.prog) + 1) /\ pc[w] <= Len(kernel.prog) /\ kernel.prog[pc[w]].op = op
    BY DEF Types, At
  <1>2. pc[w] \notin 1..loops
    BY <1>1 DEF Looping
  <1>3. PICK n : n = Len(kernel.prog)
    OBVIOUS
  <1> QED
    BY <1>1, <1>2, <1>3 DEF Looping

\* A tree of shuffles turns the map before it into the map after it.
LEMMA FoldHeld ==
    ASSUME NEW k, Shape(k), NEW i, NEW S, NEW E, FoldsTo(k, i, S, E), NEW P, Apart(P, Span(k))
    PROVE  FoldLeft(Butterfly, Held(P, S), k.prog[i].offs) = Held(P, E)
  <1>1. PICK tree \in Trees : /\ tree[1] = k.prog[i].offs /\ tree[2] = S /\ tree[3] = E
                            /\ (tree[4] = Span(k) \/ Span(k) = 32)
    BY DEF FoldsTo
  <1>2. tree[4] \in Nat
    BY DEF Trees
  <1>3. Apart(P, tree[4])
    BY <1>1, <1>2, WideApart
  <1>4. FoldLeft(Butterfly, Held(P, tree[2]), tree[1]) = Held(P, tree[3])
    BY <1>3, TreeMerges
  <1> QED
    BY <1>1, <1>4

\* The types, the sizes of a launch included, are kept by every step.
LEMMA TypesKept ==
    ASSUME Types, NEW loops, NEW S \in Maps, Shape(kernel), Looping(kernel, loops, S),
           LoopState(loops, S), Next \/ UNCHANGED vars
    PROVE  Types'
  <1>1. CASE \E w \in Warps : RunLoop(w)
    <2> PICK w \in Warps : RunLoop(w)
      BY <1>1
    <2>1. /\ pc[w] \in 1..loops /\ AllReached(kernel, launch.n, w, pos[w])
          /\ Advances(kernel, launch.n, w, Instruction(w), pos[w], pos'[w])
      BY LoopAdvances
    <2>2. launch.n \in Nat /\ w \in 0..(kernel.warps - 1) /\ Stride(kernel) \in {1, 2, 4, 8}
      BY LaunchSizes, StrideOf DEF Warps
    <2>3. \A g \in Groups(kernel) : pos'[w][g] \in Nat
      BY <2>1, <2>2, StepBlocks
    <2>4. launch' = launch /\ kernel' = kernel /\ pc' = [pc EXCEPT ![w] = @ + 1]
          /\ Warps' = Warps /\ Groups(kernel)' = Groups(kernel)
      BY DEF RunLoop, Advance, Warps, Groups
    <2>5. pos' \in [Warps -> [Groups(kernel) -> Nat]]
      <3>1. \A v \in Warps : pos'[v] \in [Groups(kernel) -> Nat]
        <4> SUFFICES ASSUME NEW v \in Warps
                     PROVE  pos'[v] \in [Groups(kernel) -> Nat]
          OBVIOUS
        <4>1. v # w => pos'[v] = pos[v]
          BY DEF RunLoop, Types
        <4>2. pos'[w] = [g \in Groups(kernel) |-> pos'[w][g]]
          BY DEF RunLoop, Types
        <4> QED
          BY <2>3, <4>1, <4>2 DEF Types
      <3>2. pos' = [v \in Warps |-> pos'[v]]
        BY DEF RunLoop, Types
      <3> QED
        BY <3>1, <3>2
    <2>6. pc' \in [Warps -> 1..(Len(kernel.prog) + 1)]
      BY <2>1, <2>4 DEF Types, Looping
    <2>7. DOMAIN regs' = Warps /\ shared' = shared /\ out' = out
      BY DEF RunLoop, Types
    <2> QED
      BY <2>4, <2>5, <2>6, <2>7 DEF Types
  <1>2. ASSUME launch' = launch, kernel' = kernel, pos' = pos,
               pc' \in [Warps -> 1..(Len(kernel.prog) + 1)], DOMAIN regs' = DOMAIN regs,
               DOMAIN shared' = DOMAIN shared, DOMAIN out' = DOMAIN out
        PROVE  Types'
    <2>1. Warps' = Warps /\ Groups(kernel)' = Groups(kernel)
      BY <1>2 DEF Warps, Groups
    <2> QED
      BY <1>2, <2>1 DEF Types
  <1>3. ASSUME NEW w \in Warps, Advance(w), NEW op, At(w, op)
        PROVE  pc' \in [Warps -> 1..(Len(kernel.prog) + 1)]
    <2>1. PICK n : n = Len(kernel.prog)
      OBVIOUS
    <2>2. n \in Nat
      BY <2>1 DEF Looping
    <2>3. pc \in [Warps -> 1..(n + 1)] /\ pc[w] <= n
      BY <1>3, <2>1 DEF Types, At
    <2> QED
      BY <1>3, <2>1, <2>2, <2>3 DEF Advance
  <1>4. ASSUME NEW w \in Warps, FoldLanes(w) PROVE Types'
    BY <1>2, <1>3, <1>4 DEF FoldLanes
  <1>5. ASSUME NEW w \in Warps, ShareSums(w) PROVE Types'
    BY <1>2, <1>3, <1>5 DEF ShareSums
  <1>6. ASSUME NEW w \in Warps, AddShared(w) PROVE Types'
    BY <1>2, <1>3, <1>6 DEF AddShared
  <1>7. ASSUME NEW w \in Warps, SumShared(w) PROVE Types'
    BY <1>2, <1>3, <1>7 DEF SumShared
  <1>8. ASSUME NEW w \in Warps, WriteRows(w) PROVE Types'
    BY <1>2, <1>3, <1>8 DEF WriteRows, Types
  <1>9. ASSUME NEW w \in Warps, StoreColumns(w) PROVE Types'
    BY <1>2, <1>3, <1>9 DEF StoreColumns
  <1>10. ASSUME PassBarrier PROVE Types'
    <2>1. PICK n : n = Len(kernel.prog)
      OBVIOUS
    <2>2. n \in Nat
      BY <2>1 DEF Looping
    <2>3. pc \in [Warps -> 1..(n + 1)] /\ \A w \in Warps : pc[w] <= n
      BY <1>10, <2>1 DEF Types, At, PassBarrier
    <2>4. pc' \in [Warps -> 1..(n + 1)]
      BY <1>10, <2>1, <2>2, <2>3 DEF PassBarrier
    <2> QED
      BY <1>2, <1>10, <2>1, <2>4 DEF PassBarrier
  <1>11. ASSUME UNCHANGED vars PROVE Types'
    BY <1>2, <1>11 DEF vars, Types
  <1> QED
    BY <1>1, <1>4, <1>5, <1>6, <1>7, <1>8, <1>9, <1>10, <1>11 DEF Next, Rest

-----------------------------------------------------------------------------
(* A warp that writes its rows.                                            *)

\* What holds before every step.
Ready(loops, S) ==
    /\ Types /\ loops \in 1..3 /\ S \in Maps /\ Shape(kernel) /\ Looping(kernel, loops, S)
    /\ LoopState(loops, S)

\* Types and shape, as the steps use them.
LEMMA ReadyTypes ==
    ASSUME NEW loops, NEW S, Ready(loops, S)
    PROVE  /\ launch.n \in Nat /\ Len(kernel.prog) \in Nat /\ loops \in 1..3 /\ loops < Len(kernel.prog)
           /\ 0 \in Warps /\ \A w \in Warps : pc[w] \in 1..(Len(kernel.prog) + 1)
           /\ \A w \in Warps : AllReached(kernel, launch.n, w, pos[w])
           /\ \A w \in Warps, g \in Groups(kernel) : pos[w][g] \in Nat
           /\ \A w \in Warps : pc[w] > loops => AllDone(kernel, launch.n, w, pos[w])
  <1>1. launch.n \in Nat
    BY LaunchSizes DEF Ready
  <1>2. /\ loops \in 1..3 /\ Len(kernel.prog) \in Nat /\ loops < Len(kernel.prog)
        /\ \A w \in Warps : pc[w] \in 1..(Len(kernel.prog) + 1)
    BY DEF Ready, Looping, Types
  <1>3. 0 \in Warps
    BY DEF Ready, Shape, Warps
  <1>4. \A w \in Warps : AllReached(kernel, launch.n, w, pos[w])
    BY DEF Ready, LoopState, AllReached
  <1>5. \A w \in Warps, g \in Groups(kernel) : pos[w][g] \in Nat
    BY DEF Ready, Types
  <1>6. \A w \in Warps : pc[w] > loops => AllDone(kernel, launch.n, w, pos[w])
    BY DEF Ready, LoopState, AllDone
  <1> QED
    BY <1>1, <1>2, <1>3, <1>4, <1>5, <1>6

\* A lane that holds the pieces of its row holds the row.
LEMMA LaneHoldsRow ==
    ASSUME NEW loops, NEW S, Ready(loops, S), NEW E \in Maps, NEW lanes, Complete(kernel, E, lanes),
           kernel.warps = 1, pc[0] > loops, NEW l \in lanes
    PROVE  Held(Piece(0), E)[l] = SetToBag(Contributions)
  <1> DEFINE X == {m \in E[l] : m < kernel.lanes}
             Y == {m \in 0..(kernel.lanes - 1) : Slot(kernel, m) = Slot(kernel, l)}
             P == Piece(0)
             n == launch.n
  <1>1. l \in 0..(kernel.lanes - 1) /\ l \in Lanes /\ X = Y /\ E[l] \subseteq Lanes
    <2>1. l \in 0..(kernel.lanes - 1) /\ X = Y
      BY DEF Complete
    <2>2. l \in Lanes
      BY <2>1 DEF Ready, Shape, Lanes
    <2> QED
      BY <2>1, <2>2, MapsType
  <1>2. UNION {P[m] : m \in E[l]} = UNION {P[m] : m \in X}
    <2>1. \A m \in E[l] : m \notin X => P[m] = {}
      BY <1>1 DEF Piece, PieceOf
    <2> HIDE DEF P
    <2> QED
      BY <2>1
  <1>3. /\ n \in Nat /\ AllReached(kernel, n, 0, pos[0]) /\ AllDone(kernel, n, 0, pos[0])
        /\ \A g \in Groups(kernel) : pos[0][g] \in Nat
    BY ReadyTypes
  <1>4. Shape(kernel)
    BY DEF Ready
  <1>5. UNION {P[m] : m \in Y} = Contributions
    <2>1. CASE kernel.split \in {"row", "tile"}
      <3>1. UNION {PieceOf(kernel, n, 0, pos[0])[m] :
                     m \in {m \in 0..(kernel.lanes - 1) : Slot(kernel, m) = Slot(kernel, l)}}
            = (0..(n - 1)) \X (0..(kernel.group - 1))
        BY <1>1, <1>3, <1>4, <2>1, RowWhole
      <3> QED
        BY <3>1 DEF Piece, Contributions
    <2>2. CASE kernel.split \in {"stripe", "chunk"}
      <3>1. 0..(kernel.warps - 1) = {0}
        OBVIOUS
      <3> DEFINE Q(wl) == PieceOf(kernel, n, wl[1], pos[wl[1]])[wl[2]]
      <3>2. UNION {Q(wl) : wl \in (0..(kernel.warps - 1)) \X Lanes}
            = (0..(n - 1)) \X (0..(kernel.group - 1))
        BY <1>3, <1>4, <2>2, <3>1, SharedWhole
      <3>3. Y = Lanes
        BY <1>1, <1>4, <2>2 DEF Slot, Shape, Lanes
      <3>4. \A m \in Lanes : Q(<<0, m>>) = P[m]
        BY DEF Piece
      <3>5. {Q(wl) : wl \in {0} \X Lanes} = {P[m] : m \in Lanes}
        <4> HIDE DEF Q, P
        <4>1. ASSUME NEW wl \in {0} \X Lanes
              PROVE  Q(wl) \in {P[m] : m \in Lanes}
          <5>1. wl[2] \in Lanes /\ wl = <<0, wl[2]>>
            OBVIOUS
          <5>2. Q(wl) = P[wl[2]]
            BY <3>4, <5>1
          <5> QED
            BY <5>1, <5>2
        <4>2. ASSUME NEW m \in Lanes
              PROVE  P[m] \in {Q(wl) : wl \in {0} \X Lanes}
          <5>1. <<0, m>> \in {0} \X Lanes
            OBVIOUS
          <5> QED
            BY <3>4, <5>1
        <4> QED
          BY <4>1, <4>2
      <3> HIDE DEF Q, P
      <3> QED
        BY <3>1, <3>2, <3>3, <3>5 DEF Contributions
    <2> QED
      BY <1>4, <2>1, <2>2 DEF Shape
  <1> HIDE DEF X, Y, P
  <1>6. Held(P, E)[l] = SetToBag(UNION {P[m] : m \in E[l]})
    BY <1>1 DEF Held
  <1> QED
    BY <1>1, <1>2, <1>5, <1>6 DEF P

\* A step of a warp that is past its loops, and of the barrier.
LEMMA OthersIdle ==
    ASSUME NEW loops, NEW S, Ready(loops, S), NEW w \in Warps, NEW op, op # "loop", At(w, op), Advance(w),
           UNCHANGED <<launch, kernel, pos>>, \A v \in Warps \ {w} : regs'[v] = regs[v]
    PROVE  Idle(loops)
  <1>1. pc[w] \in (loops + 1)..Len(kernel.prog)
    BY PastLoops DEF Ready
  <1>2. \A v \in Warps \ {w} : pc'[v] = pc[v]
    BY DEF Advance, Ready, Types
  <1>3. pc'[w] = pc[w] + 1
    BY DEF Advance, Ready, Types
  <1>4. loops \in Nat
    BY ReadyTypes
  <1> QED
    BY <1>1, <1>2, <1>3, <1>4 DEF Idle

\* A barrier is such a step.
LEMMA BarrierIdle ==
    ASSUME NEW loops, NEW S, Ready(loops, S), PassBarrier
    PROVE  Idle(loops)
  <1>1. \A w \in Warps : pc[w] \in (loops + 1)..Len(kernel.prog)
    BY PastLoops DEF Ready, PassBarrier
  <1>2. loops \in Nat /\ Len(kernel.prog) \in Nat /\ loops < Len(kernel.prog)
    BY ReadyTypes
  <1>3. PICK n : n = Len(kernel.prog)
    OBVIOUS
  <1>4. \A w \in Warps : pc'[w] = pc[w] + 1 \/ pc'[w] = n + 1
    BY <1>3 DEF PassBarrier
  <1> QED
    BY <1>1, <1>2, <1>3, <1>4 DEF Idle, PassBarrier

\* What LoopState says is kept by every step.
LEMMA LoopStateKept ==
    ASSUME NEW loops, NEW S, Ready(loops, S), Next \/ UNCHANGED vars
    PROVE  Types' /\ LoopState(loops, S)'
  <1>1. Types'
    BY TypesKept DEF Ready
  <1>2. ASSUME Idle(loops) PROVE LoopState(loops, S)'
    <2>1. pc' \in [Warps -> 1..(Len(kernel.prog) + 1)]
      BY <1>1, <1>2 DEF Types, Idle, Warps
    <2> QED
      BY <1>2, <2>1, IdleKept DEF Ready
  <1>3. ASSUME NEW w \in Warps, RunLoop(w) PROVE LoopState(loops, S)'
    BY <1>3, LoopKept DEF Ready
  <1>4. ASSUME NEW w \in Warps, FoldLanes(w) PROVE LoopState(loops, S)'
    <2>1. Idle(loops)
      BY <1>4, OthersIdle DEF FoldLanes, Ready, Types
    <2> QED
      BY <1>2, <2>1
  <1>5. ASSUME NEW w \in Warps, ShareSums(w) PROVE LoopState(loops, S)'
    <2>1. Idle(loops)
      BY <1>5, OthersIdle DEF ShareSums, Ready, Types
    <2> QED
      BY <1>2, <2>1
  <1>6. ASSUME NEW w \in Warps, AddShared(w) PROVE LoopState(loops, S)'
    <2>1. Idle(loops)
      BY <1>6, OthersIdle DEF AddShared, Ready, Types
    <2> QED
      BY <1>2, <2>1
  <1>7. ASSUME NEW w \in Warps, SumShared(w) PROVE LoopState(loops, S)'
    <2>1. Idle(loops)
      BY <1>7, OthersIdle DEF SumShared, Ready, Types
    <2> QED
      BY <1>2, <2>1
  <1>8. ASSUME NEW w \in Warps, WriteRows(w) PROVE LoopState(loops, S)'
    <2>1. Idle(loops)
      BY <1>8, OthersIdle DEF WriteRows, Ready, Types
    <2> QED
      BY <1>2, <2>1
  <1>9. ASSUME NEW w \in Warps, StoreColumns(w) PROVE LoopState(loops, S)'
    <2>1. Idle(loops)
      BY <1>9, OthersIdle DEF StoreColumns, Ready, Types
    <2> QED
      BY <1>2, <2>1
  <1>10. ASSUME PassBarrier PROVE LoopState(loops, S)'
    BY <1>2, <1>10, BarrierIdle
  <1>11. ASSUME UNCHANGED vars PROVE LoopState(loops, S)'
    BY <1>2, <1>11 DEF vars, Idle
  <1> QED
    BY <1>1, <1>3, <1>4, <1>5, <1>6, <1>7, <1>8, <1>9, <1>10, <1>11 DEF Next, Rest

\* What a step of warp w that is in its loops leaves alone.
LEMMA LoopStep ==
    ASSUME NEW loops, NEW S, Ready(loops, S), NEW w \in Warps, RunLoop(w)
    PROVE  /\ pc[w] \in 1..loops /\ pc'[w] = pc[w] + 1 /\ UNCHANGED <<launch, kernel, shared, out>>
           /\ \A v \in Warps \ {w} : pc'[v] = pc[v] /\ pos'[v] = pos[v] /\ regs'[v] = regs[v]
           /\ \A v \in Warps \ {w} : Piece(v)' = Piece(v)
  <1>1. pc[w] \in 1..loops
    BY LoopAdvances DEF Ready
  <1>2. /\ pc'[w] = pc[w] + 1 /\ UNCHANGED <<launch, kernel, shared, out>>
        /\ \A v \in Warps \ {w} : pc'[v] = pc[v] /\ pos'[v] = pos[v] /\ regs'[v] = regs[v]
    BY DEF RunLoop, Advance, Ready, Types
  <1> QED
    BY <1>1, <1>2 DEF Piece

\* A warp that has just done its loops holds what LoopState says.
LEMMA AfterLoops ==
    ASSUME NEW loops, NEW S, Ready(loops, S), NEW w \in Warps, pc[w] = loops + 1
    PROVE  regs[w] = Held(Piece(w), S)
  <1>1. pc[w] <= loops + 1
    BY ReadyTypes
  <1> QED
    BY <1>1 DEF Ready, LoopState

\* The step of a warp through a tree of shuffles.
LEMMA FoldStep ==
    ASSUME NEW loops, NEW S, Ready(loops, S), NEW w \in Warps, FoldLanes(w), NEW E,
           FoldsTo(kernel, pc[w], S, E), regs[w] = Held(Piece(w), S)
    PROVE  regs'[w] = Held(Piece(w), E) /\ \A v \in Warps \ {w} : regs'[v] = regs[v]
  <1>1. Apart(Piece(w), Span(kernel))
    BY PiecesApart DEF Ready, Piece, Warps
  <1>2. regs'[w] = FoldLeft(Butterfly, regs[w], kernel.prog[pc[w]].offs)
        /\ \A v \in Warps \ {w} : regs'[v] = regs[v]
    BY DEF FoldLanes, Instruction, Ready, Types
  <1>3. FoldLeft(Butterfly, Held(Piece(w), S), kernel.prog[pc[w]].offs) = Held(Piece(w), E)
    BY <1>1, FoldHeld DEF Ready
  <1> QED
    BY <1>2, <1>3

\* The warp that takes a step goes on to the next instruction.
LEMMA Stepped ==
    ASSUME NEW loops, NEW S, Ready(loops, S), NEW w \in Warps, Advance(w)
    PROVE  pc'[w] = pc[w] + 1 /\ \A v \in Warps \ {w} : pc'[v] = pc[v]
  BY DEF Advance, Ready, Types

\* Kernels of one warp keep their part of the invariant.
LEMMA WritingKept ==
    ASSUME NEW loops, NEW S, Ready(loops, S), NEW E \in Maps, Writing(kernel, loops, S, E),
           WritingState(loops, S, E), Written, Next \/ UNCHANGED vars
    PROVE  WritingState(loops, S, E)' /\ Written'
  <1>1. PICK n : n = Len(kernel.prog)
    OBVIOUS
  <1>2. /\ n \in Nat /\ loops \in 1..3 /\ loops < n /\ Warps = {0} /\ pc[0] \in 1..(n + 1)
        /\ n \in {loops + 1, loops + 2}
    <2>1. Warps = {0}
      BY DEF Warps, Writing
    <2> QED
      BY <1>1, <2>1, ReadyTypes DEF Writing
  <1>3. \A i \in (loops + 1)..n : kernel.prog[i].op = IF i = n THEN "write" ELSE "fold"
    BY <1>1, <1>2 DEF Writing, FoldsTo
  <1>4. \A op : op # "loop" /\ At(0, op) =>
           pc[0] \in (loops + 1)..n /\ op = IF pc[0] = n THEN "write" ELSE "fold"
    <2> SUFFICES ASSUME NEW op, op # "loop", At(0, op)
                 PROVE  pc[0] \in (loops + 1)..n /\ op = IF pc[0] = n THEN "write" ELSE "fold"
      OBVIOUS
    <2>1. pc[0] \in (loops + 1)..n /\ kernel.prog[pc[0]].op = op
      BY <1>1, <1>2, PastLoops DEF Ready
    <2> QED
      BY <1>3, <2>1
  <1>5. ASSUME RunLoop(0) PROVE WritingState(loops, S, E)' /\ Written'
    <2>1. pc[0] \in 1..loops /\ pc'[0] = pc[0] + 1 /\ kernel' = kernel
      BY <1>2, <1>5, LoopStep
    <2>2. ~ (pc'[0] > loops + 1) /\ pc'[0] # n + 1
      BY <1>2, <2>1
    <2> QED
      BY <1>1, <2>1, <2>2 DEF WritingState, Written
  <1>6. ASSUME FoldLanes(0) PROVE WritingState(loops, S, E)' /\ Written'
    <2>1. n = loops + 2 /\ pc[0] = loops + 1
      BY <1>2, <1>4, <1>6 DEF FoldLanes
    <2>2. regs[0] = Held(Piece(0), S)
      BY <1>2, <2>1, AfterLoops
    <2>3. FoldsTo(kernel, pc[0], S, E)
      BY <1>1, <1>2, <2>1 DEF Writing
    <2>4. regs'[0] = Held(Piece(0), E)
      BY <1>2, <1>6, <2>2, <2>3, FoldStep
    <2>5. pc'[0] = n /\ UNCHANGED <<launch, kernel, pos>>
      BY <1>2, <1>6, <2>1, Stepped DEF FoldLanes
    <2>6. Piece(0)' = Piece(0)
      BY <2>5 DEF Piece
    <2> QED
      BY <1>1, <1>2, <2>4, <2>5, <2>6 DEF WritingState, Written
  <1>7. ASSUME WriteRows(0) PROVE WritingState(loops, S, E)' /\ Written'
    <2>1. pc[0] = n
      BY <1>2, <1>4, <1>7 DEF WriteRows
    <2>2. regs[0] = Held(Piece(0), E)
      <3>1. CASE n = loops + 1
        <4>1. S = E
          BY <1>1, <1>2, <3>1 DEF Writing
        <4> QED
          BY <1>2, <2>1, <3>1, <4>1, AfterLoops
      <3>2. CASE n = loops + 2
        BY <1>2, <2>1, <3>2 DEF WritingState
      <3> QED
        BY <1>2, <3>1, <3>2
    <2>3. UNCHANGED <<launch, kernel, pos, regs>>
      BY <1>7 DEF WriteRows
    <2>4. Piece(0)' = Piece(0) /\ Contributions' = Contributions
      BY <2>3 DEF Piece, Contributions
    <2> DEFINE lanes == kernel.prog[n].lanes
    <2>5. Complete(kernel, E, lanes) /\ kernel.warps = 1
      BY <1>1 DEF Writing
    <2>6. \A l \in lanes : regs[0][l] = SetToBag(Contributions)
      <3> HIDE DEF lanes
      <3>1. pc[0] > loops
        BY <1>2, <2>1
      <3> QED
        BY <2>2, <2>5, <3>1, LaneHoldsRow
    <2>7. \A s \in Slots(kernel) : \E l \in lanes : out'[s] = regs[0][l]
      BY <1>7, <2>1 DEF WriteRows, Instruction
    <2>8. Slots(kernel)' = Slots(kernel)
      BY <2>3 DEF Slots, Slot
    <2>9. \A s \in Slots(kernel) : out'[s] = SetToBag(Contributions)
      <3> HIDE DEF lanes
      <3> QED
        BY <2>6, <2>7
    <2> QED
      BY <2>2, <2>3, <2>4, <2>8, <2>9 DEF WritingState, Written
  <1>8. ~ ShareSums(0) /\ ~ AddShared(0) /\ ~ SumShared(0) /\ ~ StoreColumns(0) /\ ~ PassBarrier
    BY <1>2, <1>4 DEF ShareSums, AddShared, SumShared, StoreColumns, PassBarrier
  <1>9. ASSUME UNCHANGED vars PROVE WritingState(loops, S, E)' /\ Written'
    BY <1>9 DEF vars, WritingState, Written, Piece, Contributions, Slots, Slot
  <1> QED
    BY <1>2, <1>5, <1>6, <1>7, <1>8, <1>9 DEF Next, Rest

-----------------------------------------------------------------------------
(* Warps that share a row.                                                 *)
LEMMA LanesApart ==
    ASSUME NEW k, Shape(k), Slots(k) = {0}, NEW n, NEW w \in 0..(k.warps - 1), NEW p
    PROVE  Apart(PieceOf(k, n, w, p), 32)
  <1>1. Apart(PieceOf(k, n, w, p), Span(k))
    BY PiecesApart
  <1>2. CASE k.split = "stripe"
    BY <1>1, <1>2 DEF Span
  <1>3. CASE k.split = "chunk"
    BY <1>1, <1>3 DEF Span, Shape
  <1>4. CASE k.split \in {"row", "tile"}
    <2>1. \A m \in Lanes : m < k.lanes => m \div k.group = 0
      <3>1. CASE k.split = "tile"
        BY <3>1 DEF Shape, Lanes
      <3>2. CASE k.split = "row"
        <4> SUFFICES ASSUME NEW m \in Lanes, m < k.lanes
                     PROVE  m \div k.group = 0
          OBVIOUS
        <4>1. m \in 0..(k.lanes - 1)
          BY DEF Shape, Lanes
        <4>2. Slot(k, m) \in Slots(k)
          BY <4>1 DEF Slots
        <4> QED
          BY <3>2, <4>2 DEF Slot
      <3> QED
        BY <1>4, <3>1, <3>2
    <2>2. Span(k) = k.group
      BY <1>4 DEF Span
    <2> SUFFICES ASSUME NEW m \in Lanes, NEW q \in Lanes, m # q
                 PROVE  PieceOf(k, n, w, p)[m] \cap PieceOf(k, n, w, p)[q] = {}
      BY DEF Apart
    <2>3. CASE m < k.lanes /\ q < k.lanes
      BY <1>1, <2>1, <2>2, <2>3 DEF Apart
    <2>4. CASE ~ (m < k.lanes) \/ ~ (q < k.lanes)
      BY <2>4 DEF PieceOf
    <2> QED
      BY <2>3, <2>4
  <1> QED
    BY <1>2, <1>3, <1>4 DEF Shape

\* All warps together hold the row, once they are past their loops.
LEMMA WarpsHoldRow ==
    ASSUME NEW loops, NEW S, Ready(loops, S), Slots(kernel) = {0}, \A w \in Warps : pc[w] > loops
    PROVE  UNION {Whole(w) : w \in Warps} = Contributions
  <1> DEFINE n == launch.n
             k == kernel
  <1>1. /\ n \in Nat /\ Shape(k) /\ Warps = 0..(k.warps - 1)
        /\ \A w \in Warps : AllReached(k, n, w, pos[w]) /\ AllDone(k, n, w, pos[w])
        /\ \A w \in Warps, g \in Groups(k) : pos[w][g] \in Nat
    BY ReadyTypes DEF Ready, Warps
  <1>2. CASE k.split \in {"row", "tile"}
    <2>1. Warps = {0} /\ 0 \in 0..(k.lanes - 1) /\ 0..(k.lanes - 1) \subseteq Lanes /\ k.lanes \in Nat
      <3>1. k.warps = 1 /\ k.lanes \in {1, 4, 8, 32}
        BY <1>1, <1>2 DEF Shape
      <3>2. Warps = {0}
        BY <1>1, <3>1
      <3> HIDE DEF k
      <3> QED
        BY <3>1, <3>2 DEF Lanes
    <2>2. UNION {PieceOf(k, n, 0, pos[0])[m] : m \in {m \in 0..(k.lanes - 1) : Slot(k, m) = Slot(k, 0)}}
          = Contributions
      <3>1. UNION {PieceOf(k, n, 0, pos[0])[m] : m \in {m \in 0..(k.lanes - 1) : Slot(k, m) = Slot(k, 0)}}
            = (0..(n - 1)) \X (0..(k.group - 1))
        BY <1>1, <1>2, <2>1, RowWhole
      <3> QED
        BY <3>1 DEF Contributions
    <2>3. \A m \in 0..(k.lanes - 1) : Slot(k, m) = Slot(k, 0)
      BY <2>1 DEF Slots
    <2>4. \A m \in Lanes : m \notin 0..(k.lanes - 1) => PieceOf(k, n, 0, pos[0])[m] = {}
      BY <2>1 DEF PieceOf, Lanes
    <2>5. Whole(0) = UNION {PieceOf(k, n, 0, pos[0])[m] : m \in Lanes}
      BY DEF Whole, Piece
    <2>6. Whole(0) = Contributions
      <3> DEFINE P(m) == PieceOf(k, n, 0, pos[0])[m]
      <3>1. UNION {P(m) : m \in {m \in 0..(k.lanes - 1) : Slot(k, m) = Slot(k, 0)}} = Contributions
        BY <2>2
      <3>2. \A m \in Lanes : m \notin 0..(k.lanes - 1) => P(m) = {}
        BY <2>4
      <3>3. Whole(0) = UNION {P(m) : m \in Lanes}
        BY <2>5
      <3> HIDE DEF P, k
      <3> QED
        BY <2>1, <2>3, <3>1, <3>2, <3>3
    <2> QED
      BY <2>1, <2>6
  <1>3. CASE k.split \in {"stripe", "chunk"}
    <2> DEFINE Q(wl) == PieceOf(k, n, wl[1], pos[wl[1]])[wl[2]]
               A == UNION {Q(wl) : wl \in (0..(k.warps - 1)) \X Lanes}
    <2>1. A = Contributions
      <3>1. UNION {PieceOf(k, n, wl[1], pos[wl[1]])[wl[2]] : wl \in (0..(k.warps - 1)) \X Lanes}
            = (0..(n - 1)) \X (0..(k.group - 1))
        <4>1. /\ \A w \in 0..(k.warps - 1) : AllReached(k, n, w, pos[w]) /\ AllDone(k, n, w, pos[w])
              /\ \A w \in 0..(k.warps - 1), g \in Groups(k) : pos[w][g] \in Nat
          BY <1>1
        <4> HIDE DEF k, n
        <4> QED
          BY <1>1, <1>3, <4>1, SharedWhole
      <3> QED
        BY <3>1 DEF Contributions
    <2>2. \A w \in Warps, m \in Lanes : Q(<<w, m>>) = Piece(w)[m]
      BY DEF Piece
    <2> HIDE DEF Q, n, k
    <2>3. UNION {Whole(w) : w \in Warps} = UNION {Q(wl) : wl \in Warps \X Lanes}
      <3>1. ASSUME NEW w \in Warps, NEW m \in Lanes
            PROVE  Piece(w)[m] \subseteq UNION {Q(wl) : wl \in Warps \X Lanes}
        <4>1. <<w, m>> \in Warps \X Lanes
          OBVIOUS
        <4>2. Q(<<w, m>>) \in {Q(wl) : wl \in Warps \X Lanes}
          BY <4>1
        <4> QED
          BY <2>2, <4>2
      <3>2. \A w \in Warps : Whole(w) \subseteq UNION {Q(wl) : wl \in Warps \X Lanes}
        BY <3>1 DEF Whole
      <3>3. ASSUME NEW wl \in Warps \X Lanes
            PROVE  Q(wl) \subseteq UNION {Whole(w) : w \in Warps}
        <4>1. wl[1] \in Warps /\ wl[2] \in Lanes /\ wl = <<wl[1], wl[2]>>
          OBVIOUS
        <4>2. Q(wl) = Piece(wl[1])[wl[2]]
          BY <2>2, <4>1
        <4>3. Piece(wl[1])[wl[2]] \subseteq Whole(wl[1])
          BY <4>1 DEF Whole
        <4> QED
          BY <4>1, <4>2, <4>3
      <3> QED
        BY <3>2, <3>3
    <2> QED
      BY <1>1, <2>1, <2>3
  <1> QED
    BY <1>1, <1>2, <1>3 DEF Shape

\* What two warps have computed is apart.
LEMMA WholesApart ==
    ASSUME NEW loops, NEW S, Ready(loops, S), NEW w \in Warps, NEW v \in Warps, w # v
    PROVE  /\ Whole(w) \cap Whole(v) = {}
           /\ \A m, r \in Lanes : Piece(w)[m] \cap Piece(v)[r] = {}
  <1>1. \A m, r \in Lanes : Piece(w)[m] \cap Piece(v)[r] = {}
    <2>1. /\ Shape(kernel) /\ launch.n \in Nat /\ w \in 0..(kernel.warps - 1) /\ v \in 0..(kernel.warps - 1)
          /\ AllReached(kernel, launch.n, w, pos[w]) /\ AllReached(kernel, launch.n, v, pos[v])
          /\ \A g \in Groups(kernel) : pos[w][g] \in Nat /\ pos[v][g] \in Nat
      BY ReadyTypes DEF Ready, Warps
    <2> QED
      BY <2>1, WarpsApart DEF Piece
  <1> QED
    BY <1>1 DEF Whole

\* There are 32 lanes.
LEMMA LanesFinite == IsFiniteSet(Lanes) /\ Lanes = 0..31
  <1>1. 0 \in Int /\ 31 \in Int
    OBVIOUS
  <1>2. IsFiniteSet(0..31)
    BY <1>1, FS_Interval
  <1> QED
    BY <1>2 DEF Lanes

\* There are finitely many warps.
LEMMA WarpsFinite == ASSUME Shape(kernel) PROVE IsFiniteSet(Warps)
  <1>1. 0 \in Int /\ kernel.warps - 1 \in Int
    BY DEF Shape
  <1>2. IsFiniteSet(0..(kernel.warps - 1))
    BY <1>1, FS_Interval
  <1> QED
    BY <1>2 DEF Warps

\* Kernels that write weights out keep their part of the invariant.
LEMMA StoringKept ==
    ASSUME NEW loops, NEW S \in Maps, Ready(loops, S), NEW E \in Maps, Storing(kernel, loops, S, E),
           StoringState(loops, S, E), Next \/ UNCHANGED vars
    PROVE  StoringState(loops, S, E)'
  <1> DEFINE D == {v \in Warps : pc[v] = loops + 2}
  <1>1. PICK n : n = Len(kernel.prog)
    OBVIOUS
  <1>2. /\ n \in Nat /\ loops \in 1..3 /\ n = loops + 1 /\ S = Own /\ E = Own
        /\ \A w \in Warps : pc[w] \in 1..(n + 1)
    BY <1>1, ReadyTypes DEF Storing
  <1>3. \A w \in Warps : \A op : op # "loop" /\ At(w, op) => pc[w] = loops + 1 /\ op = "store"
    <2> SUFFICES ASSUME NEW w \in Warps, NEW op, op # "loop", At(w, op)
                 PROVE  pc[w] = loops + 1 /\ op = "store"
      OBVIOUS
    <2>1. pc[w] \in (loops + 1)..n /\ kernel.prog[pc[w]].op = op
      BY <1>1, <1>2, PastLoops DEF Ready
    <2> QED
      BY <1>2, <2>1 DEF Storing
  <1>4. ASSUME NEW w \in Warps, RunLoop(w) PROVE StoringState(loops, S, E)'
    <2>1. /\ pc[w] \in 1..loops /\ pc'[w] = pc[w] + 1 /\ UNCHANGED <<launch, kernel, shared, out>>
          /\ \A v \in Warps \ {w} : pc'[v] = pc[v] /\ pos'[v] = pos[v] /\ regs'[v] = regs[v]
          /\ \A v \in Warps \ {w} : Piece(v)' = Piece(v)
      BY <1>4, LoopStep
    <2>2. Warps' = Warps
      BY <2>1 DEF Warps
    <2>3. regs'[w] = Held(PieceOf(kernel, launch.n, w, pos'[w]), Own)
      BY <1>2, <1>4, LoopSums DEF Ready
    <2>4. \A v \in Warps : regs'[v] = Held(Piece(v)', Own)
      <3> SUFFICES ASSUME NEW v \in Warps
                   PROVE  regs'[v] = Held(Piece(v)', Own)
        OBVIOUS
      <3>1. CASE v = w
        BY <2>1, <2>3, <3>1 DEF Piece
      <3>2. CASE v # w
        BY <2>1, <3>2 DEF StoringState
      <3> QED
        BY <3>1, <3>2
    <2>5. {v \in Warps : pc'[v] = loops + 2} = D /\ w \notin D
      BY <1>2, <2>1
    <2>6. \A v \in D : Whole(v)' = Whole(v)
      BY <2>1, <2>5 DEF Whole
    <2>7. {Whole(v)' : v \in D} = {Whole(v) : v \in D}
      BY <2>6
    <2>8. out[0] = SetToBag(UNION {Whole(v) : v \in D})
      BY DEF StoringState
    <2> HIDE DEF D
    <2> QED
      BY <2>1, <2>2, <2>4, <2>5, <2>7, <2>8 DEF StoringState
  <1>5. ASSUME NEW w \in Warps, StoreColumns(w) PROVE StoringState(loops, S, E)'
    <2>1. pc[w] = loops + 1
      BY <1>3, <1>5 DEF StoreColumns
    <2>2. UNCHANGED <<launch, kernel, pos, regs>> /\ pc'[w] = loops + 2
          /\ \A v \in Warps \ {w} : pc'[v] = pc[v]
      BY <1>2, <1>5, <2>1, Stepped DEF StoreColumns
    <2>3. \A v : Piece(v)' = Piece(v) /\ Whole(v)' = Whole(v)
      BY <2>2 DEF Piece, Whole
    <2>4. Warps' = Warps
      BY <2>2 DEF Warps
    <2>5. {v \in Warps : pc'[v] = loops + 2} = D \cup {w} /\ w \notin D
      BY <1>2, <2>1, <2>2
    <2>6. BagSum(regs[w], Lanes) = SetToBag(Whole(w))
      <3>1. regs[w] = Held(Piece(w), Own)
        BY DEF StoringState
      <3>2. \A l \in Lanes : regs[w][l] = SetToBag(Piece(w)[l])
        BY <3>1 DEF Held, Own
      <3>3. Apart(Piece(w), 32)
        BY LanesApart DEF Piece, Ready, Storing, Warps
      <3>4. \A l, r \in Lanes : l # r => Piece(w)[l] \cap Piece(w)[r] = {}
        BY <3>3 DEF Apart, Lanes
      <3> DEFINE bags == regs[w]
                 P == Piece(w)
      <3>5. /\ \A l \in Lanes : bags[l] = SetToBag(P[l])
            /\ \A l, r \in Lanes : l # r => P[l] \cap P[r] = {}
        BY <3>2, <3>4
      <3> HIDE DEF bags, P
      <3>6. BagSum(bags, Lanes) = SetToBag(UNION {P[l] : l \in Lanes})
        BY <3>5, LanesFinite, SumOfSets
      <3> QED
        BY <3>6 DEF bags, P, Whole
    <2>7. out'[0] = out[0] (+) SetToBag(Whole(w))
      <3>1. 0 \in DOMAIN out
        BY DEF Ready, Types, Storing
      <3> QED
        BY <1>5, <2>6, <3>1 DEF StoreColumns
    <2> DEFINE O == UNION {Whole(v) : v \in D}
    <2>8. out[0] = SetToBag(O)
      BY DEF StoringState
    <2>9. O \cap Whole(w) = {}
      <3>1. \A v \in D : v \in Warps /\ v # w
        BY <2>5
      <3> HIDE DEF D
      <3>2. \A v \in D : Whole(v) \cap Whole(w) = {}
        BY <3>1, WholesApart
      <3> QED
        BY <3>2
    <2>10. out'[0] = SetToBag(O \cup Whole(w))
      <3> HIDE DEF O
      <3> QED
        BY <2>7, <2>8, <2>9, JoinSets
    <2>11. O \cup Whole(w) = UNION {Whole(v)' : v \in D \cup {w}}
      <3> HIDE DEF D
      <3> QED
        BY <2>3
    <2> HIDE DEF D, O
    <2>12. \A v \in Warps : regs'[v] = Held(Piece(v)', Own)
      BY <2>2, <2>3 DEF StoringState
    <2> QED
      BY <2>4, <2>5, <2>10, <2>11, <2>12 DEF StoringState
  <1>6. \A w \in Warps : ~ FoldLanes(w) /\ ~ ShareSums(w) /\ ~ AddShared(w) /\ ~ SumShared(w)
                         /\ ~ WriteRows(w)
    BY <1>3 DEF FoldLanes, ShareSums, AddShared, SumShared, WriteRows
  <1>7. ~ PassBarrier
    <2>1. 0 \in Warps
      BY ReadyTypes
    <2> QED
      BY <1>3, <2>1 DEF PassBarrier
  <1>8. ASSUME UNCHANGED vars PROVE StoringState(loops, S, E)'
    <2>1. Warps' = Warps /\ \A v : Piece(v)' = Piece(v) /\ Whole(v)' = Whole(v)
      BY <1>8 DEF vars, Warps, Piece, Whole
    <2>2. {v \in Warps : pc'[v] = loops + 2} = D
      BY <1>8 DEF vars
    <2> QED
      BY <1>8, <2>1, <2>2 DEF vars, StoringState
  <1> QED
    BY <1>4, <1>5, <1>6, <1>7, <1>8 DEF Next, Rest

-----------------------------------------------------------------------------
(* Warps that leave their partial sums to warp 0.                          *)

\* The partial sums that the lanes of a warp share are the whole of it.
LEMMA PartialsTotal ==
    ASSUME NEW loops, NEW S, Ready(loops, S), Slots(kernel) = {0}, \A w \in Warps : pc[w] > loops,
           NEW E \in Maps, NEW lanes \in SUBSET Lanes, UNION {E[l] : l \in lanes} = Lanes,
           \A l, r \in lanes : l # r => E[l] \cap E[r] = {},
           NEW partials, \A wl \in Warps \X lanes : partials[wl] = Held(Piece(wl[1]), E)[wl[2]]
    PROVE  BagSum(partials, Warps \X lanes) = SetToBag(Contributions)
  <1> DEFINE I == Warps \X lanes
             Q == [wl \in I |-> UNION {Piece(wl[1])[m] : m \in E[wl[2]]}]
  <1>1. IsFiniteSet(I)
    <2>1. IsFiniteSet(Warps)
      BY WarpsFinite DEF Ready
    <2>2. IsFiniteSet(lanes)
      BY LanesFinite, FS_Subset
    <2> QED
      BY <2>1, <2>2, FS_Product
  <1>2. \A wl \in I : partials[wl] = SetToBag(Q[wl])
    BY DEF Held
  <1>3. \A l \in lanes : E[l] \subseteq Lanes
    BY MapsType
  <1>4. ASSUME NEW i \in I, NEW j \in I, i # j
        PROVE  Q[i] \cap Q[j] = {}
    <2>1. i[1] \in Warps /\ j[1] \in Warps /\ i[2] \in lanes /\ j[2] \in lanes
          /\ (i[1] # j[1] \/ i[2] # j[2])
      BY <1>4
    <2>2. CASE i[1] # j[1]
      <3>1. \A m, r \in Lanes : Piece(i[1])[m] \cap Piece(j[1])[r] = {}
        BY <2>1, <2>2, WholesApart
      <3>2. E[i[2]] \subseteq Lanes /\ E[j[2]] \subseteq Lanes
        BY <1>3, <2>1
      <3>3. \A m \in E[i[2]], r \in E[j[2]] : Piece(i[1])[m] \cap Piece(j[1])[r] = {}
        BY <3>1, <3>2
      <3> QED
        BY <3>3
    <2>3. CASE i[1] = j[1] /\ i[2] # j[2]
      <3>1. Apart(Piece(i[1]), 32)
        BY <2>1, LanesApart DEF Piece, Ready, Warps
      <3>2. \A l, r \in Lanes : l # r => Piece(i[1])[l] \cap Piece(i[1])[r] = {}
        BY <3>1 DEF Apart, Lanes
      <3>3. E[i[2]] \subseteq Lanes /\ E[j[2]] \subseteq Lanes /\ E[i[2]] \cap E[j[2]] = {}
        BY <1>3, <2>1, <2>3
      <3>4. \A m \in E[i[2]], r \in E[j[2]] : Piece(i[1])[m] \cap Piece(j[1])[r] = {}
        BY <2>3, <3>2, <3>3
      <3> QED
        BY <3>4
    <2> QED
      BY <2>1, <2>2, <2>3
  <1> HIDE DEF I
  <1>5. UNION {Q[wl] : wl \in I} = UNION {Whole(w) : w \in Warps}
    <2>1. ASSUME NEW wl \in I
          PROVE  Q[wl] \subseteq UNION {Whole(w) : w \in Warps}
      <3>1. wl[1] \in Warps /\ E[wl[2]] \subseteq Lanes
        BY <1>3 DEF I
      <3> QED
        BY <3>1 DEF Whole
    <2>2. ASSUME NEW w \in Warps, NEW m \in Lanes
          PROVE  Piece(w)[m] \subseteq UNION {Q[wl] : wl \in I}
      <3>1. PICK l \in lanes : m \in E[l]
        OBVIOUS
      <3>2. <<w, l>> \in I /\ Piece(w)[m] \subseteq Q[<<w, l>>]
        BY <3>1 DEF I
      <3> HIDE DEF Q
      <3> QED
        BY <3>2
    <2> HIDE DEF Q
    <2>3. \A w \in Warps : Whole(w) \subseteq UNION {Q[wl] : wl \in I}
      BY <2>2 DEF Whole
    <2> QED
      BY <2>1, <2>3
  <1>6. UNION {Whole(w) : w \in Warps} = Contributions
    BY WarpsHoldRow
  <1> HIDE DEF Q
  <1>7. BagSum(partials, I) = SetToBag(UNION {Q[wl] : wl \in I})
    BY <1>1, <1>2, <1>4, SumOfSets
  <1> QED
    BY <1>5, <1>6, <1>7 DEF I

\* The instructions of a kernel whose warps sum partial sums in shared memory.
LEMMA SummingPlan ==
    ASSUME NEW loops, NEW S, Ready(loops, S), NEW E, Summing(kernel, loops, S, E)
    PROVE  /\ Len(kernel.prog) = loops + 5 /\ loops \in 1..3 /\ 0 \in Warps
           /\ \A w \in Warps : pc[w] \in 1..(loops + 6)
           /\ \A w \in Warps : At(w, "fold") => pc[w] = loops + 1
           /\ \A w \in Warps : At(w, "share") => pc[w] = loops + 2
           /\ \A w \in Warps : At(w, "barrier") => pc[w] = loops + 3
           /\ \A w \in Warps : At(w, "sum") => pc[w] = loops + 4
           /\ \A w \in Warps : At(w, "write") => pc[w] = loops + 5
           /\ \A w \in Warps : ~ At(w, "add") /\ ~ At(w, "store")
  <1>1. /\ Len(kernel.prog) = loops + 5 /\ loops \in 1..3 /\ 0 \in Warps
        /\ \A w \in Warps : pc[w] \in 1..(loops + 6)
    <2>1. PICK n : n = Len(kernel.prog)
      OBVIOUS
    <2>2. n = loops + 5 /\ loops \in 1..3 /\ 0 \in Warps /\ \A w \in Warps : pc[w] \in 1..(n + 1)
      BY <2>1, ReadyTypes DEF Summing
    <2> QED
      BY <2>1, <2>2
  <1>2. \A w \in Warps : \A op : op # "loop" /\ At(w, op) =>
           pc[w] \in (loops + 1)..(loops + 5) /\ kernel.prog[pc[w]].op = op
    BY <1>1, PastLoops DEF Ready
  <1>3. /\ kernel.prog[loops + 1].op = "fold" /\ kernel.prog[loops + 2].op = "share"
        /\ kernel.prog[loops + 3].op = "barrier" /\ kernel.prog[loops + 4].op = "sum"
        /\ kernel.prog[loops + 5].op = "write"
    BY DEF Summing, FoldsTo
  <1>4. \A i \in (loops + 1)..(loops + 5) :
           i = loops + 1 \/ i = loops + 2 \/ i = loops + 3 \/ i = loops + 4 \/ i = loops + 5
    BY <1>1
  <1>5. ASSUME NEW w \in Warps, NEW op, op # "loop", At(w, op)
        PROVE  \/ pc[w] = loops + 1 /\ op = "fold"
               \/ pc[w] = loops + 2 /\ op = "share"
               \/ pc[w] = loops + 3 /\ op = "barrier"
               \/ pc[w] = loops + 4 /\ op = "sum"
               \/ pc[w] = loops + 5 /\ op = "write"
    BY <1>2, <1>3, <1>4, <1>5
  <1> QED
    BY <1>1, <1>5

\* Those kernels keep their part of the invariant.
LEMMA SummingKept ==
    ASSUME NEW loops, NEW S, Ready(loops, S), NEW E \in Maps, Summing(kernel, loops, S, E),
           SummingState(loops, S, E), Written, Next \/ UNCHANGED vars
    PROVE  SummingState(loops, S, E)' /\ Written'
  <1> DEFINE lanes == kernel.prog[loops + 2].lanes
             Total == [Held(Piece(0), E) EXCEPT ![0] = SetToBag(Contributions)]
             Regs(w) == IF w = 0 /\ pc[0] > loops + 4 THEN Total ELSE Held(Piece(w), E)
  <1>1. /\ Len(kernel.prog) = loops + 5 /\ loops \in 1..3 /\ 0 \in Warps
        /\ \A w \in Warps : pc[w] \in 1..(loops + 6)
        /\ \A w \in Warps : At(w, "fold") => pc[w] = loops + 1
        /\ \A w \in Warps : At(w, "share") => pc[w] = loops + 2
        /\ \A w \in Warps : At(w, "barrier") => pc[w] = loops + 3
        /\ \A w \in Warps : At(w, "sum") => pc[w] = loops + 4
        /\ \A w \in Warps : At(w, "write") => pc[w] = loops + 5
        /\ \A w \in Warps : ~ At(w, "add") /\ ~ At(w, "store")
    BY SummingPlan
  <1>2. /\ \A w \in Warps \ {0} : IF pc[0] > loops + 3 THEN pc[w] = loops + 6 ELSE pc[w] <= loops + 3
        /\ \A w \in Warps : pc[w] > loops + 1 => regs[w] = Regs(w)
        /\ \A w \in Warps : pc[w] > loops + 2 => \A l \in lanes : shared[w][l] = Held(Piece(w), E)[l]
    <2>1. (loops + 5) + 1 = loops + 6
      BY <1>1
    <2> QED
      BY <1>1, <2>1 DEF SummingState, Left
  <1>3. pc[0] = loops + 6 => \A s \in Slots(kernel) : out[s] = SetToBag(Contributions)
    <2>1. (loops + 5) + 1 = loops + 6
      BY <1>1
    <2> QED
      BY <1>1, <2>1 DEF Written
  <1>4. ASSUME launch' = launch, kernel' = kernel,
               \A w \in Warps \ {0} : IF pc'[0] > loops + 3 THEN pc'[w] = loops + 6 ELSE pc'[w] <= loops + 3,
               \A w \in Warps : pc'[w] > loops + 1 => regs'[w] = Regs(w)',
               \A w \in Warps : pc'[w] > loops + 2 => \A l \in lanes : shared'[w][l] = Held(Piece(w)', E)[l],
               pc'[0] = loops + 6 => \A s \in Slots(kernel) : out'[s] = SetToBag(Contributions)
        PROVE  SummingState(loops, S, E)' /\ Written'
    <2>1. (loops + 5) + 1 = loops + 6
      BY <1>1
    <2>2. Warps' = Warps /\ Contributions' = Contributions /\ Slots(kernel)' = Slots(kernel)
      BY <1>4 DEF Warps, Contributions, Slots, Slot
    <2> QED
      BY <1>1, <1>4, <2>1, <2>2 DEF SummingState, Left, Written
  <1>5. ASSUME NEW w \in Warps, RunLoop(w) PROVE SummingState(loops, S, E)' /\ Written'
    <2>1. /\ pc[w] \in 1..loops /\ pc'[w] = pc[w] + 1 /\ UNCHANGED <<launch, kernel, shared, out>>
          /\ \A v \in Warps \ {w} : pc'[v] = pc[v] /\ pos'[v] = pos[v] /\ regs'[v] = regs[v]
          /\ \A v \in Warps \ {w} : Piece(v)' = Piece(v)
      BY <1>5, LoopStep
    <2>2. \A v \in Warps \ {0} : IF pc'[0] > loops + 3 THEN pc'[v] = loops + 6 ELSE pc'[v] <= loops + 3
      BY <1>1, <1>2, <2>1
    <2>3. Contributions' = Contributions
      BY <2>1 DEF Contributions
    <2>4. \A v \in Warps : pc'[v] > loops + 1 => v # w
      BY <1>1, <2>1
    <2>5. \A v \in Warps : pc'[v] > loops + 1 => regs'[v] = Regs(v)'
      <3> SUFFICES ASSUME NEW v \in Warps, pc'[v] > loops + 1
                   PROVE  regs'[v] = Regs(v)'
        OBVIOUS
      <3>1. v # w /\ regs'[v] = Regs(v) /\ Piece(v)' = Piece(v)
        BY <1>2, <2>1, <2>4
      <3> QED
        BY <1>1, <2>1, <2>3, <3>1
    <2>6. \A v \in Warps : pc'[v] > loops + 2 => \A l \in lanes : shared'[v][l] = Held(Piece(v)', E)[l]
      BY <1>1, <1>2, <2>1
    <2>7. pc'[0] = loops + 6 => \A s \in Slots(kernel) : out'[s] = SetToBag(Contributions)
      BY <1>1, <1>3, <2>1
    <2> HIDE DEF Regs, lanes
    <2> QED
      BY <1>4, <2>1, <2>2, <2>5, <2>6, <2>7
  <1>6. ASSUME NEW w \in Warps, FoldLanes(w) PROVE SummingState(loops, S, E)' /\ Written'
    <2>1. pc[w] = loops + 1 /\ UNCHANGED <<launch, kernel, pos, shared, out>>
      BY <1>1, <1>6 DEF FoldLanes
    <2>2. pc'[w] = loops + 2 /\ \A v \in Warps \ {w} : pc'[v] = pc[v]
      BY <1>1, <1>6, <2>1, Stepped DEF FoldLanes
    <2>3. \A v : Piece(v)' = Piece(v)
      BY <2>1 DEF Piece
    <2>4. regs'[w] = Held(Piece(w), E) /\ \A v \in Warps \ {w} : regs'[v] = regs[v]
      <3>1. regs[w] = Held(Piece(w), S)
        BY <2>1, AfterLoops
      <3>2. FoldsTo(kernel, pc[w], S, E)
        BY <2>1 DEF Summing
      <3> QED
        BY <1>6, <3>1, <3>2, FoldStep
    <2>5. \A v \in Warps \ {0} : IF pc'[0] > loops + 3 THEN pc'[v] = loops + 6 ELSE pc'[v] <= loops + 3
      BY <1>1, <1>2, <2>1, <2>2
    <2>6. Contributions' = Contributions
      BY <2>1 DEF Contributions
    <2>7. \A v \in Warps : pc'[v] > loops + 1 => regs'[v] = Regs(v)'
      <3> SUFFICES ASSUME NEW v \in Warps, pc'[v] > loops + 1
                   PROVE  regs'[v] = Regs(v)'
        OBVIOUS
      <3>1. CASE v = w
        BY <1>1, <2>2, <2>3, <2>4, <3>1
      <3>2. CASE v # w
        <4>1. regs'[v] = Regs(v) /\ (v = 0 => pc'[0] = pc[0])
          BY <1>2, <2>2, <2>4, <3>2
        <4> QED
          BY <2>3, <2>6, <4>1
      <3> QED
        BY <3>1, <3>2
    <2>8. \A v \in Warps : pc'[v] > loops + 2 => \A l \in lanes : shared'[v][l] = Held(Piece(v)', E)[l]
      BY <1>1, <1>2, <2>1, <2>2, <2>3
    <2>9. pc'[0] = loops + 6 => \A s \in Slots(kernel) : out'[s] = SetToBag(Contributions)
      BY <1>1, <1>3, <2>1, <2>2
    <2> HIDE DEF Regs, lanes
    <2> QED
      BY <1>4, <2>1, <2>5, <2>7, <2>8, <2>9
  <1>7. ASSUME NEW w \in Warps, ShareSums(w) PROVE SummingState(loops, S, E)' /\ Written'
    <2>1. pc[w] = loops + 2 /\ UNCHANGED <<launch, kernel, pos, regs, out>>
      BY <1>1, <1>7 DEF ShareSums
    <2>2. pc'[w] = loops + 3 /\ \A v \in Warps \ {w} : pc'[v] = pc[v]
      BY <1>1, <1>7, <2>1, Stepped DEF ShareSums
    <2>3. \A v : Piece(v)' = Piece(v)
      BY <2>1 DEF Piece
    <2>4. /\ \A v \in Warps \ {w} : shared'[v] = shared[v]
          /\ \A l \in lanes : shared'[w][l] = regs[w][l]
      <3>1. w \in kernel.prog[loops + 2].by /\ lanes \subseteq Lanes
        BY DEF Summing, Warps
      <3>2. shared' = [shared EXCEPT ![w] = [l \in Lanes |->
                          IF w \in kernel.prog[loops + 2].by /\ l \in lanes THEN regs[w][l] ELSE @[l]]]
        BY <1>7, <2>1 DEF ShareSums, Instruction
      <3> HIDE DEF lanes
      <3> QED
        BY <3>1, <3>2 DEF Ready, Types
    <2>5. \A v \in Warps \ {0} : IF pc'[0] > loops + 3 THEN pc'[v] = loops + 6 ELSE pc'[v] <= loops + 3
      BY <1>1, <1>2, <2>1, <2>2
    <2>6. Contributions' = Contributions
      BY <2>1 DEF Contributions
    <2>7. regs[w] = Held(Piece(w), E)
      BY <1>1, <1>2, <2>1
    <2>8. \A v \in Warps : pc'[v] > loops + 1 => regs'[v] = Regs(v)'
      <3> SUFFICES ASSUME NEW v \in Warps, pc'[v] > loops + 1
                   PROVE  regs'[v] = Regs(v)'
        OBVIOUS
      <3>1. CASE v = w
        BY <1>1, <2>1, <2>2, <2>3, <2>7, <3>1
      <3>2. CASE v # w
        <4>1. regs'[v] = Regs(v) /\ (v = 0 => pc'[0] = pc[0])
          BY <1>2, <2>1, <2>2, <3>2
        <4> QED
          BY <2>3, <2>6, <4>1
      <3> QED
        BY <3>1, <3>2
    <2>9. \A v \in Warps : pc'[v] > loops + 2 => \A l \in lanes : shared'[v][l] = Held(Piece(v)', E)[l]
      <3> SUFFICES ASSUME NEW v \in Warps, pc'[v] > loops + 2, NEW l \in lanes
                   PROVE  shared'[v][l] = Held(Piece(v)', E)[l]
        OBVIOUS
      <3>1. CASE v = w
        BY <2>3, <2>4, <2>7, <3>1
      <3>2. CASE v # w
        BY <1>2, <2>2, <2>3, <2>4, <3>2
      <3> QED
        BY <3>1, <3>2
    <2>10. pc'[0] = loops + 6 => \A s \in Slots(kernel) : out'[s] = SetToBag(Contributions)
      BY <1>1, <1>3, <2>1, <2>2
    <2> HIDE DEF Regs, lanes
    <2> QED
      BY <1>4, <2>1, <2>5, <2>8, <2>9, <2>10
  <1>8. ASSUME PassBarrier PROVE SummingState(loops, S, E)' /\ Written'
    <2>1. (\A w \in Warps : pc[w] = loops + 3) /\ UNCHANGED <<launch, kernel, pos, regs, shared, out>>
      BY <1>1, <1>8 DEF PassBarrier
    <2>2. pc'[0] = loops + 4 /\ \A w \in Warps \ {0} : pc'[w] = loops + 6
      BY <1>1, <1>8, <2>1 DEF PassBarrier
    <2>3. \A v : Piece(v)' = Piece(v)
      BY <2>1 DEF Piece
    <2>4. \A v \in Warps : regs[v] = Held(Piece(v), E)
      BY <1>1, <1>2, <2>1
    <2>5. \A v \in Warps : pc'[v] > loops + 1 => regs'[v] = Regs(v)'
      <3>1. \A v \in Warps : Regs(v)' = Held(Piece(v)', E)
        BY <1>1, <2>2
      <3> QED
        BY <2>1, <2>3, <2>4, <3>1
    <2>6. \A v \in Warps : pc'[v] > loops + 2 => \A l \in lanes : shared'[v][l] = Held(Piece(v)', E)[l]
      BY <1>1, <1>2, <2>1, <2>3
    <2>7. \A v \in Warps \ {0} : IF pc'[0] > loops + 3 THEN pc'[v] = loops + 6 ELSE pc'[v] <= loops + 3
      BY <1>1, <2>2
    <2>8. pc'[0] # loops + 6
      BY <1>1, <2>2
    <2> HIDE DEF Regs, lanes
    <2> QED
      BY <1>4, <2>1, <2>5, <2>6, <2>7, <2>8
  <1>9. \A w \in Warps : At(w, "sum") \/ At(w, "write") => w = 0
    BY <1>1, <1>2
  <1>10. ASSUME SumShared(0) PROVE SummingState(loops, S, E)' /\ Written'
    <2>1. pc[0] = loops + 4 /\ UNCHANGED <<launch, kernel, pos, shared, out>>
      BY <1>1, <1>10 DEF SumShared
    <2>2. pc'[0] = loops + 5 /\ \A v \in Warps \ {0} : pc'[v] = pc[v]
      BY <1>1, <1>10, <2>1, Stepped DEF SumShared
    <2>3. \A v : Piece(v)' = Piece(v)
      BY <2>1 DEF Piece
    <2>4. \A v \in Warps : pc[v] > loops + 3
      BY <1>1, <1>2, <2>1
    <2> DEFINE partials == [wl \in Warps \X lanes |-> shared[wl[1]][wl[2]]]
    <2>5. ~ NoChunk(0)
      <3> SUFFICES ASSUME kernel.split = "chunk"
                   PROVE  FirstBlock(kernel, launch.n, 0, 0) # LastBlock(kernel, launch.n, 0)
        BY DEF NoChunk
      <3>1. launch.n \in Nat /\ launch.n >= kernel.warps /\ kernel.warps \in {2, 4}
        BY ReadyTypes DEF Ready, Types, Shape
      <3>2. FirstBlock(kernel, launch.n, 0, 0) = 0 /\ LastBlock(kernel, launch.n, 0) = launch.n \div kernel.warps
        BY <3>1 DEF FirstBlock, LastBlock
      <3>3. launch.n \div kernel.warps >= 1
        <4>1. CASE kernel.warps = 2
          BY <3>1, <4>1
        <4>2. CASE kernel.warps = 4
          BY <3>1, <4>2
        <4> QED
          BY <3>1, <4>1, <4>2
      <3> QED
        BY <3>1, <3>2, <3>3
    <2>6. BagSum(partials, Warps \X lanes) = SetToBag(Contributions)
      <3>1. \A wl \in Warps \X lanes : partials[wl] = Held(Piece(wl[1]), E)[wl[2]]
        BY <1>1, <1>2, <2>4
      <3>2. /\ Slots(kernel) = {0} /\ lanes \in SUBSET Lanes /\ UNION {E[l] : l \in lanes} = Lanes
            /\ \A l, r \in lanes : l # r => E[l] \cap E[r] = {}
        BY DEF Summing
      <3>3. \A w \in Warps : pc[w] > loops
        BY <1>1, <2>4
      <3> HIDE DEF lanes, partials
      <3> QED
        BY <3>1, <3>2, <3>3, PartialsTotal
    <2>7. regs' = [regs EXCEPT ![0][0] = SetToBag(Contributions)]
      <3>1. kernel.prog[loops + 4].lanes = lanes
        BY DEF Summing
      <3>2. DOMAIN partials = Warps \X lanes
        OBVIOUS
      <3>3. regs' = [regs EXCEPT ![0][0] = IF NoChunk(0) THEN EmptyBag ELSE BagSum(partials, DOMAIN partials)]
        BY <1>10, <2>1, <3>1 DEF SumShared, Instruction
      <3> HIDE DEF partials, lanes
      <3> QED
        BY <2>5, <2>6, <3>2, <3>3
    <2>8. regs'[0] = Total /\ \A v \in Warps \ {0} : regs'[v] = regs[v]
      <3>1. regs[0] = Held(Piece(0), E)
        BY <1>1, <1>2, <2>1
      <3> QED
        BY <1>1, <2>7, <3>1 DEF Ready, Types
    <2>9. Contributions' = Contributions
      BY <2>1 DEF Contributions
    <2>10. Total' = Total
      BY <2>3, <2>9
    <2>11. \A v \in Warps : pc'[v] > loops + 1 => regs'[v] = Regs(v)'
      <3> SUFFICES ASSUME NEW v \in Warps, pc'[v] > loops + 1
                   PROVE  regs'[v] = Regs(v)'
        OBVIOUS
      <3>1. CASE v = 0
        BY <1>1, <2>2, <2>8, <2>10, <3>1
      <3>2. CASE v # 0
        <4>1. regs'[v] = Held(Piece(v), E)
          BY <1>2, <2>2, <2>8, <3>2
        <4> QED
          BY <2>3, <3>2, <4>1
      <3> QED
        BY <3>1, <3>2
    <2>12. \A v \in Warps : pc'[v] > loops + 2 => \A l \in lanes : shared'[v][l] = Held(Piece(v)', E)[l]
      BY <1>1, <1>2, <2>1, <2>3, <2>4
    <2>13. \A v \in Warps \ {0} : IF pc'[0] > loops + 3 THEN pc'[v] = loops + 6 ELSE pc'[v] <= loops + 3
      BY <1>1, <1>2, <2>1, <2>2
    <2>14. pc'[0] # loops + 6
      BY <1>1, <2>2
    <2> HIDE DEF Regs, lanes
    <2> QED
      BY <1>4, <2>1, <2>11, <2>12, <2>13, <2>14
  <1>11. ASSUME WriteRows(0) PROVE SummingState(loops, S, E)' /\ Written'
    <2>1. pc[0] = loops + 5 /\ UNCHANGED <<launch, kernel, pos, regs, shared>>
      BY <1>1, <1>11 DEF WriteRows
    <2>2. pc'[0] = loops + 6 /\ \A v \in Warps \ {0} : pc'[v] = pc[v]
      BY <1>1, <1>11, <2>1, Stepped DEF WriteRows
    <2>3. (\A v : Piece(v)' = Piece(v)) /\ Contributions' = Contributions
      BY <2>1 DEF Piece, Contributions
    <2>4. regs[0] = Total
      BY <1>1, <1>2, <2>1
    <2>5. \A v \in Warps : pc'[v] > loops + 1 => regs'[v] = Regs(v)'
      <3> SUFFICES ASSUME NEW v \in Warps, pc'[v] > loops + 1
                   PROVE  regs'[v] = Regs(v)'
        OBVIOUS
      <3>1. CASE v = 0
        BY <1>1, <2>1, <2>2, <2>3, <2>4, <3>1
      <3>2. CASE v # 0
        <4>1. regs'[v] = Held(Piece(v), E)
          BY <1>2, <2>1, <2>2, <3>2
        <4> QED
          BY <2>3, <3>2, <4>1
      <3> QED
        BY <3>1, <3>2
    <2>6. \A v \in Warps : pc'[v] > loops + 2 => \A l \in lanes : shared'[v][l] = Held(Piece(v)', E)[l]
      BY <1>1, <1>2, <2>1, <2>2, <2>3
    <2>7. \A v \in Warps \ {0} : IF pc'[0] > loops + 3 THEN pc'[v] = loops + 6 ELSE pc'[v] <= loops + 3
      BY <1>1, <1>2, <2>1, <2>2
    <2>8. \A s \in Slots(kernel) : out'[s] = SetToBag(Contributions)
      <3>1. kernel.prog[loops + 5].lanes = {0}
        BY DEF Summing
      <3>2. \A s \in Slots(kernel) : out'[s] = regs[0][0]
        BY <1>11, <2>1, <3>1 DEF WriteRows, Instruction
      <3>3. regs[0][0] = SetToBag(Contributions)
        BY <2>4 DEF Held, Lanes
      <3> QED
        BY <3>2, <3>3
    <2> HIDE DEF Regs, lanes
    <2> QED
      BY <1>4, <2>1, <2>5, <2>6, <2>7, <2>8
  <1>12. ASSUME UNCHANGED vars PROVE SummingState(loops, S, E)' /\ Written'
    BY <1>12 DEF vars, SummingState, Left, Written, Piece, Contributions, Slots, Slot, Warps
  <1>13. \A w \in Warps : ~ AddShared(w) /\ ~ StoreColumns(w)
                          /\ (SumShared(w) => w = 0) /\ (WriteRows(w) => w = 0)
    BY <1>1, <1>9 DEF AddShared, StoreColumns, SumShared, WriteRows
  <1> QED
    BY <1>5, <1>6, <1>7, <1>8, <1>10, <1>11, <1>12, <1>13 DEF Next, Rest

-----------------------------------------------------------------------------
(* Warp 0 adds what warp 1 has shared, lane by lane.                       *)
LEMMA PiecesOfTwo ==
    ASSUME NEW loops, NEW S, Ready(loops, S), Slots(kernel) = {0}, kernel.warps = 2
    PROVE  /\ \A m \in Lanes : Pieces[m] = Piece(0)[m] \cup Piece(1)[m]
           /\ Apart(Pieces, 32)
           /\ \A l \in Lanes : Held(Piece(0), S)[l] (+) Held(Piece(1), S)[l] = Held(Pieces, S)[l]
  <1>1. Warps = {0, 1}
    BY DEF Warps
  <1>2. \A m \in Lanes : Pieces[m] = Piece(0)[m] \cup Piece(1)[m]
    BY <1>1 DEF Pieces
  <1>3. \A m, r \in Lanes : Piece(0)[m] \cap Piece(1)[r] = {} /\ Piece(1)[m] \cap Piece(0)[r] = {}
    BY <1>1, WholesApart
  <1>4. Apart(Pieces, 32)
    <2>1. Apart(Piece(0), 32) /\ Apart(Piece(1), 32)
      BY <1>1, LanesApart DEF Piece, Ready, Warps
    <2>2. ASSUME NEW m \in Lanes, NEW q \in Lanes, m # q
          PROVE  Pieces[m] \cap Pieces[q] = {}
      <3>1. Piece(0)[m] \cap Piece(0)[q] = {} /\ Piece(1)[m] \cap Piece(1)[q] = {}
        BY <2>1, <2>2 DEF Apart, Lanes
      <3> QED
        BY <1>2, <1>3, <3>1
    <2> QED
      BY <2>2 DEF Apart
  <1>5. ASSUME NEW l \in Lanes
        PROVE  Held(Piece(0), S)[l] (+) Held(Piece(1), S)[l] = Held(Pieces, S)[l]
    <2> DEFINE A == UNION {Piece(0)[m] : m \in S[l]}
               B == UNION {Piece(1)[m] : m \in S[l]}
    <2>1. S[l] \subseteq Lanes
      BY MapsType DEF Ready
    <2>2. /\ Held(Piece(0), S)[l] = SetToBag(A) /\ Held(Piece(1), S)[l] = SetToBag(B)
          /\ Held(Pieces, S)[l] = SetToBag(UNION {Pieces[m] : m \in S[l]})
      BY DEF Held
    <2>3. A \cap B = {}
      BY <1>3, <2>1
    <2>4. UNION {Pieces[m] : m \in S[l]} = A \cup B
      BY <1>2, <2>1
    <2> HIDE DEF A, B
    <2> QED
      BY <2>2, <2>3, <2>4, JoinSets
  <1> QED
    BY <1>2, <1>4, <1>5

\* The instructions of a kernel whose first warp adds the other's sums.
LEMMA AddingPlan ==
    ASSUME NEW loops, NEW S, Ready(loops, S), NEW E, Adding(kernel, loops, S, E)
    PROVE  /\ Len(kernel.prog) = loops + 5 /\ loops \in 1..3 /\ Warps = {0, 1}
           /\ \A w \in Warps : pc[w] \in 1..(loops + 6)
           /\ \A w \in Warps : At(w, "share") => pc[w] = loops + 1
           /\ \A w \in Warps : At(w, "barrier") => pc[w] = loops + 2
           /\ \A w \in Warps : At(w, "add") => pc[w] = loops + 3
           /\ \A w \in Warps : At(w, "fold") => pc[w] = loops + 4
           /\ \A w \in Warps : At(w, "write") => pc[w] = loops + 5
           /\ \A w \in Warps : ~ At(w, "sum") /\ ~ At(w, "store")
  <1>1. /\ Len(kernel.prog) = loops + 5 /\ loops \in 1..3 /\ Warps = {0, 1}
        /\ \A w \in Warps : pc[w] \in 1..(loops + 6)
    <2>1. PICK n : n = Len(kernel.prog)
      OBVIOUS
    <2>2. n = loops + 5 /\ loops \in 1..3 /\ \A w \in Warps : pc[w] \in 1..(n + 1)
      BY <2>1, ReadyTypes DEF Adding
    <2>3. Warps = {0, 1}
      BY DEF Adding, Warps
    <2> QED
      BY <2>1, <2>2, <2>3
  <1>2. \A w \in Warps : \A op : op # "loop" /\ At(w, op) =>
           pc[w] \in (loops + 1)..(loops + 5) /\ kernel.prog[pc[w]].op = op
    BY <1>1, PastLoops DEF Ready
  <1>3. /\ kernel.prog[loops + 1].op = "share" /\ kernel.prog[loops + 2].op = "barrier"
        /\ kernel.prog[loops + 3].op = "add" /\ kernel.prog[loops + 4].op = "fold"
        /\ kernel.prog[loops + 5].op = "write"
    BY DEF Adding, FoldsTo, Share
  <1>4. \A i \in (loops + 1)..(loops + 5) :
           i = loops + 1 \/ i = loops + 2 \/ i = loops + 3 \/ i = loops + 4 \/ i = loops + 5
    BY <1>1
  <1>5. ASSUME NEW w \in Warps, NEW op, op # "loop", At(w, op)
        PROVE  \/ pc[w] = loops + 1 /\ op = "share"
               \/ pc[w] = loops + 2 /\ op = "barrier"
               \/ pc[w] = loops + 3 /\ op = "add"
               \/ pc[w] = loops + 4 /\ op = "fold"
               \/ pc[w] = loops + 5 /\ op = "write"
    BY <1>2, <1>3, <1>4, <1>5
  <1> QED
    BY <1>1, <1>5

\* Those kernels keep their part of the invariant.
LEMMA AddingKept ==
    ASSUME NEW loops, NEW S \in Maps, Ready(loops, S), NEW E \in Maps, Adding(kernel, loops, S, E),
           AddingState(loops, S, E), Written, Next \/ UNCHANGED vars
    PROVE  AddingState(loops, S, E)' /\ Written'
  <1>1. /\ Len(kernel.prog) = loops + 5 /\ loops \in 1..3 /\ Warps = {0, 1}
        /\ \A w \in Warps : pc[w] \in 1..(loops + 6)
        /\ \A w \in Warps : At(w, "share") => pc[w] = loops + 1
        /\ \A w \in Warps : At(w, "barrier") => pc[w] = loops + 2
        /\ \A w \in Warps : At(w, "add") => pc[w] = loops + 3
        /\ \A w \in Warps : At(w, "fold") => pc[w] = loops + 4
        /\ \A w \in Warps : At(w, "write") => pc[w] = loops + 5
        /\ \A w \in Warps : ~ At(w, "sum") /\ ~ At(w, "store")
    BY AddingPlan
  <1>2. /\ IF pc[0] > loops + 2 THEN pc[1] = loops + 6 ELSE pc[1] <= loops + 2
        /\ pc[1] > loops + 1 => regs[1] = Held(Piece(1), S) /\ shared[1] = Held(Piece(1), S)
        /\ pc[0] \in {loops + 2, loops + 3} => regs[0] = Held(Piece(0), S)
        /\ pc[0] = loops + 4 => regs[0] = Held(Pieces, S)
        /\ pc[0] > loops + 4 => regs[0] = Held(Pieces, E)
        /\ pc[0] = loops + 6 => \A s \in Slots(kernel) : out[s] = SetToBag(Contributions)
    <2>1. (loops + 5) + 1 = loops + 6
      BY <1>1
    <2> QED
      BY <1>1, <2>1 DEF AddingState, Left, Written
  <1>3. ASSUME launch' = launch, kernel' = kernel,
               IF pc'[0] > loops + 2 THEN pc'[1] = loops + 6 ELSE pc'[1] <= loops + 2,
               pc'[1] > loops + 1 => regs'[1] = Held(Piece(1)', S) /\ shared'[1] = Held(Piece(1)', S),
               pc'[0] \in {loops + 2, loops + 3} => regs'[0] = Held(Piece(0)', S),
               pc'[0] = loops + 4 => regs'[0] = Held(Pieces', S),
               pc'[0] > loops + 4 => regs'[0] = Held(Pieces', E),
               pc'[0] = loops + 6 => \A s \in Slots(kernel) : out'[s] = SetToBag(Contributions)
        PROVE  AddingState(loops, S, E)' /\ Written'
    <2>1. (loops + 5) + 1 = loops + 6
      BY <1>1
    <2>2. Warps' = Warps /\ Contributions' = Contributions /\ Slots(kernel)' = Slots(kernel)
      BY <1>3 DEF Warps, Contributions, Slots, Slot
    <2> QED
      BY <1>1, <1>3, <2>1, <2>2 DEF AddingState, Left, Written
  <1>4. ASSUME UNCHANGED <<launch, kernel, pos>>
        PROVE  (\A v : Piece(v)' = Piece(v)) /\ Pieces' = Pieces
    BY <1>4 DEF Piece, Pieces, Warps
  <1>5. /\ \A m \in Lanes : Pieces[m] = Piece(0)[m] \cup Piece(1)[m]
        /\ Apart(Pieces, 32)
        /\ \A l \in Lanes : Held(Piece(0), S)[l] (+) Held(Piece(1), S)[l] = Held(Pieces, S)[l]
    BY PiecesOfTwo DEF Adding
  <1>6. ASSUME NEW w \in Warps, RunLoop(w) PROVE AddingState(loops, S, E)' /\ Written'
    <2>1. /\ pc[w] \in 1..loops /\ pc'[w] = pc[w] + 1 /\ UNCHANGED <<launch, kernel, shared, out>>
          /\ \A v \in Warps \ {w} : pc'[v] = pc[v] /\ pos'[v] = pos[v] /\ regs'[v] = regs[v]
          /\ \A v \in Warps \ {w} : Piece(v)' = Piece(v)
      BY <1>6, LoopStep
    <2>2. CASE w = 0
      BY <1>1, <1>2, <1>3, <2>1, <2>2
    <2>3. CASE w = 1
      BY <1>1, <1>2, <1>3, <2>1, <2>3
    <2> QED
      BY <1>1, <2>2, <2>3
  <1>7. ASSUME NEW w \in Warps, ShareSums(w) PROVE AddingState(loops, S, E)' /\ Written'
    <2>1. pc[w] = loops + 1 /\ UNCHANGED <<launch, kernel, pos, regs, out>>
      BY <1>1, <1>7 DEF ShareSums
    <2>2. pc'[w] = loops + 2 /\ \A v \in Warps \ {w} : pc'[v] = pc[v]
      BY <1>1, <1>7, <2>1, Stepped DEF ShareSums
    <2>3. regs[w] = Held(Piece(w), S)
      BY <2>1, AfterLoops
    <2>4. /\ \A v \in Warps \ {w} : shared'[v] = shared[v]
          /\ w = 1 => shared'[1] = [l \in Lanes |-> regs[1][l]]
      <3>1. kernel.prog[loops + 1].by = {1} /\ kernel.prog[loops + 1].lanes = Lanes
        BY DEF Adding, Share
      <3>2. shared' = [shared EXCEPT ![w] = [l \in Lanes |->
                          IF w \in {1} /\ l \in Lanes THEN regs[w][l] ELSE @[l]]]
        BY <1>7, <2>1, <3>1 DEF ShareSums, Instruction
      <3> QED
        BY <3>2 DEF Ready, Types
    <2>5. w = 1 => shared'[1] = Held(Piece(1), S)
      BY <2>3, <2>4 DEF Held
    <2>6. (\A v : Piece(v)' = Piece(v)) /\ Pieces' = Pieces
      BY <1>4, <2>1
    <2>7. CASE w = 0
      BY <1>1, <1>2, <1>3, <2>1, <2>2, <2>3, <2>4, <2>6, <2>7
    <2>8. CASE w = 1
      BY <1>1, <1>2, <1>3, <2>1, <2>2, <2>3, <2>5, <2>6, <2>8
    <2> QED
      BY <1>1, <2>7, <2>8
  <1>8. ASSUME PassBarrier PROVE AddingState(loops, S, E)' /\ Written'
    <2>1. pc[0] = loops + 2 /\ pc[1] = loops + 2 /\ UNCHANGED <<launch, kernel, pos, regs, shared, out>>
      BY <1>1, <1>8 DEF PassBarrier
    <2>2. pc'[0] = loops + 3 /\ pc'[1] = loops + 6
      BY <1>1, <1>8, <2>1 DEF PassBarrier
    <2>3. (\A v : Piece(v)' = Piece(v)) /\ Pieces' = Pieces
      BY <1>4, <2>1
    <2> QED
      BY <1>1, <1>2, <1>3, <2>1, <2>2, <2>3
  <1>9. \A w \in Warps : (AddShared(w) => w = 0) /\ (FoldLanes(w) => w = 0) /\ (WriteRows(w) => w = 0)
                         /\ ~ SumShared(w) /\ ~ StoreColumns(w)
    <2>1. \A w \in Warps : At(w, "add") \/ At(w, "fold") \/ At(w, "write") => w = 0
      BY <1>1, <1>2
    <2> QED
      BY <1>1, <2>1 DEF AddShared, FoldLanes, WriteRows, SumShared, StoreColumns
  <1>10. ASSUME AddShared(0) PROVE AddingState(loops, S, E)' /\ Written'
    <2>1. pc[0] = loops + 3 /\ UNCHANGED <<launch, kernel, pos, shared, out>>
      BY <1>1, <1>10 DEF AddShared
    <2>2. pc'[0] = loops + 4 /\ pc'[1] = pc[1]
      BY <1>1, <1>10, <2>1, Stepped DEF AddShared
    <2>3. (\A v : Piece(v)' = Piece(v)) /\ Pieces' = Pieces
      BY <1>4, <2>1
    <2>4. regs' = [regs EXCEPT ![0] = [l \in Lanes |-> regs[0][l] (+) shared[1][l]]]
      BY <1>10 DEF AddShared
    <2>5. regs'[0] = [l \in Lanes |-> regs[0][l] (+) shared[1][l]] /\ regs'[1] = regs[1]
      BY <1>1, <2>4 DEF Ready, Types
    <2>6. regs[0] = Held(Piece(0), S) /\ shared[1] = Held(Piece(1), S) /\ pc[1] = loops + 6
      BY <1>1, <1>2, <2>1
    <2>7. regs'[0] = Held(Pieces, S)
      <3>1. \A l \in Lanes : regs[0][l] (+) shared[1][l] = Held(Pieces, S)[l]
        BY <1>5, <2>6
      <3>2. Held(Pieces, S) = [l \in Lanes |-> Held(Pieces, S)[l]]
        BY DEF Held
      <3> QED
        BY <2>5, <3>1, <3>2
    <2> QED
      BY <1>1, <1>2, <1>3, <2>1, <2>2, <2>3, <2>5, <2>6, <2>7
  <1>11. ASSUME FoldLanes(0) PROVE AddingState(loops, S, E)' /\ Written'
    <2>1. pc[0] = loops + 4 /\ UNCHANGED <<launch, kernel, pos, shared, out>>
      BY <1>1, <1>11 DEF FoldLanes
    <2>2. pc'[0] = loops + 5 /\ pc'[1] = pc[1]
      BY <1>1, <1>11, <2>1, Stepped DEF FoldLanes
    <2>3. (\A v : Piece(v)' = Piece(v)) /\ Pieces' = Pieces
      BY <1>4, <2>1
    <2>4. regs'[0] = FoldLeft(Butterfly, regs[0], kernel.prog[loops + 4].offs) /\ regs'[1] = regs[1]
      BY <1>1, <1>11, <2>1 DEF FoldLanes, Instruction, Ready, Types
    <2>5. regs[0] = Held(Pieces, S)
      BY <1>2, <2>1
    <2>6. FoldLeft(Butterfly, Held(Pieces, S), kernel.prog[loops + 4].offs) = Held(Pieces, E)
      <3>1. Span(kernel) \in Nat
        BY DEF Ready, Shape, Span
      <3>2. Apart(Pieces, Span(kernel))
        BY <1>5, <3>1, WideApart
      <3>3. FoldsTo(kernel, loops + 4, S, E) /\ Shape(kernel)
        BY DEF Adding, Ready
      <3> QED
        BY <3>2, <3>3, FoldHeld
    <2>7. regs'[0] = Held(Pieces, E)
      BY <2>4, <2>5, <2>6
    <2> QED
      BY <1>1, <1>2, <1>3, <2>1, <2>2, <2>3, <2>4, <2>7
  <1>12. ASSUME WriteRows(0) PROVE AddingState(loops, S, E)' /\ Written'
    <2>1. pc[0] = loops + 5 /\ UNCHANGED <<launch, kernel, pos, regs, shared>>
      BY <1>1, <1>12 DEF WriteRows
    <2>2. pc'[0] = loops + 6 /\ pc'[1] = pc[1]
      BY <1>1, <1>12, <2>1, Stepped DEF WriteRows
    <2>3. (\A v : Piece(v)' = Piece(v)) /\ Pieces' = Pieces
      BY <1>4, <2>1
    <2>4. \A s \in Slots(kernel) : out'[s] = regs[0][0]
      <3>1. kernel.prog[loops + 5].lanes = {0}
        BY DEF Adding
      <3> QED
        BY <1>12, <2>1, <3>1 DEF WriteRows, Instruction
    <2>5. regs[0][0] = SetToBag(Contributions)
      <3>1. regs[0] = Held(Pieces, E) /\ 0 \in Lanes /\ E[0] = Lanes
        BY <1>1, <1>2, <2>1 DEF Adding, Lanes
      <3>2. \A w \in Warps : pc[w] > loops
        BY <1>1, <1>2, <2>1
      <3>3. UNION {Whole(w) : w \in Warps} = Contributions
        BY <3>2, WarpsHoldRow DEF Adding
      <3>4. UNION {Pieces[m] : m \in Lanes} = UNION {Whole(w) : w \in Warps}
        <4>1. Whole(0) = UNION {Piece(0)[m] : m \in Lanes} /\ Whole(1) = UNION {Piece(1)[m] : m \in Lanes}
          BY DEF Whole
        <4> QED
          BY <1>1, <1>5, <4>1
      <3> QED
        BY <3>1, <3>3, <3>4 DEF Held
    <2>6. \A s \in Slots(kernel) : out'[s] = SetToBag(Contributions)
      BY <2>4, <2>5
    <2> QED
      BY <1>1, <1>2, <1>3, <2>1, <2>2, <2>3, <2>6
  <1>13. ASSUME UNCHANGED vars PROVE AddingState(loops, S, E)' /\ Written'
    <2>1. (\A v : Piece(v)' = Piece(v)) /\ Pieces' = Pieces
      BY <1>4, <1>13 DEF vars
    <2> QED
      BY <1>2, <1>3, <1>13, <2>1 DEF vars
  <1> QED
    BY <1>6, <1>7, <1>8, <1>9, <1>10, <1>11, <1>12, <1>13 DEF Next, Rest

-----------------------------------------------------------------------------
(* The invariant is kept.                                                  *)
LEMMA SameLaunch == ASSUME Next \/ UNCHANGED vars PROVE launch' = launch /\ kernel' = kernel
  BY DEF Next, RunLoop, FoldLanes, ShareSums, PassBarrier, AddShared, SumShared, WriteRows, StoreColumns,
         Rest, vars

\* Every step keeps the invariant.
LEMMA InvKept == ASSUME Inv, Next \/ UNCHANGED vars PROVE Inv'
  <1>1. PICK loops \in 1..3, S \in Maps, E \in Maps : Plan(kernel, loops, S, E) /\ State(loops, S, E)
    BY DEF Inv
  <1>2. Ready(loops, S)
    BY <1>1 DEF Inv, Plan, State, Ready
  <1>3. Types' /\ LoopState(loops, S)'
    BY <1>2, LoopStateKept
  <1>4. launch' = launch /\ kernel' = kernel
    BY SameLaunch
  <1>5. CASE Storing(kernel, loops, S, E)
    <2>1. StoringState(loops, S, E)'
      BY <1>1, <1>2, <1>5, StoringKept DEF State
    <2>2. kernel.prog[Len(kernel.prog)].op = "store"
      BY <1>5 DEF Storing
    <2>3. State(loops, S, E)'
      BY <1>3, <1>4, <2>1, <2>2 DEF State, Writing, Summing, Adding
    <2> QED
      BY <1>1, <1>3, <1>4, <2>3 DEF Inv
  <1>6. CASE ~ Storing(kernel, loops, S, E)
    <2>1. kernel.prog[Len(kernel.prog)].op = "write"
      <3>1. CASE Writing(kernel, loops, S, E)
        BY <3>1 DEF Writing
      <3>2. CASE Summing(kernel, loops, S, E)
        BY <3>2 DEF Summing
      <3>3. CASE Adding(kernel, loops, S, E)
        BY <3>3 DEF Adding
      <3> QED
        BY <1>1, <1>6, <3>1, <3>2, <3>3 DEF Plan
    <2>2. Written
      BY <1>1, <2>1 DEF State
    <2>3. Writing(kernel, loops, S, E) => WritingState(loops, S, E)' /\ Written'
      BY <1>1, <1>2, <2>2, WritingKept DEF State
    <2>4. Summing(kernel, loops, S, E) => SummingState(loops, S, E)' /\ Written'
      BY <1>1, <1>2, <2>2, SummingKept DEF State
    <2>5. Adding(kernel, loops, S, E) => AddingState(loops, S, E)' /\ Written'
      BY <1>1, <1>2, <2>2, AddingKept DEF State
    <2>6. Written'
      BY <1>1, <1>6, <2>3, <2>4, <2>5 DEF Plan
    <2>7. State(loops, S, E)'
      BY <1>3, <1>4, <1>6, <2>3, <2>4, <2>5, <2>6 DEF State
    <2> QED
      BY <1>1, <1>3, <1>4, <2>7 DEF Inv
  <1> QED
    BY <1>5, <1>6

-----------------------------------------------------------------------------
(* What the invariant says.                                                *)

\* No lane reads a block that is not its row's.
LEMMA InvOwnBlocks == ASSUME Inv PROVE OwnBlocks
  <1>1. PICK loops \in 1..3, S \in Maps, E \in Maps : Plan(kernel, loops, S, E) /\ State(loops, S, E)
    BY DEF Inv
  <1>2. Ready(loops, S)
    BY <1>1 DEF Inv, Plan, State, Ready
  <1>3. \A w \in Warps, m \in Lanes : Piece(w)[m] \subseteq Contributions
    <2> SUFFICES ASSUME NEW w \in Warps, NEW m \in Lanes
                 PROVE  Piece(w)[m] \subseteq Contributions
      OBVIOUS
    <2>1. /\ Shape(kernel) /\ launch.n \in Nat /\ w \in 0..(kernel.warps - 1)
          /\ AllReached(kernel, launch.n, w, pos[w]) /\ \A g \in Groups(kernel) : pos[w][g] \in Nat
      BY <1>2, ReadyTypes DEF Ready, Warps
    <2>2. PieceOf(kernel, launch.n, w, pos[w])[m] \subseteq (0..(launch.n - 1)) \X (0..(kernel.group - 1))
      BY <2>1, PieceWithin
    <2> QED
      BY <2>2 DEF Piece, Contributions
  <1>4. \A m \in Lanes : Pieces[m] \subseteq Contributions
    BY <1>3 DEF Pieces
  <1> DEFINE Inside(P) == \A m \in Lanes : P[m] \subseteq Contributions
             Good(bags) == \A l \in Lanes : DOMAIN bags[l] \subseteq Contributions
  <1>5. ASSUME NEW P, Inside(P), NEW M \in Maps
        PROVE  Good(Held(P, M))
    <2> SUFFICES ASSUME NEW l \in Lanes
                 PROVE  DOMAIN Held(P, M)[l] \subseteq Contributions
      OBVIOUS
    <2>1. M[l] \subseteq Lanes
      BY MapsType
    <2>2. Held(P, M)[l] = SetToBag(UNION {P[m] : m \in M[l]})
      BY DEF Held
    <2>3. DOMAIN Held(P, M)[l] = UNION {P[m] : m \in M[l]}
      BY <2>2 DEF SetToBag
    <2> QED
      BY <1>5, <2>1, <2>3
  <1>6. (\A w \in Warps : Inside(Piece(w))) /\ Inside(Pieces)
    BY <1>3, <1>4
  <1> HIDE DEF Inside
  <1>7. /\ \A w \in Warps : Good(Held(Piece(w), S)) /\ Good(Held(Piece(w), E))
        /\ Good(Held(Pieces, S)) /\ Good(Held(Pieces, E))
    BY <1>5, <1>6
  <1>8. Good([Held(Piece(0), E) EXCEPT ![0] = SetToBag(Contributions)])
    <2>1. DOMAIN SetToBag(Contributions) = Contributions
      BY DEF SetToBag
    <2>2. Good(Held(Piece(0), E)) /\ DOMAIN Held(Piece(0), E) = Lanes
      BY <1>2, <1>7, ReadyTypes DEF Held
    <2> QED
      BY <2>1, <2>2
  <1> HIDE DEF Good
  <1>9. \A w \in Warps : Good(regs[w])
    <2> SUFFICES ASSUME NEW w \in Warps
                 PROVE  Good(regs[w])
      OBVIOUS
    <2>1. PICK n : n = Len(kernel.prog)
      OBVIOUS
    <2>2. n \in Nat /\ loops \in 1..3 /\ loops < n /\ pc[w] \in 1..(n + 1)
      BY <1>2, <2>1, ReadyTypes
    <2>3. CASE pc[w] <= loops + 1
      <3>1. regs[w] = Held(Piece(w), S)
        BY <1>1, <2>3 DEF State, LoopState
      <3> QED
        BY <1>7, <3>1
    <2>4. CASE pc[w] > loops + 1 /\ Writing(kernel, loops, S, E)
      <3>1. w = 0
        BY <2>4 DEF Writing, Warps
      <3>2. regs[w] = Held(Piece(w), E)
        BY <1>1, <2>4, <3>1 DEF State, WritingState
      <3> QED
        BY <1>7, <3>2
    <2>5. CASE Storing(kernel, loops, S, E)
      <3>1. regs[w] = Held(Piece(w), S)
        BY <1>1, <2>5 DEF State, StoringState, Storing
      <3> QED
        BY <1>7, <3>1
    <2>6. CASE pc[w] > loops + 1 /\ Summing(kernel, loops, S, E)
      <3>1. regs[w] \in {Held(Piece(w), E), [Held(Piece(0), E) EXCEPT ![0] = SetToBag(Contributions)]}
        BY <1>1, <2>6 DEF State, SummingState
      <3> QED
        BY <1>7, <1>8, <3>1
    <2>7. CASE pc[w] > loops + 1 /\ Adding(kernel, loops, S, E)
      <3>1. w \in {0, 1}
        BY <2>7 DEF Adding, Warps
      <3>2. CASE w = 1
        <4>1. regs[w] = Held(Piece(w), S)
          BY <1>1, <2>7, <3>2 DEF State, AddingState
        <4> QED
          BY <1>7, <4>1
      <3>3. CASE w = 0
        <4>1. pc[0] \in {loops + 2, loops + 3} \/ pc[0] = loops + 4 \/ pc[0] > loops + 4
          BY <2>2, <2>7, <3>3
        <4>2. regs[w] \in {Held(Piece(w), S), Held(Pieces, S), Held(Pieces, E)}
          BY <1>1, <2>7, <3>3, <4>1 DEF State, AddingState
        <4> QED
          BY <1>7, <4>2
      <3> QED
        BY <3>1, <3>2, <3>3
    <2> QED
      BY <1>1, <2>2, <2>3, <2>4, <2>5, <2>6, <2>7 DEF Plan
  <1> QED
    BY <1>9 DEF OwnBlocks, Good

\* The invariant gives the types.
LEMMA InvTypeOK == ASSUME Inv PROVE TypeOK
  BY InvOwnBlocks DEF Inv, Types, TypeOK, Launches

\* What is written or stored in the end is the row.
LEMMA InvRowComplete == ASSUME Inv PROVE RowComplete
  <1> SUFFICES ASSUME Finished, NEW s \in Slots(kernel)
               PROVE  out[s] = SetToBag(Contributions)
    BY DEF RowComplete
  <1>1. PICK loops \in 1..3, S \in Maps, E \in Maps : Plan(kernel, loops, S, E) /\ State(loops, S, E)
    BY DEF Inv
  <1>2. Ready(loops, S)
    BY <1>1 DEF Inv, Plan, State, Ready
  <1>3. PICK n : n = Len(kernel.prog)
    OBVIOUS
  <1>4. n \in Nat /\ loops < n /\ 0 \in Warps /\ \A w \in Warps : pc[w] = n + 1
    <2>1. n \in Nat /\ loops < n /\ 0 \in Warps /\ \A w \in Warps : pc[w] \in 1..(n + 1)
      BY <1>2, <1>3, ReadyTypes
    <2>2. \A w \in Warps : pc[w] > n
      BY <1>3 DEF Finished
    <2> QED
      BY <2>1, <2>2
  <1>5. CASE Storing(kernel, loops, S, E)
    <2>1. n = loops + 1 /\ s = 0 /\ Slots(kernel) = {0}
      BY <1>3, <1>5 DEF Storing
    <2>2. {v \in Warps : pc[v] = loops + 2} = Warps /\ \A w \in Warps : pc[w] > loops
      BY <1>4, <2>1
    <2>3. out[0] = SetToBag(UNION {Whole(w) : w \in Warps})
      BY <1>1, <1>5, <2>2 DEF State, StoringState
    <2>4. UNION {Whole(w) : w \in Warps} = Contributions
      BY <1>2, <2>1, <2>2, WarpsHoldRow
    <2> QED
      BY <2>1, <2>3, <2>4
  <1>6. CASE ~ Storing(kernel, loops, S, E)
    <2>1. kernel.prog[n].op = "write"
      BY <1>1, <1>3, <1>6 DEF Plan, Writing, Summing, Adding
    <2>2. Written
      BY <1>1, <1>3, <2>1 DEF State
    <2> QED
      BY <1>3, <1>4, <2>2 DEF Written
  <1> QED
    BY <1>5, <1>6

-----------------------------------------------------------------------------
(* What the lanes of a group add of a block.                               *)

\* Lanes of a group are at different places.
LEMMA PlacesApart ==
    ASSUME NEW k, k.lanes \in 0..32
    PROVE  /\ k.group = 8 => Apart(Places(k), 8)
           /\ k.group = 32 => Apart(Places(k), 32)
  BY DEF Apart, Places, Lanes

\* A lane's own term is its piece of a block.
LEMMA PlacesHeld ==
    ASSUME NEW k
    PROVE  [l \in Lanes |-> IF l < k.lanes THEN SetToBag({l % k.group}) ELSE EmptyBag]
           = Held(Places(k), Own)
  <1>1. \A l \in Lanes : UNION {Places(k)[m] : m \in Own[l]} = IF l < k.lanes THEN {l % k.group} ELSE {}
    BY DEF Places, Own
  <1> QED
    BY <1>1 DEF Held, EmptyBag

\* What is added, once the lanes have exchanged their terms.
AddedOf(k, loop, exchanged) ==
    [l \in Lanes |->
       IF l >= k.lanes \/ l % k.group \notin loop.adders THEN EmptyBag
       ELSE IF loop.from = {} THEN exchanged[l]
       ELSE BagSum(exchanged, {k.group * (l \div k.group) + s : s \in loop.from})]

\* What the lanes add, from what they hold after the exchanges.
LEMMA TermsAfter ==
    ASSUME NEW k, NEW loop, NEW ex, FoldLeft(Butterfly, Held(Places(k), Own), loop.xors) = ex
    PROVE  TermsAdded(k, loop) = AddedOf(k, loop, ex)
  BY PlacesHeld DEF TermsAdded, AddedOf

\* No exchange changes nothing.
LEMMA NoShuffle == ASSUME NEW b PROVE FoldLeft(Butterfly, b, <<>>) = b
  <1>1. <<>> \in Seq(Offsets5) /\ Len(<<>>) = 0
    OBVIOUS
  <1> QED
    BY <1>1, Shuffles

\* Every lane adds what it has computed itself.
LEMMA PlainTerms ==
    ASSUME NEW k, k.lanes \in {1, 4, 8, 32}, k.group \in {1, 4, 8, 16, 32}, NEW loop,
           loop.xors = <<>>, loop.from = {}, loop.adders = Lanes
    PROVE  TermsAdded(k, loop) = Held(Places(k), Own)
  <1>0. \A l \in Lanes : (l >= k.lanes <=> ~ (l < k.lanes)) /\ l % k.group \in Lanes
    <2>1. PICK N, G : N = k.lanes /\ G = k.group
      OBVIOUS
    <2>2. N \in {1, 4, 8, 32} /\ G \in {1, 4, 8, 16, 32}
      BY <2>1
    <2>3. \A l \in Lanes : (l >= N <=> ~ (l < N)) /\ l % G \in Lanes
      BY <2>2 DEF Lanes
    <2> QED
      BY <2>1, <2>3
  <1>1. TermsAdded(k, loop) = AddedOf(k, loop, Held(Places(k), Own))
    BY NoShuffle, TermsAfter
  <1>2. ASSUME NEW l \in Lanes
        PROVE  AddedOf(k, loop, Held(Places(k), Own))[l] = Held(Places(k), Own)[l]
    <2>1. CASE l < k.lanes
      BY <1>0, <2>1 DEF AddedOf
    <2>2. CASE ~ (l < k.lanes)
      <3>1. UNION {Places(k)[m] : m \in Own[l]} = {}
        BY <2>2 DEF Places, Own
      <3> QED
        BY <1>0, <2>2, <3>1 DEF AddedOf, Held, EmptyBag
    <2> QED
      BY <2>1, <2>2
  <1> QED
    BY <1>1, <1>2 DEF AddedOf, Held

\* The lanes of an octet.
LEMMA OctetLanes ==
    ASSUME NEW l \in Lanes
    PROVE  /\ \A s \in 0..7 : 8 * (l \div 8) + s \in Lanes /\ (8 * (l \div 8) + s) \div 8 = l \div 8
           /\ \A m \in Lanes : m \div 8 = l \div 8 => (m % 8) \in 0..7 /\ m = 8 * (l \div 8) + (m % 8)
  <1>1. l \in 0..31
    BY DEF Lanes
  <1>2. PICK g \in 0..3 : g = l \div 8
    BY <1>1
  <1>3. \A s \in 0..7 : 8 * g + s \in 0..31 /\ (8 * g + s) \div 8 = g
    BY <1>1
  <1>4. \A m \in 0..31 : m \div 8 = g => (m % 8) \in 0..7 /\ m = 8 * g + (m % 8)
    BY <1>1
  <1> QED
    BY <1>2, <1>3, <1>4 DEF Lanes

\* Lane 0 of an octet adds what the eight have computed.
LEMMA GatheredTerms ==
    ASSUME NEW k, k.lanes \in {8, 32}, k.group = 8, NEW loop, loop.xors = <<>>, loop.from = 0..7,
           loop.adders = {0}
    PROVE  TermsAdded(k, loop) = Held(Places(k), Leading(8))
  <1>0. \A l \in Lanes : /\ l >= k.lanes <=> ~ (l < k.lanes)
                         /\ ~ (l < k.lanes) => \A m \in Near(8)[l] : ~ (m < k.lanes)
    <2>1. PICK N : N = k.lanes
      OBVIOUS
    <2>2. N \in {8, 32}
      BY <2>1
    <2>3. \A l \in Lanes : l >= N <=> ~ (l < N)
      BY <2>2 DEF Lanes
    <2>4. \A l, m \in Lanes : l \div 8 = m \div 8 /\ ~ (l < N) => ~ (m < N)
      BY <2>2 DEF Lanes
    <2> QED
      BY <2>1, <2>3, <2>4 DEF Near
  <1> DEFINE own == Held(Places(k), Own)
  <1>1. TermsAdded(k, loop) = AddedOf(k, loop, own)
    BY NoShuffle, TermsAfter
  <1>2. ASSUME NEW l \in Lanes
        PROVE  AddedOf(k, loop, own)[l] = Held(Places(k), Leading(8))[l]
    <2>1. CASE l < k.lanes /\ l % 8 = 0
      <3> DEFINE I == {8 * (l \div 8) + s : s \in 0..7}
      <3>1. I = Near(8)[l] /\ I \subseteq Lanes
        <4>1. \A s \in 0..7 : 8 * (l \div 8) + s \in Lanes /\ (8 * (l \div 8) + s) \div 8 = l \div 8
          BY OctetLanes
        <4>2. \A m \in Lanes : m \div 8 = l \div 8 => (m % 8) \in 0..7 /\ m = 8 * (l \div 8) + (m % 8)
          BY OctetLanes
        <4>3. I \subseteq Near(8)[l]
          BY <4>1 DEF Near
        <4>4. Near(8)[l] \subseteq I
          BY <4>2 DEF Near
        <4> QED
          BY <4>3, <4>4 DEF Near
      <3>2. IsFiniteSet(I)
        BY <3>1, LanesFinite, FS_Subset
      <3>3. \A i \in I : own[i] = SetToBag(Places(k)[i])
        BY <3>1 DEF Held, Own
      <3>4. \A i, j \in I : i # j => Places(k)[i] \cap Places(k)[j] = {}
        <4>1. Apart(Places(k), 8)
          BY PlacesApart
        <4>2. \A i, j \in I : i \in Lanes /\ j \in Lanes /\ i \div 8 = j \div 8
          BY <3>1 DEF Near
        <4> QED
          BY <4>1, <4>2 DEF Apart
      <3>5. AddedOf(k, loop, own)[l] = BagSum(own, I)
        <4>1. 0 \in loop.from
          OBVIOUS
        <4> QED
          BY <1>0, <2>1, <4>1 DEF AddedOf
      <3> HIDE DEF I, own
      <3>6. BagSum(own, I) = SetToBag(UNION {Places(k)[i] : i \in I})
        BY <3>2, <3>3, <3>4, SumOfSets
      <3>7. Leading(8)[l] = I
        BY <2>1, <3>1 DEF Leading
      <3> QED
        BY <3>5, <3>6, <3>7 DEF Held
    <2>2. CASE l < k.lanes /\ l % 8 # 0
      <3>1. AddedOf(k, loop, own)[l] = EmptyBag
        BY <2>2 DEF AddedOf
      <3>2. UNION {Places(k)[m] : m \in Leading(8)[l]} = {}
        BY <2>2 DEF Leading
      <3> QED
        BY <3>1, <3>2 DEF Held, EmptyBag
    <2>3. CASE ~ (l < k.lanes)
      <3>1. AddedOf(k, loop, own)[l] = EmptyBag
        BY <1>0, <2>3 DEF AddedOf
      <3>2. \A m \in Leading(8)[l] : ~ (m < k.lanes)
        BY <1>0, <2>3 DEF Leading
      <3>3. \A m \in Leading(8)[l] : m \in Lanes
        BY DEF Leading, Near
      <3>4. UNION {Places(k)[m] : m \in Leading(8)[l]} = {}
        BY <3>2, <3>3 DEF Places
      <3> QED
        BY <3>1, <3>4 DEF Held, EmptyBag
    <2> QED
      BY <2>1, <2>2, <2>3
  <1> QED
    BY <1>1, <1>2 DEF AddedOf, Held

\* The lanes of an octet exchange their terms, and each adds the sum.
LEMMA OctetTerms ==
    ASSUME NEW k, k.lanes = 32, k.group = 8, NEW loop, loop.xors = <<1, 2, 4>>, loop.from = {},
           loop.adders = Lanes
    PROVE  TermsAdded(k, loop) = Held(Places(k), Near(8))
  <1>1. Fuses(Own, 1, Near(2), 8)
    BY DEF Fuses, Merge, Partner, Near, Own, Lanes, Offsets5
  <1>2. Fuses(Near(2), 2, Near(4), 8)
    BY DEF Fuses, Merge, Partner, Near, Lanes, Offsets5
  <1>3. Fuses(Near(4), 4, Near(8), 8)
    BY DEF Fuses, Merge, Partner, Near, Lanes, Offsets5
  <1>4. Apart(Places(k), 8)
    BY PlacesApart
  <1>5. FoldLeft(Butterfly, Held(Places(k), Own), <<1, 2, 4>>) = Held(Places(k), Near(8))
    BY <1>1, <1>2, <1>3, <1>4, ThreeShuffles
  <1>6. TermsAdded(k, loop) = AddedOf(k, loop, Held(Places(k), Near(8)))
    BY <1>5, TermsAfter
  <1>7. \A l \in Lanes : AddedOf(k, loop, Held(Places(k), Near(8)))[l] = Held(Places(k), Near(8))[l]
    BY DEF AddedOf, Lanes
  <1> QED
    BY <1>6, <1>7 DEF AddedOf, Held

\* The lanes of a warp exchange their terms, and lane 0 adds the sum.
LEMMA WarpTerms ==
    ASSUME NEW k, k.lanes = 32, k.group = 32, NEW loop, loop.xors = <<1, 2, 4, 8, 16>>, loop.from = {},
           loop.adders = {0}
    PROVE  TermsAdded(k, loop) = Held(Places(k), Leading(32))
  <1>1. Fuses(Own, 1, Near(2), 32)
    BY DEF Fuses, Merge, Partner, Near, Own, Lanes, Offsets5
  <1>2. Fuses(Near(2), 2, Near(4), 32)
    BY DEF Fuses, Merge, Partner, Near, Lanes, Offsets5
  <1>3. Fuses(Near(4), 4, Near(8), 32)
    BY DEF Fuses, Merge, Partner, Near, Lanes, Offsets5
  <1>4. Fuses(Near(8), 8, Near(16), 32)
    BY DEF Fuses, Merge, Partner, Near, Lanes, Offsets5
  <1>5. Fuses(Near(16), 16, Near(32), 32)
    BY DEF Fuses, Merge, Partner, Near, Lanes, Offsets5
  <1>6. Apart(Places(k), 32)
    BY PlacesApart
  <1>7. FoldLeft(Butterfly, Held(Places(k), Own), <<1, 2, 4, 8, 16>>) = Held(Places(k), Near(32))
    BY <1>1, <1>2, <1>3, <1>4, <1>5, <1>6, FiveShuffles
  <1>8. TermsAdded(k, loop) = AddedOf(k, loop, Held(Places(k), Near(32)))
    BY <1>7, TermsAfter
  <1>9. ASSUME NEW l \in Lanes
        PROVE  AddedOf(k, loop, Held(Places(k), Near(32)))[l] = Held(Places(k), Leading(32))[l]
    <2>1. l % 32 = l
      BY DEF Lanes
    <2>2. CASE l = 0
      BY <2>1, <2>2 DEF AddedOf, Held, Leading
    <2>3. CASE l # 0
      <3>1. AddedOf(k, loop, Held(Places(k), Near(32)))[l] = EmptyBag
        BY <2>1, <2>3 DEF AddedOf
      <3>2. UNION {Places(k)[m] : m \in Leading(32)[l]} = {}
        BY <2>1, <2>3 DEF Leading
      <3> QED
        BY <3>1, <3>2 DEF Held, EmptyBag
    <2> QED
      BY <2>2, <2>3
  <1> QED
    BY <1>8, <1>9 DEF AddedOf, Held

\* Four lanes exchange their terms, and lane 0 adds the eight sums.
LEMMA GroupTerms ==
    ASSUME NEW k, k.lanes = 32, k.group = 32, NEW loop, loop.xors = <<1, 2>>,
           loop.from = {4 * g : g \in 0..7}, loop.adders = {0}
    PROVE  TermsAdded(k, loop) = Held(Places(k), Leading(32))
  <1> DEFINE ex == Held(Places(k), Near(4))
  <1>1. Fuses(Own, 1, Near(2), 32)
    BY DEF Fuses, Merge, Partner, Near, Own, Lanes, Offsets5
  <1>2. Fuses(Near(2), 2, Near(4), 32)
    BY DEF Fuses, Merge, Partner, Near, Lanes, Offsets5
  <1>3. Apart(Places(k), 32)
    BY PlacesApart
  <1>4. FoldLeft(Butterfly, Held(Places(k), Own), <<1, 2>>) = ex
    BY <1>1, <1>2, <1>3, TwoShuffles
  <1>5. TermsAdded(k, loop) = AddedOf(k, loop, ex)
    BY <1>4, TermsAfter
  <1>6. ASSUME NEW l \in Lanes
        PROVE  AddedOf(k, loop, ex)[l] = Held(Places(k), Leading(32))[l]
    <2>1. l % 32 = l /\ l \div 32 = 0
      BY DEF Lanes
    <2>2. CASE l = 0
      <3> DEFINE I == {32 * (l \div 32) + s : s \in loop.from}
                 Q == [i \in Lanes |-> UNION {Places(k)[m] : m \in Near(4)[i]}]
      <3>1. I \subseteq Lanes /\ I = {4 * g : g \in 0..7}
        <4>1. \A g \in 0..7 : 32 * (l \div 32) + 4 * g = 4 * g
          BY <2>1
        <4>2. I = {4 * g : g \in 0..7}
          BY <4>1
        <4>3. \A g \in 0..7 : 4 * g \in Lanes
          BY DEF Lanes
        <4> QED
          BY <4>2, <4>3
      <3>2. IsFiniteSet(I)
        BY <3>1, LanesFinite, FS_Subset
      <3>3. \A i \in I : ex[i] = SetToBag(Q[i])
        BY <3>1 DEF Held
      <3>4. ASSUME NEW i \in I, NEW j \in I, i # j
            PROVE  Q[i] \cap Q[j] = {}
        <4>1. \A m \in Near(4)[i], q \in Near(4)[j] : m \in Lanes /\ q \in Lanes /\ m # q
          <5>1. PICK g \in 0..7, h \in 0..7 : i = 4 * g /\ j = 4 * h
            BY <3>1
          <5>2. i \in Lanes /\ j \in Lanes /\ i \div 4 # j \div 4
            BY <3>1, <3>4, <5>1
          <5> QED
            BY <5>2 DEF Near
        <4>2. \A m \in Near(4)[i], q \in Near(4)[j] : Places(k)[m] \cap Places(k)[q] = {}
          BY <1>3, <4>1 DEF Apart, Lanes
        <4>3. i \in Lanes /\ j \in Lanes
          BY <3>1
        <4> QED
          BY <4>2, <4>3
      <3>5. AddedOf(k, loop, ex)[l] = BagSum(ex, I)
        <4>1. loop.from # {}
          <5>1. 4 * 0 \in loop.from
            OBVIOUS
          <5> QED
            BY <5>1
        <4> QED
          BY <2>1, <2>2, <4>1 DEF AddedOf
      <3>6. UNION {Q[i] : i \in I} = UNION {Places(k)[m] : m \in Leading(32)[l]}
        <4>1. Leading(32)[l] = Lanes
          BY <2>1, <2>2 DEF Leading, Near, Lanes
        <4>2. \A m \in Lanes : \E i \in I : m \in Near(4)[i]
          <5> SUFFICES ASSUME NEW m \in Lanes
                       PROVE  \E i \in I : m \in Near(4)[i]
            OBVIOUS
          <5>1. (m \div 4) \in 0..7 /\ 4 * (m \div 4) \in Lanes /\ (4 * (m \div 4)) \div 4 = m \div 4
            BY DEF Lanes
          <5>2. 4 * (m \div 4) \in I
            BY <3>1, <5>1
          <5>3. m \in Near(4)[4 * (m \div 4)]
            BY <5>1 DEF Near
          <5> QED
            BY <5>2, <5>3
        <4>3. \A i \in I : Near(4)[i] \subseteq Lanes
          BY <3>1 DEF Near
        <4>4. \A i \in I : Q[i] = UNION {Places(k)[m] : m \in Near(4)[i]}
          BY <3>1
        <4> HIDE DEF I, Q
        <4> QED
          BY <4>1, <4>2, <4>3, <4>4
      <3> HIDE DEF I, Q, ex
      <3>7. BagSum(ex, I) = SetToBag(UNION {Q[i] : i \in I})
        BY <3>2, <3>3, <3>4, SumOfSets
      <3> QED
        BY <3>5, <3>6, <3>7 DEF Held
    <2>3. CASE l # 0
      <3>1. AddedOf(k, loop, ex)[l] = EmptyBag
        BY <2>1, <2>3 DEF AddedOf
      <3>2. UNION {Places(k)[m] : m \in Leading(32)[l]} = {}
        BY <2>1, <2>3 DEF Leading
      <3> QED
        BY <3>1, <3>2 DEF Held, EmptyBag
    <2> QED
      BY <2>2, <2>3
  <1> QED
    BY <1>5, <1>6 DEF AddedOf, Held

-----------------------------------------------------------------------------
(* The plans of the kernels, by their geometry.                            *)

\* A loop in which lane l adds the terms of the lanes S[l].
GoodLoop(k, loop, S) ==
    /\ loop.op = "loop" /\ loop.room # 12
    /\ <<Stride(k), loop.offs, loop.room, loop.step>> \in Steps
    /\ TermsAdded(k, loop) = Held(Places(k), S)

Grouped(k, S) ==
    \A l \in Lanes : \A m \in S[l] : m < k.lanes => l < k.lanes /\ m \div k.group = l \div k.group

\* Loops over the row in batches of one, four and eight.
LEMMA ByLoops ==
    /\ By(1).op = "loop" /\ By(4).op = "loop" /\ By(8).op = "loop"
    /\ By(1).room = 1 /\ By(4).room = 4 /\ By(8).room = 8
    /\ <<1, By(1).offs, By(1).room, By(1).step>> \in Steps
    /\ <<1, By(4).offs, By(4).room, By(4).step>> \in Steps
    /\ <<1, By(8).offs, By(8).room, By(8).step>> \in Steps
    /\ \A m : By(m).xors = <<>> /\ By(m).from = {} /\ By(m).adders = Lanes
  <1>1. 0..(1 - 1) = {0} /\ 0..(4 - 1) = 0..3 /\ 0..(8 - 1) = 0..7
    OBVIOUS
  <1> QED
    BY <1>1 DEF By, Loop, Steps

\* Loops over every second, fourth or eighth block.
LEMMA StripesLoops ==
    /\ \A step : /\ Stripes(step).op = "loop" /\ Stripes(step).room = 1
                 /\ Stripes(step).xors = <<>> /\ Stripes(step).from = {} /\ Stripes(step).adders = Lanes
    /\ \A step \in {2, 4, 8} : <<step, Stripes(step).offs, Stripes(step).room, Stripes(step).step>> \in Steps
  BY DEF Stripes, Loop, Steps

\* Exchanges change nothing about the blocks a loop takes.
LEMMA ExchangingLoops ==
    ASSUME NEW loop, NEW xors, NEW from, NEW adders, loop \in {By(1), By(4)}
    PROVE  LET x == Exchanging(loop, xors, from, adders)
           IN  /\ x.op = "loop" /\ x.offs = loop.offs /\ x.room = loop.room /\ x.step = loop.step
               /\ x.xors = xors /\ x.from = from /\ x.adders = adders
  BY DEF Exchanging, By, Loop

\* Loops over the whole row, in batches of eight or four, then block by block.
LEMMA GoodBy ==
    ASSUME NEW k, k.lanes \in {1, 4, 8, 32}, k.group \in {1, 4, 8, 16, 32}, Stride(k) = 1,
           NEW m \in {1, 4, 8}
    PROVE  GoodLoop(k, By(m), Own)
  <1>1. TermsAdded(k, By(m)) = Held(Places(k), Own)
    BY ByLoops, PlainTerms
  <1> QED
    BY <1>1, ByLoops DEF GoodLoop

\* The first lane of an octet gathers the octet's terms.
LEMMA GoodGathered ==
    ASSUME NEW k, k.lanes \in {8, 32}, k.group = 8, Stride(k) = 1, NEW m \in {1, 4}
    PROVE  GoodLoop(k, Gathered(By(m)), Leading(8))
  <1>1. /\ Gathered(By(m)).op = "loop" /\ Gathered(By(m)).offs = By(m).offs
        /\ Gathered(By(m)).room = By(m).room /\ Gathered(By(m)).step = By(m).step
        /\ Gathered(By(m)).xors = <<>> /\ Gathered(By(m)).from = 0..7 /\ Gathered(By(m)).adders = {0}
    BY ExchangingLoops DEF Gathered
  <1>2. TermsAdded(k, Gathered(By(m))) = Held(Places(k), Leading(8))
    BY <1>1, GatheredTerms
  <1> QED
    BY <1>1, <1>2, ByLoops DEF GoodLoop

\* The terms of a block are summed by exchanges first.
LEMMA GoodSummed ==
    ASSUME NEW k, k.lanes = 32, Stride(k) = 1, NEW m \in {1, 4}
    PROVE  /\ k.group = 8 => GoodLoop(k, Summed(By(m), <<1, 2, 4>>, Lanes), Near(8))
           /\ k.group = 32 => GoodLoop(k, Summed(By(m), <<1, 2, 4, 8, 16>>, {0}), Leading(32))
           /\ k.group = 32 =>
                GoodLoop(k, Exchanging(By(m), <<1, 2>>, {4 * g : g \in 0..7}, {0}), Leading(32))
  <1> DEFINE a == Summed(By(m), <<1, 2, 4>>, Lanes)
             b == Summed(By(m), <<1, 2, 4, 8, 16>>, {0})
             c == Exchanging(By(m), <<1, 2>>, {4 * g : g \in 0..7}, {0})
  <1>1. \A x \in {a, b, c} : x.op = "loop" /\ x.offs = By(m).offs /\ x.room = By(m).room
                             /\ x.step = By(m).step
    BY ExchangingLoops DEF Summed
  <1>2. /\ a.xors = <<1, 2, 4>> /\ a.from = {} /\ a.adders = Lanes
        /\ b.xors = <<1, 2, 4, 8, 16>> /\ b.from = {} /\ b.adders = {0}
        /\ c.xors = <<1, 2>> /\ c.from = {4 * g : g \in 0..7} /\ c.adders = {0}
    BY ExchangingLoops DEF Summed
  <1> HIDE DEF a, b, c
  <1>3. k.group = 8 => TermsAdded(k, a) = Held(Places(k), Near(8))
    BY <1>2, OctetTerms
  <1>4. k.group = 32 => TermsAdded(k, b) = Held(Places(k), Leading(32))
    BY <1>2, WarpTerms
  <1>5. k.group = 32 => TermsAdded(k, c) = Held(Places(k), Leading(32))
    BY <1>2, GroupTerms
  <1>6. /\ k.group = 8 => GoodLoop(k, a, Near(8))
        /\ k.group = 32 => GoodLoop(k, b, Leading(32)) /\ GoodLoop(k, c, Leading(32))
    BY <1>1, <1>3, <1>4, <1>5, ByLoops DEF GoodLoop
  <1> QED
    BY <1>6 DEF a, b, c

\* A lane adds its own term of every block of its stripe.
LEMMA GoodStripes ==
    ASSUME NEW k, k.lanes = 32, k.group \in {8, 16, 32}, Stride(k) \in {2, 4, 8}
    PROVE  GoodLoop(k, Stripes(Stride(k)), Own)
  <1>1. TermsAdded(k, Stripes(Stride(k))) = Held(Places(k), Own)
    BY StripesLoops, PlainTerms
  <1> QED
    BY <1>1, StripesLoops DEF GoodLoop

\* Lanes of a map are of one group.
LEMMA MapsGrouped ==
    ASSUME NEW k
    PROVE  /\ k.lanes \in {1, 4, 8, 32} => Grouped(k, Own)
           /\ k.lanes \in {8, 32} /\ k.group = 8 => Grouped(k, Leading(8)) /\ Grouped(k, Near(8))
           /\ k.lanes = 32 /\ k.group = 32 => Grouped(k, Leading(32))
  <1>1. \A l \in Lanes : \A m \in Own[l] : m = l
    BY DEF Own
  <1>2. \A l \in Lanes : \A m \in Near(8)[l] : m \in Lanes /\ m \div 8 = l \div 8
    BY DEF Near
  <1>3. \A l \in Lanes : \A m \in Leading(8)[l] : m \in Near(8)[l]
    BY DEF Leading
  <1>4. \A l, m \in Lanes : l \div 8 = m \div 8 => (m < 8 => l < 8)
    BY DEF Lanes
  <1>5. \A l \in Lanes : l < 32 /\ l \div 32 = 0
    BY DEF Lanes
  <1>6. \A l \in Lanes : \A m \in Leading(32)[l] : m \in Lanes
    BY DEF Leading, Near
  <1>7. k.lanes \in {1, 4, 8, 32} => Grouped(k, Own)
    BY <1>1 DEF Grouped
  <1>8. k.lanes \in {8, 32} /\ k.group = 8 => Grouped(k, Leading(8)) /\ Grouped(k, Near(8))
    BY <1>2, <1>3, <1>4, <1>5 DEF Grouped
  <1>9. k.lanes = 32 /\ k.group = 32 => Grouped(k, Leading(32))
    BY <1>5, <1>6 DEF Grouped
  <1> QED
    BY <1>7, <1>8, <1>9

Planned(k) == \E loops \in 1..3, S \in Maps, E \in Maps : Plan(k, loops, S, E)

\* The maps by name.
LEMMA MapsKnown ==
    Own \in Maps /\ Near(4) \in Maps /\ Near(8) \in Maps /\ Everyone \in Maps /\ Leading(8) \in Maps
    /\ Leading(32) \in Maps
  BY DEF Maps

\* The trees by name.
LEMMA FoldTrees ==
    ASSUME NEW k, NEW i
    PROVE  /\ k.prog[i] = Fold(<<16, 8, 4, 2, 1>>) /\ Span(k) = 32 => FoldsTo(k, i, Own, Everyone)
           /\ k.prog[i] = Fold(<<8, 16, 4, 1, 2>>) /\ Span(k) = 32 => FoldsTo(k, i, Own, Everyone)
           /\ k.prog[i] = Fold(<<4, 1, 2, 16, 8>>) /\ Span(k) = 32 => FoldsTo(k, i, Own, Everyone)
           /\ k.prog[i] = Fold(<<4, 1, 2>>) /\ Span(k) \in {8, 32} =>
                FoldsTo(k, i, Own, Near(8)) /\ FoldsTo(k, i, Leading(8), Near(8))
           /\ k.prog[i] = Fold(<<1, 2>>) /\ Span(k) = 4 => FoldsTo(k, i, Own, Near(4))
  <1> DEFINE A == <<<<16, 8, 4, 2, 1>>, Own, Everyone, 32>>
             B == <<<<8, 16, 4, 1, 2>>, Own, Everyone, 32>>
             C == <<<<4, 1, 2, 16, 8>>, Own, Everyone, 32>>
             D == <<<<4, 1, 2>>, Own, Near(8), 8>>
             F == <<<<4, 1, 2>>, Leading(8), Near(8), 8>>
             G == <<<<1, 2>>, Own, Near(4), 4>>
  <1>1. A \in Trees /\ B \in Trees /\ C \in Trees /\ D \in Trees /\ F \in Trees /\ G \in Trees
    BY DEF Trees
  <1>2. \A offs : Fold(offs).op = "fold" /\ Fold(offs).offs = offs
    BY DEF Fold
  <1>3. k.prog[i] = Fold(A[1]) /\ Span(k) = 32 => FoldsTo(k, i, Own, Everyone)
    BY <1>1, <1>2 DEF FoldsTo
  <1>4. k.prog[i] = Fold(B[1]) /\ Span(k) = 32 => FoldsTo(k, i, Own, Everyone)
    BY <1>1, <1>2 DEF FoldsTo
  <1>5. k.prog[i] = Fold(C[1]) /\ Span(k) = 32 => FoldsTo(k, i, Own, Everyone)
    BY <1>1, <1>2 DEF FoldsTo
  <1>6. k.prog[i] = Fold(D[1]) /\ Span(k) \in {8, 32} => FoldsTo(k, i, Own, Near(8))
    BY <1>1, <1>2 DEF FoldsTo
  <1>7. k.prog[i] = Fold(F[1]) /\ Span(k) \in {8, 32} => FoldsTo(k, i, Leading(8), Near(8))
    BY <1>1, <1>2 DEF FoldsTo
  <1>8. k.prog[i] = Fold(G[1]) /\ Span(k) = 4 => FoldsTo(k, i, Own, Near(4))
    BY <1>1, <1>2 DEF FoldsTo
  <1> QED
    BY <1>3, <1>4, <1>5, <1>6, <1>7, <1>8

\* Instructions other than loops.
LEMMA OtherInstructions ==
    /\ \A offs : Fold(offs).op = "fold"
    /\ \A lanes : Write(lanes).op = "write"
    /\ Store.op = "store" /\ Barrier.op = "barrier" /\ AddLanes.op = "add"
    /\ \A warps, lanes : Share(warps, lanes).op = "share" /\ Share(warps, lanes).by = warps
                         /\ Share(warps, lanes).lanes = lanes
    /\ \A lanes : SumPartials(lanes).op = "sum" /\ SumPartials(lanes).lanes = lanes
  BY DEF Fold, Write, Store, Barrier, AddLanes, Share, SumPartials

\* The lanes that write hold all of their row.
Row(k, l) == {m \in 0..(k.lanes - 1) : Slot(k, m) = Slot(k, l)}
HoldsRow(k, E, l) == {m \in E[l] : m < k.lanes} = Row(k, l)

\* Where a warp has one row, the row has all of its lanes.
LEMMA WholeRows ==
    ASSUME NEW k, k.lanes \in {1, 4, 8, 32}, k.group = k.lanes \/ k.split = "stripe"
    PROVE  \A l \in 0..(k.lanes - 1) : Row(k, l) = 0..(k.lanes - 1)
  <1>1. CASE k.split = "stripe"
    BY <1>1 DEF Row, Slot
  <1>2. CASE k.split # "stripe"
    <2>1. PICK N : N = k.lanes /\ N = k.group
      BY <1>2
    <2>2. \A m \in 0..(N - 1) : m \div N = 0
      BY <2>1
    <2> QED
      BY <2>1, <2>2 DEF Row, Slot
  <1> QED
    BY <1>1, <1>2

\* Where it has four, the row of a lane has the lane's octet.
LEMMA RowOfEight ==
    ASSUME NEW k, k.lanes = 32, k.group = 8, k.split = "row", NEW l \in Lanes
    PROVE  Row(k, l) = Near(8)[l]
  BY DEF Row, Slot, Near, Lanes

\* What the first lane holds.
LEMMA FirstLanes ==
    /\ Own[0] = {0} /\ Near(4)[0] = 0..3 /\ Near(8)[0] = 0..7 /\ Leading(8)[0] = 0..7
    /\ Everyone[0] = 0..31 /\ Leading(32)[0] = 0..31
  <1>1. \A m \in Lanes : /\ m \div 4 = 0 <=> m \in 0..3
                         /\ m \div 8 = 0 <=> m \in 0..7
                         /\ m \div 32 = 0
    BY DEF Lanes
  <1>2. 0 \div 4 = 0 /\ 0 \div 8 = 0 /\ 0 \div 32 = 0 /\ 0 % 8 = 0 /\ 0 % 32 = 0 /\ 0 \in Lanes
    BY DEF Lanes
  <1>3. Near(4)[0] = 0..3 /\ Near(8)[0] = 0..7 /\ Near(32)[0] = 0..31
    BY <1>1, <1>2 DEF Near, Lanes
  <1> QED
    BY <1>2, <1>3 DEF Own, Everyone, Leading, Lanes

\* Which lanes hold all of their row, under which map.
LEMMA CompleteMaps ==
    ASSUME NEW k
    PROVE  /\ k.lanes = 1 /\ k.group = 1 => Complete(k, Own, {0})
           /\ k.lanes = 4 /\ k.group = 4 => Complete(k, Near(4), {0})
           /\ k.lanes = 8 /\ k.group = 8 => Complete(k, Near(8), {0}) /\ Complete(k, Leading(8), {0})
           /\ k.lanes = 32 /\ k.group = 32 => Complete(k, Everyone, {0}) /\ Complete(k, Leading(32), {0})
           /\ k.lanes = 32 /\ k.group = 8 /\ k.split = "row" =>
                Complete(k, Near(8), Leaders) /\ Complete(k, Leading(8), Leaders)
           /\ k.lanes = 32 /\ k.split = "stripe" => Complete(k, Everyone, {0}) /\ Complete(k, Everyone, Leaders)
  <1>1. ASSUME NEW E, NEW lanes, k.lanes \in {1, 4, 8, 32}, k.group = k.lanes \/ k.split = "stripe",
               \A l \in lanes : l \in 0..(k.lanes - 1) /\ E[l] = 0..(k.lanes - 1)
        PROVE  Complete(k, E, lanes)
    <2>1. PICK N : N = k.lanes
      OBVIOUS
    <2>2. \A l \in lanes : {m \in E[l] : m < N} = 0..(N - 1)
      BY <1>1, <2>1
    <2>3. \A l \in lanes : Row(k, l) = 0..(N - 1)
      BY <1>1, <2>1, WholeRows
    <2> QED
      BY <1>1, <2>1, <2>2, <2>3 DEF Complete, Row
  <1>2. /\ k.lanes = 1 /\ k.group = 1 => Complete(k, Own, {0})
        /\ k.lanes = 4 /\ k.group = 4 => Complete(k, Near(4), {0})
        /\ k.lanes = 8 /\ k.group = 8 => Complete(k, Near(8), {0}) /\ Complete(k, Leading(8), {0})
        /\ k.lanes = 32 /\ k.group = 32 => Complete(k, Everyone, {0}) /\ Complete(k, Leading(32), {0})
        /\ k.lanes = 32 /\ k.split = "stripe" => Complete(k, Everyone, {0})
    <2>1. /\ {0} = 0..(1 - 1) /\ 0..3 = 0..(4 - 1) /\ 0..7 = 0..(8 - 1) /\ 0..31 = 0..(32 - 1)
          /\ 0 \in 0..(1 - 1) /\ 0 \in 0..(4 - 1) /\ 0 \in 0..(8 - 1) /\ 0 \in 0..(32 - 1)
      OBVIOUS
    <2>2. k.lanes = 1 /\ k.group = 1 => Complete(k, Own, {0})
      BY <1>1, <2>1, FirstLanes
    <2>3. k.lanes = 4 /\ k.group = 4 => Complete(k, Near(4), {0})
      BY <1>1, <2>1, FirstLanes
    <2>4. k.lanes = 8 /\ k.group = 8 => Complete(k, Near(8), {0}) /\ Complete(k, Leading(8), {0})
      BY <1>1, <2>1, FirstLanes
    <2>5. k.lanes = 32 /\ k.group = 32 => Complete(k, Everyone, {0}) /\ Complete(k, Leading(32), {0})
      BY <1>1, <2>1, FirstLanes
    <2>6. k.lanes = 32 /\ k.split = "stripe" => Complete(k, Everyone, {0})
      BY <1>1, <2>1, FirstLanes
    <2> QED
      BY <2>2, <2>3, <2>4, <2>5, <2>6
  <1>3. k.lanes = 32 /\ k.split = "stripe" => Complete(k, Everyone, Leaders)
    <2>1. \A l \in Leaders : l \in 0..(32 - 1) /\ Everyone[l] = 0..(32 - 1)
      BY DEF Leaders, Everyone, Lanes
    <2> QED
      BY <1>1, <2>1
  <1>4. ASSUME k.lanes = 32, k.group = 8, k.split = "row"
        PROVE  Complete(k, Near(8), Leaders) /\ Complete(k, Leading(8), Leaders)
    <2>1. \A l \in Leaders : l \in Lanes /\ l \in 0..(32 - 1) /\ Leading(8)[l] = Near(8)[l]
      BY DEF Leaders, Leading, Lanes
    <2>2. \A l \in Lanes : {m \in Near(8)[l] : m < 32} = Near(8)[l]
      BY DEF Near, Lanes
    <2> QED
      BY <1>4, <2>1, <2>2, RowOfEight DEF Complete, Row
  <1> QED
    BY <1>2, <1>3, <1>4

\* One warp: its loops, perhaps a tree of shuffles, and a lane that writes.
LEMMA Looped ==
    ASSUME NEW k, NEW loops \in 1..3, NEW S, \A i \in 1..loops : GoodLoop(k, k.prog[i], S),
           k.prog[loops].room = 1, Grouped(k, S), NEW n \in Nat, Len(k.prog) = n, n > loops,
           \A i \in (loops + 1)..n : k.prog[i].op # "loop"
    PROVE  Looping(k, loops, S)
  BY DEF Looping, GoodLoop, Grouped

\* A kernel whose lanes hold the row after its loops.
LEMMA Unshuffled ==
    ASSUME NEW k, Shape(k), k.warps = 1, NEW loops \in 1..3, NEW S \in Maps, NEW lanes,
           \A i \in 1..loops : GoodLoop(k, k.prog[i], S), k.prog[loops].room = 1, Grouped(k, S),
           Len(k.prog) = loops + 1, k.prog[loops + 1] = Write(lanes), Complete(k, S, lanes)
    PROVE  Planned(k)
  <1>1. \A i \in (loops + 1)..(loops + 1) : k.prog[i].op # "loop"
    BY OtherInstructions
  <1>2. Looping(k, loops, S)
    BY <1>1, Looped
  <1>3. Writing(k, loops, S, S)
    BY DEF Writing, Write
  <1> QED
    BY <1>2, <1>3 DEF Plan, Planned

\* A kernel whose lanes hold the row after a tree of shuffles.
LEMMA Shuffled ==
    ASSUME NEW k, Shape(k), k.warps = 1, NEW loops \in 1..3, NEW S \in Maps, NEW E \in Maps, NEW lanes,
           \A i \in 1..loops : GoodLoop(k, k.prog[i], S), k.prog[loops].room = 1, Grouped(k, S),
           Len(k.prog) = loops + 2, FoldsTo(k, loops + 1, S, E), k.prog[loops + 2] = Write(lanes),
           Complete(k, E, lanes)
    PROVE  Planned(k)
  <1>1. k.prog[loops + 1].op = "fold" /\ k.prog[loops + 2].op = "write" /\ k.prog[loops + 2].lanes = lanes
    BY OtherInstructions DEF FoldsTo, Write
  <1>2. \A i \in (loops + 1)..(loops + 2) : k.prog[i].op # "loop"
    BY <1>1
  <1>3. Looping(k, loops, S)
    BY <1>2, Looped
  <1>4. Writing(k, loops, S, E)
    BY <1>1 DEF Writing
  <1> QED
    BY <1>3, <1>4 DEF Plan, Planned

\* A row a lane, or eight lanes or four to a row.
LEMMA SmallPlanned ==
    /\ Planned(RowPerLane) /\ Planned(RowTileOfSums)
    /\ \A rows : Planned(RowTile(rows))
    /\ Planned(Geometry(1, 8, 8, "row", 1, <<By(1)>> \o OctetTree \o <<Write({0})>>))
    /\ Planned(Geometry(1, 4, 4, "row", 1, <<By(1), Fold(<<1, 2>>), Write({0})>>))
    /\ Planned(Eight6)
  <1>1. Planned(RowPerLane)
    <2>1. PICK k : k = RowPerLane
      OBVIOUS
    <2>2. k.warps = 1 /\ k.lanes = 1 /\ k.group = 1 /\ k.split = "row"
      BY <2>1 DEF RowPerLane, Geometry
    <2>3. Len(k.prog) = 2
          /\ k.prog[1] = By(1)
          /\ k.prog[2] = Write({0})
      BY <2>1 DEF RowPerLane, Geometry, OctetTree, Tree
    <2>4. Shape(k) /\ Stride(k) = 1 /\ Span(k) = 1
      BY <2>2 DEF Shape, Stride, Span
    <2>5. \A i \in 1..1 : GoodLoop(k, k.prog[i], Own)
      BY <2>2, <2>3, <2>4, GoodBy
    <2>6. k.prog[1].room = 1 /\ Grouped(k, Own)
      BY <2>2, <2>3, ByLoops, MapsGrouped
    <2>7. Complete(k, Own, {0})
      BY <2>2, CompleteMaps
    <2> QED
      BY <2>1, <2>2, <2>3, <2>4, <2>5, <2>6, <2>7, MapsKnown, Unshuffled
  <1>2. Planned(RowTileOfSums)
    <2>1. PICK k : k = RowTileOfSums
      OBVIOUS
    <2>2. k.warps = 1 /\ k.lanes = 1 /\ k.group = 1 /\ k.split = "tile"
      BY <2>1 DEF RowTileOfSums, Geometry
    <2>3. Len(k.prog) = 2
          /\ k.prog[1] = By(1)
          /\ k.prog[2] = Write({0})
      BY <2>1 DEF RowTileOfSums, Geometry, OctetTree, Tree
    <2>4. Shape(k) /\ Stride(k) = 1 /\ Span(k) = 1
      BY <2>2 DEF Shape, Stride, Span
    <2>5. \A i \in 1..1 : GoodLoop(k, k.prog[i], Own)
      BY <2>2, <2>3, <2>4, GoodBy
    <2>6. k.prog[1].room = 1 /\ Grouped(k, Own)
      BY <2>2, <2>3, ByLoops, MapsGrouped
    <2>7. Complete(k, Own, {0})
      BY <2>2, CompleteMaps
    <2> QED
      BY <2>1, <2>2, <2>3, <2>4, <2>5, <2>6, <2>7, MapsKnown, Unshuffled
  <1>3. ASSUME NEW rows PROVE  Planned(RowTile(rows))
    <2>1. PICK k : k = RowTile(rows)
      OBVIOUS
    <2>2. k.warps = 1 /\ k.lanes = 8 /\ k.group = 8 /\ k.split = "tile"
      BY <2>1 DEF RowTile, Geometry
    <2>3. Len(k.prog) = 3
          /\ k.prog[1] = By(1)
          /\ k.prog[2] = Fold(<<4, 1, 2>>)
          /\ k.prog[3] = Write({0})
      BY <2>1 DEF RowTile, Geometry, OctetTree, Tree
    <2>4. Shape(k) /\ Stride(k) = 1 /\ Span(k) = 8
      BY <2>2 DEF Shape, Stride, Span
    <2>5. \A i \in 1..1 : GoodLoop(k, k.prog[i], Own)
      BY <2>2, <2>3, <2>4, GoodBy
    <2>6. k.prog[1].room = 1 /\ Grouped(k, Own)
      BY <2>2, <2>3, ByLoops, MapsGrouped
    <2>7. FoldsTo(k, 2, Own, Near(8)) /\ Complete(k, Near(8), {0})
      BY <2>2, <2>3, <2>4, FoldTrees, CompleteMaps
    <2> QED
      BY <2>1, <2>2, <2>3, <2>4, <2>5, <2>6, <2>7, MapsKnown, Shuffled
  <1>4. Planned(Geometry(1, 8, 8, "row", 1, <<By(1)>> \o OctetTree \o <<Write({0})>>))
    <2>1. PICK k : k = Geometry(1, 8, 8, "row", 1, <<By(1)>> \o OctetTree \o <<Write({0})>>)
      OBVIOUS
    <2>2. k.warps = 1 /\ k.lanes = 8 /\ k.group = 8 /\ k.split = "row"
      BY <2>1 DEF Geometry
    <2>3. Len(k.prog) = 3
          /\ k.prog[1] = By(1)
          /\ k.prog[2] = Fold(<<4, 1, 2>>)
          /\ k.prog[3] = Write({0})
      BY <2>1 DEF Geometry, OctetTree, Tree
    <2>4. Shape(k) /\ Stride(k) = 1 /\ Span(k) = 8
      BY <2>2 DEF Shape, Stride, Span
    <2>5. \A i \in 1..1 : GoodLoop(k, k.prog[i], Own)
      BY <2>2, <2>3, <2>4, GoodBy
    <2>6. k.prog[1].room = 1 /\ Grouped(k, Own)
      BY <2>2, <2>3, ByLoops, MapsGrouped
    <2>7. FoldsTo(k, 2, Own, Near(8)) /\ Complete(k, Near(8), {0})
      BY <2>2, <2>3, <2>4, FoldTrees, CompleteMaps
    <2> QED
      BY <2>1, <2>2, <2>3, <2>4, <2>5, <2>6, <2>7, MapsKnown, Shuffled
  <1>5. Planned(Geometry(1, 4, 4, "row", 1, <<By(1), Fold(<<1, 2>>), Write({0})>>))
    <2>1. PICK k : k = Geometry(1, 4, 4, "row", 1, <<By(1), Fold(<<1, 2>>), Write({0})>>)
      OBVIOUS
    <2>2. k.warps = 1 /\ k.lanes = 4 /\ k.group = 4 /\ k.split = "row"
      BY <2>1 DEF Geometry
    <2>3. Len(k.prog) = 3
          /\ k.prog[1] = By(1)
          /\ k.prog[2] = Fold(<<1, 2>>)
          /\ k.prog[3] = Write({0})
      BY <2>1 DEF Geometry, OctetTree, Tree
    <2>4. Shape(k) /\ Stride(k) = 1 /\ Span(k) = 4
      BY <2>2 DEF Shape, Stride, Span
    <2>5. \A i \in 1..1 : GoodLoop(k, k.prog[i], Own)
      BY <2>2, <2>3, <2>4, GoodBy
    <2>6. k.prog[1].room = 1 /\ Grouped(k, Own)
      BY <2>2, <2>3, ByLoops, MapsGrouped
    <2>7. FoldsTo(k, 2, Own, Near(4)) /\ Complete(k, Near(4), {0})
      BY <2>2, <2>3, <2>4, FoldTrees, CompleteMaps
    <2> QED
      BY <2>1, <2>2, <2>3, <2>4, <2>5, <2>6, <2>7, MapsKnown, Shuffled
  <1>6. Planned(Eight6)
    <2>1. PICK k : k = Eight6
      OBVIOUS
    <2>2. k.warps = 1 /\ k.lanes = 8 /\ k.group = 8 /\ k.split = "row"
      BY <2>1 DEF Eight6, Geometry
    <2>3. Len(k.prog) = 4
          /\ k.prog[1] = By(4)
          /\ k.prog[2] = By(1)
          /\ k.prog[3] = Fold(<<4, 1, 2>>)
          /\ k.prog[4] = Write({0})
      BY <2>1 DEF Eight6, Geometry, OctetTree, Tree
    <2>4. Shape(k) /\ Stride(k) = 1 /\ Span(k) = 8
      BY <2>2 DEF Shape, Stride, Span
    <2>5. \A i \in 1..2 : GoodLoop(k, k.prog[i], Own)
      BY <2>2, <2>3, <2>4, GoodBy
    <2>6. k.prog[2].room = 1 /\ Grouped(k, Own)
      BY <2>2, <2>3, ByLoops, MapsGrouped
    <2>7. FoldsTo(k, 3, Own, Near(8)) /\ Complete(k, Near(8), {0})
      BY <2>2, <2>3, <2>4, FoldTrees, CompleteMaps
    <2> QED
      BY <2>1, <2>2, <2>3, <2>4, <2>5, <2>6, <2>7, MapsKnown, Shuffled
  <1> QED
    BY <1>1, <1>2, <1>3, <1>4, <1>5, <1>6

\* A row a warp.
LEMMA WarpPlanned ==
    /\ Planned(RowPerWarp) /\ Planned(RowPerWarpPlain)
    /\ Planned(SummedWarp) /\ Planned(GroupSums)
  <1>1. Planned(RowPerWarp)
    <2>1. PICK k : k = RowPerWarp
      OBVIOUS
    <2>2. k.warps = 1 /\ k.lanes = 32 /\ k.group = 32 /\ k.split = "row"
      BY <2>1 DEF RowPerWarp, Geometry
    <2>3. Len(k.prog) = 4
          /\ k.prog[1] = By(4)
          /\ k.prog[2] = By(1)
          /\ k.prog[3] = Fold(<<16, 8, 4, 2, 1>>)
          /\ k.prog[4] = Write({0})
      BY <2>1 DEF RowPerWarp, Geometry, OctetTree, Tree
    <2>4. Shape(k) /\ Stride(k) = 1 /\ Span(k) = 32
      BY <2>2 DEF Shape, Stride, Span
    <2>5. \A i \in 1..2 : GoodLoop(k, k.prog[i], Own)
      BY <2>2, <2>3, <2>4, GoodBy
    <2>6. k.prog[2].room = 1 /\ Grouped(k, Own)
      BY <2>2, <2>3, ByLoops, MapsGrouped
    <2>7. FoldsTo(k, 3, Own, Everyone) /\ Complete(k, Everyone, {0})
      BY <2>2, <2>3, <2>4, FoldTrees, CompleteMaps
    <2> QED
      BY <2>1, <2>2, <2>3, <2>4, <2>5, <2>6, <2>7, MapsKnown, Shuffled
  <1>2. Planned(RowPerWarpPlain)
    <2>1. PICK k : k = RowPerWarpPlain
      OBVIOUS
    <2>2. k.warps = 1 /\ k.lanes = 32 /\ k.group = 32 /\ k.split = "row"
      BY <2>1 DEF RowPerWarpPlain, Geometry
    <2>3. Len(k.prog) = 3
          /\ k.prog[1] = By(1)
          /\ k.prog[2] = Fold(<<16, 8, 4, 2, 1>>)
          /\ k.prog[3] = Write({0})
      BY <2>1 DEF RowPerWarpPlain, Geometry, OctetTree, Tree
    <2>4. Shape(k) /\ Stride(k) = 1 /\ Span(k) = 32
      BY <2>2 DEF Shape, Stride, Span
    <2>5. \A i \in 1..1 : GoodLoop(k, k.prog[i], Own)
      BY <2>2, <2>3, <2>4, GoodBy
    <2>6. k.prog[1].room = 1 /\ Grouped(k, Own)
      BY <2>2, <2>3, ByLoops, MapsGrouped
    <2>7. FoldsTo(k, 2, Own, Everyone) /\ Complete(k, Everyone, {0})
      BY <2>2, <2>3, <2>4, FoldTrees, CompleteMaps
    <2> QED
      BY <2>1, <2>2, <2>3, <2>4, <2>5, <2>6, <2>7, MapsKnown, Shuffled
  <1>3. Planned(SummedWarp)
    <2>1. PICK k : k = SummedWarp
      OBVIOUS
    <2>2. k.warps = 1 /\ k.lanes = 32 /\ k.group = 32 /\ k.split = "row"
      BY <2>1 DEF SummedWarp, Geometry
    <2>3. Len(k.prog) = 3
          /\ k.prog[1] = Summed(By(4), <<1, 2, 4, 8, 16>>, {0})
          /\ k.prog[2] = Summed(By(1), <<1, 2, 4, 8, 16>>, {0})
          /\ k.prog[3] = Write({0})
      BY <2>1 DEF SummedWarp, Geometry, OctetTree, Tree
    <2>4. Shape(k) /\ Stride(k) = 1 /\ Span(k) = 32
      BY <2>2 DEF Shape, Stride, Span
    <2>5. \A i \in 1..2 : GoodLoop(k, k.prog[i], Leading(32))
      <3>1. GoodLoop(k, Summed(By(4), <<1, 2, 4, 8, 16>>, {0}), Leading(32))
        BY <2>2, <2>4, GoodSummed
      <3>2. GoodLoop(k, Summed(By(1), <<1, 2, 4, 8, 16>>, {0}), Leading(32))
        BY <2>2, <2>4, GoodSummed
      <3> QED
        BY <2>3, <3>1, <3>2
    <2>6. k.prog[2].room = 1 /\ Grouped(k, Leading(32))
      BY <2>2, <2>3, ByLoops, ExchangingLoops, MapsGrouped DEF Gathered, Summed
    <2>7. Complete(k, Leading(32), {0})
      BY <2>2, CompleteMaps
    <2> QED
      BY <2>1, <2>2, <2>3, <2>4, <2>5, <2>6, <2>7, MapsKnown, Unshuffled
  <1>4. Planned(GroupSums)
    <2>1. PICK k : k = GroupSums
      OBVIOUS
    <2>2. k.warps = 1 /\ k.lanes = 32 /\ k.group = 32 /\ k.split = "row"
      BY <2>1 DEF GroupSums, Geometry
    <2>3. Len(k.prog) = 2
          /\ k.prog[1] = Exchanging(By(1), <<1, 2>>, {4 * g : g \in 0..7}, {0})
          /\ k.prog[2] = Write({0})
      BY <2>1 DEF GroupSums, Geometry, OctetTree, Tree
    <2>4. Shape(k) /\ Stride(k) = 1 /\ Span(k) = 32
      BY <2>2 DEF Shape, Stride, Span
    <2>5. \A i \in 1..1 : GoodLoop(k, k.prog[i], Leading(32))
      BY <2>2, <2>3, <2>4, GoodSummed
    <2>6. k.prog[1].room = 1 /\ Grouped(k, Leading(32))
      BY <2>2, <2>3, ByLoops, ExchangingLoops, MapsGrouped DEF Gathered, Summed
    <2>7. Complete(k, Leading(32), {0})
      BY <2>2, CompleteMaps
    <2> QED
      BY <2>1, <2>2, <2>3, <2>4, <2>5, <2>6, <2>7, MapsKnown, Unshuffled
  <1> QED
    BY <1>1, <1>2, <1>3, <1>4

\* Four rows, or four tokens, a warp.
LEMMA OctetsPlanned ==
    /\ \A rows : Planned(Octets(rows, <<By(4), By(1)>>))
    /\ Planned(Octets(4, <<By(8), By(4), By(1)>>))
    /\ Planned(FourRows)
    /\ Planned(FourTokens(<<By(4), By(1)>>, OctetTree))
    /\ Planned(GatheredRows)
    /\ Planned(FourTokens(<<Gathered(By(4)), Gathered(By(1))>>, <<>>))
    /\ Planned(OctetSums)
  <1>1. ASSUME NEW rows PROVE  Planned(Octets(rows, <<By(4), By(1)>>))
    <2>1. PICK k : k = Octets(rows, <<By(4), By(1)>>)
      OBVIOUS
    <2>2. k.warps = 1 /\ k.lanes = 32 /\ k.group = 8 /\ k.split = "row"
      BY <2>1 DEF Octets, Geometry
    <2>3. Len(k.prog) = 4
          /\ k.prog[1] = By(4)
          /\ k.prog[2] = By(1)
          /\ k.prog[3] = Fold(<<4, 1, 2>>)
          /\ k.prog[4] = Write(Leaders)
      BY <2>1 DEF Octets, Geometry, OctetTree, Tree
    <2>4. Shape(k) /\ Stride(k) = 1 /\ Span(k) = 8
      BY <2>2 DEF Shape, Stride, Span
    <2>5. \A i \in 1..2 : GoodLoop(k, k.prog[i], Own)
      BY <2>2, <2>3, <2>4, GoodBy
    <2>6. k.prog[2].room = 1 /\ Grouped(k, Own)
      BY <2>2, <2>3, ByLoops, MapsGrouped
    <2>7. FoldsTo(k, 3, Own, Near(8)) /\ Complete(k, Near(8), Leaders)
      BY <2>2, <2>3, <2>4, FoldTrees, CompleteMaps
    <2> QED
      BY <2>1, <2>2, <2>3, <2>4, <2>5, <2>6, <2>7, MapsKnown, Shuffled
  <1>2. Planned(Octets(4, <<By(8), By(4), By(1)>>))
    <2>1. PICK k : k = Octets(4, <<By(8), By(4), By(1)>>)
      OBVIOUS
    <2>2. k.warps = 1 /\ k.lanes = 32 /\ k.group = 8 /\ k.split = "row"
      BY <2>1 DEF Octets, Geometry
    <2>3. Len(k.prog) = 5
          /\ k.prog[1] = By(8)
          /\ k.prog[2] = By(4)
          /\ k.prog[3] = By(1)
          /\ k.prog[4] = Fold(<<4, 1, 2>>)
          /\ k.prog[5] = Write(Leaders)
      BY <2>1 DEF Octets, Geometry, OctetTree, Tree
    <2>4. Shape(k) /\ Stride(k) = 1 /\ Span(k) = 8
      BY <2>2 DEF Shape, Stride, Span
    <2>5. \A i \in 1..3 : GoodLoop(k, k.prog[i], Own)
      BY <2>2, <2>3, <2>4, GoodBy
    <2>6. k.prog[3].room = 1 /\ Grouped(k, Own)
      BY <2>2, <2>3, ByLoops, MapsGrouped
    <2>7. FoldsTo(k, 4, Own, Near(8)) /\ Complete(k, Near(8), Leaders)
      BY <2>2, <2>3, <2>4, FoldTrees, CompleteMaps
    <2> QED
      BY <2>1, <2>2, <2>3, <2>4, <2>5, <2>6, <2>7, MapsKnown, Shuffled
  <1>3. Planned(FourRows)
    <2>1. PICK k : k = FourRows
      OBVIOUS
    <2>2. k.warps = 1 /\ k.lanes = 32 /\ k.group = 8 /\ k.split = "row"
      BY <2>1 DEF FourRows, Octets, Geometry
    <2>3. Len(k.prog) = 4
          /\ k.prog[1] = By(4)
          /\ k.prog[2] = By(1)
          /\ k.prog[3] = Fold(<<4, 1, 2>>)
          /\ k.prog[4] = Write(Leaders)
      BY <2>1 DEF FourRows, Octets, Geometry, OctetTree, Tree
    <2>4. Shape(k) /\ Stride(k) = 1 /\ Span(k) = 8
      BY <2>2 DEF Shape, Stride, Span
    <2>5. \A i \in 1..2 : GoodLoop(k, k.prog[i], Own)
      BY <2>2, <2>3, <2>4, GoodBy
    <2>6. k.prog[2].room = 1 /\ Grouped(k, Own)
      BY <2>2, <2>3, ByLoops, MapsGrouped
    <2>7. FoldsTo(k, 3, Own, Near(8)) /\ Complete(k, Near(8), Leaders)
      BY <2>2, <2>3, <2>4, FoldTrees, CompleteMaps
    <2> QED
      BY <2>1, <2>2, <2>3, <2>4, <2>5, <2>6, <2>7, MapsKnown, Shuffled
  <1>4. Planned(FourTokens(<<By(4), By(1)>>, OctetTree))
    <2>1. PICK k : k = FourTokens(<<By(4), By(1)>>, OctetTree)
      OBVIOUS
    <2>2. k.warps = 1 /\ k.lanes = 32 /\ k.group = 8 /\ k.split = "row"
      BY <2>1 DEF FourTokens, Geometry
    <2>3. Len(k.prog) = 4
          /\ k.prog[1] = By(4)
          /\ k.prog[2] = By(1)
          /\ k.prog[3] = Fold(<<4, 1, 2>>)
          /\ k.prog[4] = Write(Leaders)
      BY <2>1 DEF FourTokens, Geometry, OctetTree, Tree
    <2>4. Shape(k) /\ Stride(k) = 1 /\ Span(k) = 8
      BY <2>2 DEF Shape, Stride, Span
    <2>5. \A i \in 1..2 : GoodLoop(k, k.prog[i], Own)
      BY <2>2, <2>3, <2>4, GoodBy
    <2>6. k.prog[2].room = 1 /\ Grouped(k, Own)
      BY <2>2, <2>3, ByLoops, MapsGrouped
    <2>7. FoldsTo(k, 3, Own, Near(8)) /\ Complete(k, Near(8), Leaders)
      BY <2>2, <2>3, <2>4, FoldTrees, CompleteMaps
    <2> QED
      BY <2>1, <2>2, <2>3, <2>4, <2>5, <2>6, <2>7, MapsKnown, Shuffled
  <1>5. Planned(GatheredRows)
    <2>1. PICK k : k = GatheredRows
      OBVIOUS
    <2>2. k.warps = 1 /\ k.lanes = 32 /\ k.group = 8 /\ k.split = "row"
      BY <2>1 DEF GatheredRows, Octets, Geometry
    <2>3. Len(k.prog) = 4
          /\ k.prog[1] = Gathered(By(4))
          /\ k.prog[2] = Gathered(By(1))
          /\ k.prog[3] = Fold(<<4, 1, 2>>)
          /\ k.prog[4] = Write(Leaders)
      BY <2>1 DEF GatheredRows, Octets, Geometry, OctetTree, Tree
    <2>4. Shape(k) /\ Stride(k) = 1 /\ Span(k) = 8
      BY <2>2 DEF Shape, Stride, Span
    <2>5. \A i \in 1..2 : GoodLoop(k, k.prog[i], Leading(8))
      BY <2>2, <2>3, <2>4, GoodGathered
    <2>6. k.prog[2].room = 1 /\ Grouped(k, Leading(8))
      BY <2>2, <2>3, ByLoops, ExchangingLoops, MapsGrouped DEF Gathered, Summed
    <2>7. FoldsTo(k, 3, Leading(8), Near(8)) /\ Complete(k, Near(8), Leaders)
      BY <2>2, <2>3, <2>4, FoldTrees, CompleteMaps
    <2> QED
      BY <2>1, <2>2, <2>3, <2>4, <2>5, <2>6, <2>7, MapsKnown, Shuffled
  <1>6. Planned(FourTokens(<<Gathered(By(4)), Gathered(By(1))>>, <<>>))
    <2>1. PICK k : k = FourTokens(<<Gathered(By(4)), Gathered(By(1))>>, <<>>)
      OBVIOUS
    <2>2. k.warps = 1 /\ k.lanes = 32 /\ k.group = 8 /\ k.split = "row"
      BY <2>1 DEF FourTokens, Geometry
    <2>3. Len(k.prog) = 3
          /\ k.prog[1] = Gathered(By(4))
          /\ k.prog[2] = Gathered(By(1))
          /\ k.prog[3] = Write(Leaders)
      BY <2>1 DEF FourTokens, Geometry, OctetTree, Tree
    <2>4. Shape(k) /\ Stride(k) = 1 /\ Span(k) = 8
      BY <2>2 DEF Shape, Stride, Span
    <2>5. \A i \in 1..2 : GoodLoop(k, k.prog[i], Leading(8))
      BY <2>2, <2>3, <2>4, GoodGathered
    <2>6. k.prog[2].room = 1 /\ Grouped(k, Leading(8))
      BY <2>2, <2>3, ByLoops, ExchangingLoops, MapsGrouped DEF Gathered, Summed
    <2>7. Complete(k, Leading(8), Leaders)
      BY <2>2, CompleteMaps
    <2> QED
      BY <2>1, <2>2, <2>3, <2>4, <2>5, <2>6, <2>7, MapsKnown, Unshuffled
  <1>7. Planned(OctetSums)
    <2>1. PICK k : k = OctetSums
      OBVIOUS
    <2>2. k.warps = 1 /\ k.lanes = 32 /\ k.group = 8 /\ k.split = "row"
      BY <2>1 DEF OctetSums, Geometry
    <2>3. Len(k.prog) = 3
          /\ k.prog[1] = Summed(By(4), <<1, 2, 4>>, Lanes)
          /\ k.prog[2] = Summed(By(1), <<1, 2, 4>>, Lanes)
          /\ k.prog[3] = Write(Leaders)
      BY <2>1 DEF OctetSums, Geometry, OctetTree, Tree
    <2>4. Shape(k) /\ Stride(k) = 1 /\ Span(k) = 8
      BY <2>2 DEF Shape, Stride, Span
    <2>5. \A i \in 1..2 : GoodLoop(k, k.prog[i], Near(8))
      <3>1. GoodLoop(k, Summed(By(4), <<1, 2, 4>>, Lanes), Near(8))
        BY <2>2, <2>4, GoodSummed
      <3>2. GoodLoop(k, Summed(By(1), <<1, 2, 4>>, Lanes), Near(8))
        BY <2>2, <2>4, GoodSummed
      <3> QED
        BY <2>3, <3>1, <3>2
    <2>6. k.prog[2].room = 1 /\ Grouped(k, Near(8))
      BY <2>2, <2>3, ByLoops, ExchangingLoops, MapsGrouped DEF Gathered, Summed
    <2>7. Complete(k, Near(8), Leaders)
      BY <2>2, CompleteMaps
    <2> QED
      BY <2>1, <2>2, <2>3, <2>4, <2>5, <2>6, <2>7, MapsKnown, Unshuffled
  <1> QED
    BY <1>1, <1>2, <1>3, <1>4, <1>5, <1>6, <1>7

\* Eight lanes, of which the first gathers the sums.
LEMMA EightPlanned ==
    /\ Planned(EightLanes(<<Gathered(By(4)), Gathered(By(1))>>))
    /\ Planned(EightLanes(<<Gathered(By(1))>>))
  <1>1. Planned(EightLanes(<<Gathered(By(4)), Gathered(By(1))>>))
    <2>1. PICK k : k = EightLanes(<<Gathered(By(4)), Gathered(By(1))>>)
      OBVIOUS
    <2>2. k.warps = 1 /\ k.lanes = 8 /\ k.group = 8 /\ k.split = "row"
      BY <2>1 DEF EightLanes, Geometry
    <2>3. Len(k.prog) = 3
          /\ k.prog[1] = Gathered(By(4))
          /\ k.prog[2] = Gathered(By(1))
          /\ k.prog[3] = Write({0})
      BY <2>1 DEF EightLanes, Geometry, OctetTree, Tree
    <2>4. Shape(k) /\ Stride(k) = 1 /\ Span(k) = 8
      BY <2>2 DEF Shape, Stride, Span
    <2>5. \A i \in 1..2 : GoodLoop(k, k.prog[i], Leading(8))
      BY <2>2, <2>3, <2>4, GoodGathered
    <2>6. k.prog[2].room = 1 /\ Grouped(k, Leading(8))
      BY <2>2, <2>3, ByLoops, ExchangingLoops, MapsGrouped DEF Gathered, Summed
    <2>7. Complete(k, Leading(8), {0})
      BY <2>2, CompleteMaps
    <2> QED
      BY <2>1, <2>2, <2>3, <2>4, <2>5, <2>6, <2>7, MapsKnown, Unshuffled
  <1>2. Planned(EightLanes(<<Gathered(By(1))>>))
    <2>1. PICK k : k = EightLanes(<<Gathered(By(1))>>)
      OBVIOUS
    <2>2. k.warps = 1 /\ k.lanes = 8 /\ k.group = 8 /\ k.split = "row"
      BY <2>1 DEF EightLanes, Geometry
    <2>3. Len(k.prog) = 2
          /\ k.prog[1] = Gathered(By(1))
          /\ k.prog[2] = Write({0})
      BY <2>1 DEF EightLanes, Geometry, OctetTree, Tree
    <2>4. Shape(k) /\ Stride(k) = 1 /\ Span(k) = 8
      BY <2>2 DEF Shape, Stride, Span
    <2>5. \A i \in 1..1 : GoodLoop(k, k.prog[i], Leading(8))
      BY <2>2, <2>3, <2>4, GoodGathered
    <2>6. k.prog[1].room = 1 /\ Grouped(k, Leading(8))
      BY <2>2, <2>3, ByLoops, ExchangingLoops, MapsGrouped DEF Gathered, Summed
    <2>7. Complete(k, Leading(8), {0})
      BY <2>2, CompleteMaps
    <2> QED
      BY <2>1, <2>2, <2>3, <2>4, <2>5, <2>6, <2>7, MapsKnown, Unshuffled
  <1> QED
    BY <1>1, <1>2

\* The groups of a warp take turns.
LEMMA StripesPlanned ==
    /\ Planned(StripedWarp(<<Stripes(4)>>, <<Fold(<<4, 1, 2, 16, 8>>)>>, {0}))
    /\ Planned(HalfWarps)
  <1>1. Planned(StripedWarp(<<Stripes(4)>>, <<Fold(<<4, 1, 2, 16, 8>>)>>, {0}))
    <2>1. PICK k : k = StripedWarp(<<Stripes(4)>>, <<Fold(<<4, 1, 2, 16, 8>>)>>, {0})
      OBVIOUS
    <2>2. k.warps = 1 /\ k.lanes = 32 /\ k.group = 8 /\ k.split = "stripe"
      BY <2>1 DEF StripedWarp, Geometry
    <2>3. Len(k.prog) = 3
          /\ k.prog[1] = Stripes(4)
          /\ k.prog[2] = Fold(<<4, 1, 2, 16, 8>>)
          /\ k.prog[3] = Write({0})
      BY <2>1 DEF StripedWarp, Geometry, OctetTree, Tree
    <2>4. Shape(k) /\ Stride(k) = 4 /\ Span(k) = 32
      BY <2>2 DEF Shape, Stride, Span
    <2>5. \A i \in 1..1 : GoodLoop(k, k.prog[i], Own)
      BY <2>2, <2>3, <2>4, GoodStripes
    <2>6. k.prog[1].room = 1 /\ Grouped(k, Own)
      BY <2>2, <2>3, StripesLoops, MapsGrouped
    <2>7. FoldsTo(k, 2, Own, Everyone) /\ Complete(k, Everyone, {0})
      BY <2>2, <2>3, <2>4, FoldTrees, CompleteMaps
    <2> QED
      BY <2>1, <2>2, <2>3, <2>4, <2>5, <2>6, <2>7, MapsKnown, Shuffled
  <1>2. Planned(HalfWarps)
    <2>1. PICK k : k = HalfWarps
      OBVIOUS
    <2>2. k.warps = 1 /\ k.lanes = 32 /\ k.group = 16 /\ k.split = "stripe"
      BY <2>1 DEF HalfWarps, Geometry
    <2>3. Len(k.prog) = 3
          /\ k.prog[1] = Stripes(2)
          /\ k.prog[2] = Fold(<<16, 8, 4, 2, 1>>)
          /\ k.prog[3] = Write({0})
      BY <2>1 DEF HalfWarps, Geometry, OctetTree, Tree
    <2>4. Shape(k) /\ Stride(k) = 2 /\ Span(k) = 32
      BY <2>2 DEF Shape, Stride, Span
    <2>5. \A i \in 1..1 : GoodLoop(k, k.prog[i], Own)
      BY <2>2, <2>3, <2>4, GoodStripes
    <2>6. k.prog[1].room = 1 /\ Grouped(k, Own)
      BY <2>2, <2>3, StripesLoops, MapsGrouped
    <2>7. FoldsTo(k, 2, Own, Everyone) /\ Complete(k, Everyone, {0})
      BY <2>2, <2>3, <2>4, FoldTrees, CompleteMaps
    <2> QED
      BY <2>1, <2>2, <2>3, <2>4, <2>5, <2>6, <2>7, MapsKnown, Shuffled
  <1> QED
    BY <1>1, <1>2

\* Stripes in batches of four.
LEMMA FourStripesPlanned ==
    Planned(StripedWarp(<<FourStripes, Stripes(4)>>, <<Fold(<<8, 16, 4, 1, 2>>)>>, Leaders))
  <1>1. PICK k : k = StripedWarp(<<FourStripes, Stripes(4)>>, <<Fold(<<8, 16, 4, 1, 2>>)>>, Leaders)
    OBVIOUS
  <1>2. k.warps = 1 /\ k.lanes = 32 /\ k.group = 8 /\ k.split = "stripe"
    BY <1>1 DEF StripedWarp, Geometry
  <1>3. Len(k.prog) = 4 /\ k.prog[1] = FourStripes /\ k.prog[2] = Stripes(4)
        /\ k.prog[3] = Fold(<<8, 16, 4, 1, 2>>) /\ k.prog[4] = Write(Leaders)
    BY <1>1 DEF StripedWarp, Geometry
  <1>4. Shape(k) /\ Stride(k) = 4 /\ Span(k) = 32
    BY <1>2 DEF Shape, Stride, Span
  <1>5. /\ FourStripes.op = "loop" /\ FourStripes.xors = <<>> /\ FourStripes.from = {}
        /\ FourStripes.adders = Lanes /\ FourStripes.room = 12
        /\ <<4, FourStripes.offs, FourStripes.room, FourStripes.step>> \in Steps
    BY DEF FourStripes, Loop, Steps
  <1>6. TermsAdded(k, FourStripes) = Held(Places(k), Own)
    BY <1>2, <1>5, PlainTerms
  <1>7. GoodLoop(k, k.prog[2], Own) /\ k.prog[2].room = 1
    BY <1>2, <1>3, <1>4, GoodStripes, StripesLoops
  <1>8. Grouped(k, Own)
    BY <1>2, MapsGrouped
  <1>9. k.prog[3].op = "fold" /\ k.prog[4].op = "write" /\ k.prog[4].lanes = Leaders
    BY <1>3, OtherInstructions DEF Write
  <1>10. Looping(k, 2, Own)
    <2>1. \A i \in 1..2 :
             /\ k.prog[i].op = "loop"
             /\ <<Stride(k), k.prog[i].offs, k.prog[i].room, k.prog[i].step>> \in Steps
             /\ k.prog[i].room = 12 => i = 1 /\ k.prog[1] = FourStripes
             /\ TermsAdded(k, k.prog[i]) = Held(Places(k), Own)
      <3>1. CASE TRUE
        BY <1>3, <1>4, <1>5, <1>6, <1>7 DEF GoodLoop
      <3> QED
        BY <3>1
    <2>2. \A i \in 3..4 : k.prog[i].op # "loop"
      BY <1>9
    <2> QED
      BY <1>3, <1>7, <1>8, <2>1, <2>2 DEF Looping, Grouped
  <1>11. FoldsTo(k, 3, Own, Everyone) /\ Complete(k, Everyone, Leaders)
    BY <1>2, <1>3, <1>4, FoldTrees, CompleteMaps
  <1>12. Writing(k, 2, Own, Everyone)
    BY <1>2, <1>3, <1>9, <1>11 DEF Writing
  <1> QED
    BY <1>1, <1>4, <1>10, <1>12, MapsKnown DEF Plan, Planned

\* Kernels that write weights out.
OneSlot(k) ==  k.split = "stripe" \/ k.split = "chunk" \/ k.group = k.lanes
\* A warp, or several, with one row.
LEMMA SlotZero ==
    ASSUME NEW k, k.lanes \in {1, 4, 32}, OneSlot(k)
    PROVE  Slots(k) = {0}
  <1>1. PICK N : N = k.lanes
    OBVIOUS
  <1>2. 0 \in 0..(N - 1) /\ \A l \in 0..(N - 1) : Slot(k, l) = 0
    <2>1. CASE k.split = "row"
      <3>1. N = k.group
        BY <1>1, <2>1 DEF OneSlot
      <3>2. \A l \in 0..(N - 1) : l \div N = 0
        BY <1>1
      <3> QED
        BY <1>1, <3>1, <3>2 DEF Slot
    <2>2. CASE k.split # "row"
      BY <1>1, <2>2 DEF Slot
    <2> QED
      BY <2>1, <2>2
  <1> QED
    BY <1>1, <1>2 DEF Slots

\* Every lane writes what it has computed.
LEMMA StoredPlanned ==
    /\ \A lanes \in {1, 4, 32} : Planned(Stored(lanes))
    /\ Planned(StoredByEight)
  <1>1. ASSUME NEW k, Shape(k), GoodLoop(k, k.prog[1], Own), k.prog[1].room = 1, Len(k.prog) = 2,
               k.prog[2] = Store, k.lanes \in {1, 4, 32}, OneSlot(k)
        PROVE  Planned(k)
    <2>1. k.prog[2].op = "store" /\ Grouped(k, Own)
      BY <1>1, OtherInstructions, MapsGrouped
    <2>2. \A i \in 1..1 : GoodLoop(k, k.prog[i], Own)
      BY <1>1
    <2>3. \A i \in (1 + 1)..2 : k.prog[i].op # "loop"
      BY <2>1
    <2>4. Looping(k, 1, Own)
      <3>1. 2 \in Nat /\ 2 > 1 /\ 1 \in 1..3 /\ Len(k.prog) = 2
        BY <1>1
      <3> QED
        BY <1>1, <2>1, <2>2, <2>3, <3>1, Looped
    <2>5. Storing(k, 1, Own, Own)
      BY <1>1, <2>1, SlotZero DEF Storing
    <2> QED
      BY <1>1, <2>4, <2>5, MapsKnown DEF Plan, Planned
  <1>2. ASSUME NEW lanes \in {1, 4, 32}
        PROVE  Planned(Stored(lanes))
    <2>1. PICK k : k = Stored(lanes)
      OBVIOUS
    <2>2. k.warps = 1 /\ k.lanes = lanes /\ k.group = lanes /\ k.split = "row"
      BY <2>1 DEF Stored, Geometry
    <2>3. Len(k.prog) = 2 /\ k.prog[1] = By(1) /\ k.prog[2] = Store
      BY <2>1 DEF Stored, Geometry
    <2>4. Shape(k) /\ Stride(k) = 1 /\ OneSlot(k)
      BY <2>2 DEF Shape, Stride, OneSlot
    <2>5. GoodLoop(k, k.prog[1], Own) /\ k.prog[1].room = 1
      BY <2>2, <2>3, <2>4, GoodBy, ByLoops
    <2> QED
      BY <1>1, <2>1, <2>2, <2>3, <2>4, <2>5
  <1>3. Planned(StoredByEight)
    <2>1. PICK k : k = StoredByEight
      OBVIOUS
    <2>2. k.warps = 8 /\ k.lanes = 32 /\ k.group = 32 /\ k.split = "stripe"
      BY <2>1 DEF StoredByEight, Geometry
    <2>3. Len(k.prog) = 2 /\ k.prog[1] = Stripes(8) /\ k.prog[2] = Store
      BY <2>1 DEF StoredByEight, Geometry
    <2>4. Shape(k) /\ Stride(k) = 8 /\ OneSlot(k)
      BY <2>2 DEF Shape, Stride, OneSlot
    <2>5. GoodLoop(k, k.prog[1], Own) /\ k.prog[1].room = 1
      BY <2>2, <2>3, <2>4, GoodStripes, StripesLoops
    <2> QED
      BY <1>1, <2>1, <2>2, <2>3, <2>4, <2>5
  <1> QED
    BY <1>2, <1>3

\* Warps that put their sums together in shared memory.
SummedBy(k, loops, S, E, lanes) ==
    /\ Shape(k) /\ k.warps \in {2, 4} /\ k.lanes = 32 /\ OneSlot(k)
    /\ \A i \in 1..loops : GoodLoop(k, k.prog[i], S)
    /\ k.prog[loops].room = 1 /\ Grouped(k, S)
    /\ Len(k.prog) = loops + 5 /\ FoldsTo(k, loops + 1, S, E)
    /\ k.prog[loops + 2] = Share(0..(k.warps - 1), lanes) /\ k.prog[loops + 3] = Barrier
    /\ k.prog[loops + 4] = SumPartials(lanes) /\ k.prog[loops + 5] = Write({0})
    /\ lanes \subseteq Lanes
    /\ \A l \in lanes : E[l] \subseteq Lanes
    /\ \A m \in Lanes : \E l \in lanes : m \in E[l]
    /\ \A l, r \in lanes : l # r => E[l] \cap E[r] = {}

\* Shared partial sums: every lane that shares holds lanes of its own.
LEMMA SummedPlanned ==
    ASSUME NEW k, NEW loops \in 1..3, NEW S \in Maps, NEW E \in Maps, NEW lanes,
           SummedBy(k, loops, S, E, lanes)
    PROVE  Planned(k)
  <1>1. /\ k.prog[loops + 1].op = "fold" /\ k.prog[loops + 2].op = "share" /\ k.prog[loops + 3].op = "barrier"
        /\ k.prog[loops + 4].op = "sum" /\ k.prog[loops + 5].op = "write"
    BY OtherInstructions DEF FoldsTo, SummedBy
  <1>2. \A i \in (loops + 1)..(loops + 5) : k.prog[i].op # "loop"
    <2>1. \A i \in (loops + 1)..(loops + 5) :
             i = loops + 1 \/ i = loops + 2 \/ i = loops + 3 \/ i = loops + 4 \/ i = loops + 5
      OBVIOUS
    <2> QED
      BY <1>1, <2>1
  <1>3. Looping(k, loops, S)
    <2>1. loops + 5 \in Nat /\ loops + 5 > loops /\ Len(k.prog) = loops + 5
      BY DEF SummedBy
    <2> QED
      BY <1>2, <2>1, Looped DEF SummedBy
  <1>4. /\ k.prog[loops + 2].by = 0..(k.warps - 1) /\ k.prog[loops + 2].lanes = lanes
        /\ k.prog[loops + 4].lanes = lanes /\ k.prog[loops + 5].lanes = {0}
    BY OtherInstructions DEF Write, SummedBy
  <1>5. UNION {E[l] : l \in k.prog[loops + 2].lanes} = Lanes
    BY <1>4 DEF SummedBy
  <1>6. Slots(k) = {0}
    <2>1. k.lanes \in {1, 4, 32} /\ OneSlot(k)
      BY DEF SummedBy
    <2> QED
      BY <2>1, SlotZero
  <1>7. /\ k.prog[loops + 2].lanes \subseteq Lanes
        /\ \A l, r \in k.prog[loops + 2].lanes : l # r => E[l] \cap E[r] = {}
    BY <1>4 DEF SummedBy
  <1>8. Summing(k, loops, S, E)
    BY <1>1, <1>4, <1>5, <1>6, <1>7 DEF Summing, SummedBy
  <1> QED
    BY <1>3, <1>8 DEF Plan, Planned, SummedBy

\* Two or four warps with a chunk of the row each.
LEMMA ChunksPlanned == \A KN \in {2, 4} : Planned(ChunkPerWarp(KN))
  <1> TAKE KN \in {2, 4}
  <1>1. PICK k : k = ChunkPerWarp(KN)
    OBVIOUS
  <1>2. k.warps = KN /\ k.lanes = 32 /\ k.group = 32 /\ k.split = "chunk"
    BY <1>1 DEF ChunkPerWarp, Geometry
  <1>3. Len(k.prog) = 7 /\ k.prog[1] = By(4) /\ k.prog[2] = By(1) /\ k.prog[3] = Fold(<<16, 8, 4, 2, 1>>)
        /\ k.prog[4] = Share(0..(KN - 1), {0}) /\ k.prog[5] = Barrier /\ k.prog[6] = SumPartials({0})
        /\ k.prog[7] = Write({0})
    BY <1>1 DEF ChunkPerWarp, Geometry, Tree
  <1>4. Shape(k) /\ Stride(k) = 1 /\ Span(k) = 32 /\ OneSlot(k)
    BY <1>2 DEF Shape, Stride, Span, OneSlot
  <1>5. \A i \in 1..2 : GoodLoop(k, k.prog[i], Own)
    BY <1>2, <1>3, <1>4, GoodBy
  <1>6. k.prog[2].room = 1 /\ Grouped(k, Own)
    BY <1>2, <1>3, ByLoops, MapsGrouped
  <1>7. FoldsTo(k, 3, Own, Everyone)
    BY <1>3, <1>4, FoldTrees
  <1>8. /\ {0} \subseteq Lanes /\ \A l \in {0} : Everyone[l] \subseteq Lanes
        /\ \A m \in Lanes : \E l \in {0} : m \in Everyone[l]
    BY DEF Everyone, Lanes
  <1>9. \A l, r \in {0} : l # r => Everyone[l] \cap Everyone[r] = {}
    OBVIOUS
  <1>10. 2 \in 1..3
    OBVIOUS
  <1>11. k.warps \in {2, 4} /\ Len(k.prog) = 2 + 5 /\ k.prog[2 + 2] = Share(0..(k.warps - 1), {0})
         /\ k.prog[2 + 3] = Barrier /\ k.prog[2 + 4] = SumPartials({0}) /\ k.prog[2 + 5] = Write({0})
         /\ FoldsTo(k, 2 + 1, Own, Everyone)
    BY <1>2, <1>3, <1>7
  <1>12. Planned(k)
    <2>1. SummedBy(k, 2, Own, Everyone, {0})
      BY <1>2, <1>4, <1>5, <1>6, <1>8, <1>9, <1>11 DEF SummedBy
    <2> QED
      BY <1>10, <2>1, MapsKnown, SummedPlanned
  <1> QED
    BY <1>1, <1>12

\* Two warps whose octets take turns.
LEMMA SplitPlanned == Planned(SplitStripes)
  <1>1. PICK k : k = SplitStripes
    OBVIOUS
  <1>2. k.warps = 2 /\ k.lanes = 32 /\ k.group = 8 /\ k.split = "stripe"
    BY <1>1 DEF SplitStripes, Geometry
  <1>3. Len(k.prog) = 6 /\ k.prog[1] = Stripes(8) /\ k.prog[2] = Fold(<<4, 1, 2>>)
        /\ k.prog[3] = Share({0, 1}, Leaders) /\ k.prog[4] = Barrier /\ k.prog[5] = SumPartials(Leaders)
        /\ k.prog[6] = Write({0})
    BY <1>1 DEF SplitStripes, Geometry, OctetTree
  <1>4. Shape(k) /\ Stride(k) = 8 /\ Span(k) = 32 /\ OneSlot(k)
    BY <1>2 DEF Shape, Stride, Span, OneSlot
  <1>5. \A i \in 1..1 : GoodLoop(k, k.prog[i], Own)
    BY <1>2, <1>3, <1>4, GoodStripes
  <1>6. k.prog[1].room = 1 /\ Grouped(k, Own)
    BY <1>2, <1>3, StripesLoops, MapsGrouped
  <1>7. FoldsTo(k, 2, Own, Near(8))
    BY <1>3, <1>4, FoldTrees
  <1>8. /\ Leaders \subseteq Lanes /\ \A l \in Leaders : Near(8)[l] \subseteq Lanes
        /\ \A m \in Lanes : \E l \in Leaders : m \in Near(8)[l]
    <2>1. \A m \in Lanes : \E l \in Leaders : m \div 8 = l \div 8
      <3>1. \A m \in Lanes : m \div 8 \in 0..3
        BY DEF Lanes
      <3>2. 0 \div 8 = 0 /\ 8 \div 8 = 1 /\ 16 \div 8 = 2 /\ 24 \div 8 = 3
        OBVIOUS
      <3> QED
        BY <3>1, <3>2 DEF Leaders
    <2>2. Leaders \subseteq Lanes
      BY DEF Leaders, Lanes
    <2> QED
      BY <2>1, <2>2 DEF Near
  <1>9. \A l, r \in Leaders : l # r => Near(8)[l] \cap Near(8)[r] = {}
    <2>1. \A l, r \in Leaders : l # r => l \div 8 # r \div 8
      BY DEF Leaders
    <2> QED
      BY <1>8, <2>1 DEF Near
  <1>10. 0..(k.warps - 1) = {0, 1}
    BY <1>2
  <1>11. k.warps \in {2, 4} /\ Len(k.prog) = 1 + 5 /\ k.prog[1 + 2] = Share(0..(k.warps - 1), Leaders)
         /\ k.prog[1 + 3] = Barrier /\ k.prog[1 + 4] = SumPartials(Leaders) /\ k.prog[1 + 5] = Write({0})
         /\ FoldsTo(k, 1 + 1, Own, Near(8)) /\ 1 \in 1..3
    BY <1>2, <1>3, <1>7, <1>10
  <1>12. Planned(k)
    <2>1. SummedBy(k, 1, Own, Near(8), Leaders)
      BY <1>2, <1>4, <1>5, <1>6, <1>8, <1>9, <1>11 DEF SummedBy
    <2> QED
      BY <1>11, <2>1, MapsKnown, SummedPlanned
  <1> QED
    BY <1>1, <1>12

\* Two warps, of which the first adds the sums of the second.
LEMMA MmvqPlanned == Planned(Mmvq)
  <1>1. PICK k : k = Mmvq
    OBVIOUS
  <1>2. k.warps = 2 /\ k.lanes = 32 /\ k.group = 16 /\ k.split = "stripe"
    BY <1>1 DEF Mmvq, TwoWarpStripes, Geometry
  <1>3. Len(k.prog) = 6 /\ k.prog[1] = Stripes(4) /\ k.prog[2] = Share({1}, Lanes)
        /\ k.prog[3] = Barrier /\ k.prog[4] = AddLanes /\ k.prog[5] = Fold(<<16, 8, 4, 2, 1>>)
        /\ k.prog[6] = Write({0})
    BY <1>1 DEF Mmvq, TwoWarpStripes, Geometry, Tree
  <1>4. Shape(k) /\ Stride(k) = 4 /\ Span(k) = 32 /\ OneSlot(k)
    BY <1>2 DEF Shape, Stride, Span, OneSlot
  <1>5. \A i \in 1..1 : GoodLoop(k, k.prog[i], Own)
    BY <1>2, <1>3, <1>4, GoodStripes
  <1>6. k.prog[1].room = 1 /\ Grouped(k, Own)
    BY <1>2, <1>3, StripesLoops, MapsGrouped
  <1>7. FoldsTo(k, 5, Own, Everyone)
    BY <1>3, <1>4, FoldTrees
  <1>8. /\ k.prog[2].op = "share" /\ k.prog[3].op = "barrier" /\ k.prog[4].op = "add"
        /\ k.prog[5].op = "fold" /\ k.prog[6].op = "write" /\ k.prog[6].lanes = {0}
    BY <1>3, OtherInstructions DEF Write
  <1>9. \A i \in (1 + 1)..6 : k.prog[i].op # "loop"
    <2>1. \A i \in (1 + 1)..6 : i \in {2, 3, 4, 5, 6}
      OBVIOUS
    <2> QED
      BY <1>8, <2>1
  <1>10. Looping(k, 1, Own)
    <2>1. 6 \in Nat /\ 6 > 1 /\ 1 \in 1..3 /\ Len(k.prog) = 6
      BY <1>3
    <2> QED
      BY <1>5, <1>6, <1>9, <2>1, Looped
  <1>11. Everyone[0] = Lanes
    BY DEF Everyone, Lanes
  <1>12. Slots(k) = {0}
    BY <1>2, <1>4, SlotZero
  <1>13. Adding(k, 1, Own, Everyone)
    BY <1>2, <1>3, <1>7, <1>8, <1>11, <1>12 DEF Adding
  <1> QED
    BY <1>1, <1>4, <1>10, <1>13, MapsKnown DEF Plan, Planned

-----------------------------------------------------------------------------
(* Every kernel of the tables has a plan.                                  *)
KernelPlanned(e) == Planned(e.geo)

\* The format and the terms of a kernel are no part of its plan.
LEMMA KnownKernel ==
    ASSUME NEW g, Planned(g)
    PROVE  \A f, t, s : KernelPlanned(Kernel(f, t, s, g))
  BY DEF KernelPlanned, Kernel

\* The kernels over floating-point and 32-wide integer activations.
LEMMA GemvKnown == \A x \in DOMAIN GemvKernels : KernelPlanned(GemvKernels[x])
  <1>1. /\ \A f, t, s : KernelPlanned(Kernel(f, t, s, RowPerWarp))
        /\ \A f, t, s : KernelPlanned(Kernel(f, t, s, RowPerWarpPlain))
        /\ \A f, t, s : KernelPlanned(Kernel(f, t, s, FourRows))
        /\ \A f, t, s : KernelPlanned(Kernel(f, t, s, Mmvq))
        /\ \A f, t, s : KernelPlanned(Kernel(f, t, s, HalfWarps))
        /\ \A f, t, s : KernelPlanned(Kernel(f, t, s, SplitStripes))
    BY KnownKernel, WarpPlanned, OctetsPlanned, MmvqPlanned, StripesPlanned, SplitPlanned
  <1>2. /\ \A f, t, s : KernelPlanned(Kernel(f, t, s, ChunkPerWarp(2)))
        /\ \A f, t, s : KernelPlanned(Kernel(f, t, s, ChunkPerWarp(4)))
    BY KnownKernel, ChunksPlanned
  <1>3. /\ \A f, t, s : KernelPlanned(Kernel(f, t, s, Octets(8, <<By(4), By(1)>>)))
        /\ \A f, t, s : KernelPlanned(Kernel(f, t, s, Octets(16, <<By(4), By(1)>>)))
        /\ \A f, t, s : KernelPlanned(Kernel(f, t, s, Octets(4, <<By(8), By(4), By(1)>>)))
    BY KnownKernel, OctetsPlanned
  <1>4. \A f, t, s :
           KernelPlanned(Kernel(f, t, s, StripedWarp(<<FourStripes, Stripes(4)>>, <<Fold(<<8, 16, 4, 1, 2>>)>>, Leaders)))
    BY KnownKernel, FourStripesPlanned
  <1> QED
    BY <1>1, <1>2, <1>3, <1>4 DEF GemvKernels

\* The kernels over Q8_K activations.
LEMMA Q8KKnown == \A x \in DOMAIN Q8KKernels : KernelPlanned(Q8KKernels[x])
  <1>1. /\ \A f, t, s : KernelPlanned(Kernel(f, t, s, FourRows))
        /\ \A f, t, s : KernelPlanned(Kernel(f, t, s, Eight6))
        /\ \A f, t, s : KernelPlanned(Kernel(f, t, s, GatheredRows))
        /\ \A f, t, s : KernelPlanned(Kernel(f, t, s, SummedWarp))
        /\ \A f, t, s : KernelPlanned(Kernel(f, t, s, OctetSums))
        /\ \A f, t, s : KernelPlanned(Kernel(f, t, s, GroupSums))
    BY KnownKernel, WarpPlanned, OctetsPlanned, SmallPlanned
  <1>2. /\ \A f, t, s : KernelPlanned(Kernel(f, t, s, EightLanes(<<Gathered(By(4)), Gathered(By(1))>>)))
        /\ \A f, t, s : KernelPlanned(Kernel(f, t, s, EightLanes(<<Gathered(By(1))>>)))
    BY KnownKernel, EightPlanned
  <1>3. /\ \A f, t, s : KernelPlanned(Kernel(f, t, s, FourTokens(<<Gathered(By(4)), Gathered(By(1))>>, <<>>)))
        /\ \A f, t, s : KernelPlanned(Kernel(f, t, s, FourTokens(<<By(4), By(1)>>, OctetTree)))
    BY KnownKernel, OctetsPlanned
  <1>4. \A f, t, s : KernelPlanned(Kernel(f, t, s, StripedWarp(<<Stripes(4)>>, <<Fold(<<4, 1, 2, 16, 8>>)>>, {0})))
    BY KnownKernel, StripesPlanned
  <1>5. /\ \A f, t, s :
              KernelPlanned(Kernel(f, t, s, Geometry(1, 8, 8, "row", 1, <<By(1)>> \o OctetTree \o <<Write({0})>>)))
        /\ \A f, t, s :
              KernelPlanned(Kernel(f, t, s, Geometry(1, 4, 4, "row", 1, <<By(1), Fold(<<1, 2>>), Write({0})>>)))
    BY KnownKernel, SmallPlanned
  <1>6. /\ KernelPlanned(kQGemvKxQ8K_BatchGU) /\ KernelPlanned(kQGemvKxQ8K_BatchDownR)
        /\ KernelPlanned(kQGemvQ8_0xQ8K_BatchGU) /\ KernelPlanned(kQGemvQ8_0xQ8K_BatchDown)
        /\ KernelPlanned(kQGemvQ8_0xQ8K_BatchDownR) /\ KernelPlanned(kQGemvQ2KIntFusedGU)
        /\ \A f, t : KernelPlanned(kQGemvQ8KFusedGU(f, t))
    BY <1>1, <1>2, <1>5 DEF kQGemvKxQ8K_BatchGU, kQGemvKxQ8K_BatchDownR, kQGemvQ8_0xQ8K_BatchGU,
       kQGemvQ8_0xQ8K_BatchDown, kQGemvQ8_0xQ8K_BatchDownR, kQGemvQ2KIntFusedGU, kQGemvQ8KFusedGU
  <1> QED
    BY <1>1, <1>2, <1>3, <1>4, <1>5, <1>6 DEF Q8KKernels

\* The kernels that write weights out.
LEMMA StoreKnown == \A x \in DOMAIN StoreKernels : KernelPlanned(StoreKernels[x])
  <1>1. /\ \A f, t, s : KernelPlanned(Kernel(f, t, s, StoredByEight))
        /\ \A f, t, s : \A lanes \in {1, 4, 32} : KernelPlanned(Kernel(f, t, s, Stored(lanes)))
    BY KnownKernel, StoredPlanned
  <1> QED
    BY <1>1 DEF StoreKernels

\* The kernels of the CPU.
LEMMA HostKnown ==
    /\ \A x \in DOMAIN CpuKernels : KernelPlanned(CpuKernels[x])
    /\ \A x \in DOMAIN Q2KHostKernels : KernelPlanned(Q2KHostKernels[x])
    /\ \A x \in DOMAIN HostKernels : KernelPlanned(HostKernels[x])
  <1>1. /\ \A f, t, s : KernelPlanned(Kernel(f, t, s, RowPerLane))
        /\ \A f, t, s : KernelPlanned(Kernel(f, t, s, RowTileOfSums))
        /\ \A f, t, s, rows : KernelPlanned(Kernel(f, t, s, RowTile(rows)))
        /\ \A f, t, s : \A lanes \in {1, 4, 32} : KernelPlanned(Kernel(f, t, s, Stored(lanes)))
    BY KnownKernel, SmallPlanned, StoredPlanned
  <1>2. \A x \in DOMAIN CpuKernels : KernelPlanned(CpuKernels[x])
    BY <1>1 DEF CpuKernels
  <1>3. \A x \in DOMAIN Q2KHostKernels : KernelPlanned(Q2KHostKernels[x])
    BY <1>1 DEF Q2KHostKernels
  <1>4. \A x \in DOMAIN HostKernels : KernelPlanned(HostKernels[x])
    BY <1>1 DEF HostKernels
  <1> QED
    BY <1>2, <1>3, <1>4

\* A kernel is one of the tables'.
LEMMA KernelsKnown == \A x \in DOMAIN Kernels : \E i \in 1..6 : x \in DOMAIN Tables[i] /\ Kernels[x] = Tables[i][x]
  <1>1. DOMAIN Tables = 1..6
    BY DEF Tables
  <1> QED
    BY <1>1 DEF Kernels

\* Every kernel has a plan.
LEMMA KernelsPlanned == \A x \in DOMAIN Kernels : Planned(Kernels[x].geo)
  <1>1. /\ Tables[1] = GemvKernels /\ Tables[2] = Q8KKernels /\ Tables[3] = StoreKernels
        /\ Tables[4] = CpuKernels /\ Tables[5] = Q2KHostKernels /\ Tables[6] = HostKernels
    BY DEF Tables
  <1>2. \A i \in 1..6 : i = 1 \/ i = 2 \/ i = 3 \/ i = 4 \/ i = 5 \/ i = 6
    OBVIOUS
  <1>3. \A i \in 1..6 : \A x \in DOMAIN Tables[i] : KernelPlanned(Tables[i][x])
    BY <1>1, <1>2, GemvKnown, Q8KKnown, StoreKnown, HostKnown
  <1> QED
    BY <1>3, KernelsKnown DEF KernelPlanned

-----------------------------------------------------------------------------
(* The initial states.                                                     *)
LEMMA InitTypes ==
    ASSUME StripesFit, ChunksFit, Init
    PROVE  Planned(kernel) /\ Types
  <1>1. launch \in Launches /\ launch.kernel \in DOMAIN Kernels /\ launch.n \in Nat
        /\ kernel = Kernels[launch.kernel].geo
    BY SizesAssumption DEF Init, Launches
  <1>2. Planned(kernel)
    BY <1>1, KernelsPlanned
  <1>3. Shape(kernel)
    BY <1>2 DEF Planned, Plan
  <1>4. /\ kernel.prog[1] = FourStripes => launch.n % 16 < 12
        /\ kernel.split = "chunk" => launch.n >= kernel.warps
    BY <1>1 DEF StripesFit, ChunksFit
  <1>5. \A w \in Warps, g \in Groups(kernel) : FirstBlock(kernel, launch.n, w, g) \in Nat
    <2> TAKE w \in Warps, g \in Groups(kernel)
    <2>1. PICK W, N, G : W = kernel.warps /\ N = kernel.lanes /\ G = kernel.group
      OBVIOUS
    <2>2. W \in {1, 2, 4, 8} /\ N \in {1, 4, 8, 32} /\ G \in {1, 4, 8, 16, 32}
      BY <1>3, <2>1 DEF Shape
    <2>3. N \div G \in Nat
      BY <2>2
    <2>4. w \in Nat /\ g \in Nat
      BY <2>1, <2>2, <2>3 DEF Warps, Groups
    <2>5. CASE kernel.split \in {"row", "tile"}
      BY <2>5 DEF FirstBlock
    <2>6. CASE kernel.split = "stripe"
      <3>1. FirstBlock(kernel, launch.n, w, g) = w * (N \div G) + g
        BY <2>1, <2>6 DEF FirstBlock
      <3>2. PICK q \in Nat : q = N \div G
        BY <2>3
      <3> QED
        BY <2>4, <3>1, <3>2
    <2>7. CASE kernel.split = "chunk"
      <3>1. FirstBlock(kernel, launch.n, w, g) = (w * launch.n) \div W
        BY <2>1, <2>7 DEF FirstBlock
      <3>2. w * launch.n \in Nat
        BY <1>1, <2>4
      <3>3. PICK q \in Nat : q = w * launch.n
        BY <3>2
      <3>4. q \div W \in Nat
        BY <2>2
      <3> QED
        BY <3>1, <3>3, <3>4
    <2> QED
      BY <1>3, <2>5, <2>6, <2>7 DEF Shape
  <1>6. pos \in [Warps -> [Groups(kernel) -> Nat]]
    BY <1>5 DEF Init
  <1>7. Len(kernel.prog) \in Nat
    BY <1>2 DEF Planned, Plan, Writing, Storing, Summing, Adding
  <1>8. pc \in [Warps -> 1..(Len(kernel.prog) + 1)]
    BY <1>7 DEF Init
  <1> QED
    BY <1>1, <1>2, <1>4, <1>6, <1>8 DEF Types, Init

\* No lane has computed anything.
LEMMA NothingYet ==
    ASSUME Init, Types, Shape(kernel)
    PROVE  \A w \in Warps :
              /\ \A g \in Groups(kernel) : Reached(kernel, launch.n, w, g, pos[w][g])
              /\ \A m \in Lanes : Piece(w)[m] = {}
              /\ \A M \in Maps : regs[w] = Held(Piece(w), M)
  <1> TAKE w \in Warps
  <1>1. PICK s : s = Stride(kernel) /\ s \in {1, 2, 4, 8}
    BY DEF Shape, Stride
  <1>2. \A a \in Nat : Blocks(s, a, a) = {} /\ (a - a) % s = 0
    BY <1>1 DEF Blocks
  <1>3. \A g \in Groups(kernel) :
           pos[w][g] = FirstBlock(kernel, launch.n, w, g) /\ FirstBlock(kernel, launch.n, w, g) \in Nat
    <2>1. \A g \in Groups(kernel) : pos[w][g] \in Nat
      BY DEF Types
    <2>2. \A g \in Groups(kernel) : pos[w][g] = FirstBlock(kernel, launch.n, w, g)
      BY DEF Init
    <2> QED
      BY <2>1, <2>2
  <1>4. \A g \in Groups(kernel) : Reached(kernel, launch.n, w, g, pos[w][g])
    BY <1>1, <1>2, <1>3 DEF Reached
  <1>5. \A m \in Lanes : m < kernel.lanes => m \div kernel.group \in Groups(kernel)
    BY LaneGroup
  <1>6. \A m \in Lanes : Piece(w)[m] = {}
    <2> TAKE m \in Lanes
    <2>1. CASE m < kernel.lanes
      <3>1. PICK a \in Nat : a = FirstBlock(kernel, launch.n, w, m \div kernel.group)
        BY <1>3, <1>5, <2>1
      <3>2. Piece(w)[m] = Blocks(s, a, a) \X {m % kernel.group}
        BY <1>1, <1>3, <1>5, <2>1, <3>1 DEF Piece, PieceOf
      <3> QED
        BY <1>2, <3>2
    <2>2. CASE ~ (m < kernel.lanes)
      BY <2>2 DEF Piece, PieceOf
    <2> QED
      BY <2>1, <2>2
  <1>7. ASSUME NEW M \in Maps
        PROVE  regs[w] = Held(Piece(w), M)
    <2>1. \A l \in Lanes : M[l] \subseteq Lanes
      BY <1>7, MapsType
    <2>2. \A l \in Lanes : UNION {Piece(w)[m] : m \in M[l]} = {}
      BY <1>6, <2>1
    <2>3. Held(Piece(w), M) = [l \in Lanes |-> EmptyBag]
      BY <2>2 DEF Held, EmptyBag
    <2> QED
      BY <2>3 DEF Init
  <1> QED
    BY <1>4, <1>6, <1>7

\* The initial states satisfy the invariant.
LEMMA InitInv == ASSUME StripesFit, ChunksFit, Init PROVE Inv
  <1>1. Planned(kernel) /\ Types
    BY InitTypes
  <1>2. PICK loops \in 1..3, S \in Maps, E \in Maps : Plan(kernel, loops, S, E)
    BY <1>1 DEF Planned
  <1>3. Shape(kernel) /\ Looping(kernel, loops, S)
    BY <1>2 DEF Plan
  <1>4. PICK n \in Nat : n = Len(kernel.prog) /\ n > loops
    BY <1>2 DEF Plan, Writing, Storing, Summing, Adding
  <1>5. \A w \in Warps : pc[w] = 1
    BY DEF Init
  <1>6. 0 \in Warps
    BY <1>3 DEF Shape, Warps
  <1>7. LoopState(loops, S)
    <2>1. \A w \in Warps : \A g \in Groups(kernel) : pos[w][g] = FirstBlock(kernel, launch.n, w, g)
      BY DEF Init
    <2> QED
      BY <1>1, <1>3, <1>5, <2>1, NothingYet DEF LoopState
  <1>8. Writing(kernel, loops, S, E) => WritingState(loops, S, E)
    BY <1>5, <1>6 DEF WritingState
  <1>9. Storing(kernel, loops, S, E) => StoringState(loops, S, E)
    <2> HAVE Storing(kernel, loops, S, E)
    <2>1. {v \in Warps : pc[v] = loops + 2} = {}
      BY <1>5
    <2>2. UNION {Whole(w) : w \in {v \in Warps : pc[v] = loops + 2}} = {}
      BY <2>1
    <2>3. out[0] = EmptyBag
      BY DEF Storing, Init
    <2>4. Own \in Maps
      BY MapsKnown
    <2> QED
      BY <1>1, <1>3, <2>2, <2>3, <2>4, NothingYet DEF StoringState, EmptyBag
  <1>10. Summing(kernel, loops, S, E) => SummingState(loops, S, E)
    BY <1>5, <1>6 DEF SummingState, Left
  <1>11. Adding(kernel, loops, S, E) => AddingState(loops, S, E)
    <2> HAVE Adding(kernel, loops, S, E)
    <2>1. 1 \in Warps
      BY DEF Adding, Warps
    <2> QED
      BY <1>5, <1>6, <2>1 DEF AddingState, Left
  <1>12. Written
    BY <1>4, <1>5, <1>6 DEF Written
  <1>13. State(loops, S, E)
    BY <1>7, <1>8, <1>9, <1>10, <1>11, <1>12 DEF State
  <1> QED
    BY <1>1, <1>2, <1>13 DEF Inv

\* Inv holds in every state.  StripesFit and ChunksFit leave out the two
\* launches the code gets wrong.
THEOREM Invariance == ASSUME StripesFit, ChunksFit PROVE Spec => []Inv
  <1>1. Init => Inv
    BY InitInv
  <1>2. Inv /\ [Next]_vars => Inv'
    BY InvKept
  <1> QED
    BY <1>1, <1>2, PTL DEF Spec

\* Whatever the number of blocks: no lane reads past its row, and no warp
\* reads shared memory that has not been written (FirstBlock, LastBlock and
\* the barrier of the kernels).
THEOREM TypeCorrect == ASSUME StripesFit, ChunksFit PROVE Spec => []TypeOK
  <1>1. Inv => TypeOK
    BY InvTypeOK
  <1> QED
    BY <1>1, Invariance, PTL

\* Whatever the number of blocks, the running sums hold terms of blocks of
\* the row only (the block ownership the kernels' comments state).
THEOREM LanesKeepToTheirRow == ASSUME StripesFit, ChunksFit PROVE Spec => []OwnBlocks
  <1>1. Inv => OwnBlocks
    BY InvOwnBlocks
  <1> QED
    BY <1>1, Invariance, PTL

\* Whatever the number of blocks, and in whatever order the warps run: a
\* dot product has the term of every block and lane exactly once.
THEOREM EveryRowComplete == ASSUME StripesFit, ChunksFit PROVE Spec => []RowComplete
  <1>1. Inv => RowComplete
    BY InvRowComplete
  <1> QED
    BY <1>1, Invariance, PTL

-----------------------------------------------------------------------------
(* The rows a launch writes.                                               *)

\* The kernels of several rows a warp.
FourRowKernels ==
    {"kQGemvQ2KxQ81_4xW", "kQGemvQ2KxW4", "kQGemvQ2KxW4_words", "kQGemvQ2KxW4Resid", "kQGemvQ2KxW4_RP",
     "kQGemvQ2KxW4b8", "kQGemvQ3KxW4", "kQGemvQ6KxQ8K_4xW", "kQGemvQ5KxQ8K_4xW", "kQGemvQ4KxQ8K_4xW",
     "kQGemvQ2KxQ8K_4xW", "kQGemvQ8K_4xW_IQ2S", "kQGemvQ8K_4xW_dp4a_IQ2S", "kQGemvQ8K_4xW_IQ2XS",
     "kQGemvQ8K_4xW_dp4a_IQ2XS", "kQGemvQ8K_4xW_IQ3XXS", "kQGemvQ8K_4xW_dp4a_IQ3XXS",
     "kQGemvQ8K_4xW_IQ3S", "kQGemvQ8K_4xW_dp4a_IQ3S"}
FfnKernels == {"kFfnQ2KRowDot4W", "kFfnQ2KRowDot4W_Q81", "kFfnQ3KRowDot4W"}
SeveralRows == FourRowKernels \cup FfnKernels \cup {"kQGemvQ2KxW4_N8", "kQGemvQ2KxW4_N16"}

WarpRows(x, e) ==
    \/ e.geo.split # "tile" /\ e.geo.rowsPerWarp = 1
    \/ e.geo.split # "tile" /\ x \in FourRowKernels \cup FfnKernels /\ e.geo.rowsPerWarp = 4
    \/ e.geo.split # "tile" /\ x = "kQGemvQ2KxW4_N8" /\ e.geo.rowsPerWarp = 8
    \/ e.geo.split # "tile" /\ x = "kQGemvQ2KxW4_N16" /\ e.geo.rowsPerWarp = 16
    \/ e.geo.split = "tile" /\ e.geo.rowsPerWarp \in {8, 16}

OneRow(g) == g.split # "tile" /\ g.rowsPerWarp = 1
Several(g, rows) == g.split # "tile" /\ g.rowsPerWarp = rows
Tiled(g) == g.split = "tile" /\ g.rowsPerWarp \in {8, 16}

\* The rows of a warp, by geometry.
LEMMA GeometryRows ==
    /\ OneRow(RowPerLane) /\ OneRow(RowPerWarp) /\ OneRow(RowPerWarpPlain) /\ OneRow(SummedWarp)
    /\ OneRow(GroupSums) /\ OneRow(Mmvq) /\ OneRow(SplitStripes) /\ OneRow(HalfWarps)
    /\ OneRow(Eight6) /\ OneRow(StoredByEight)
    /\ \A lanes : OneRow(Stored(lanes))
    /\ \A loops : OneRow(EightLanes(loops))
    /\ \A loops, tree : OneRow(FourTokens(loops, tree))
    /\ \A loops, tree, writers : OneRow(StripedWarp(loops, tree, writers))
    /\ \A KN : OneRow(ChunkPerWarp(KN))
    /\ \A w, n, g, p : OneRow(Geometry(w, n, g, "row", 1, p))
    /\ Several(FourRows, 4) /\ Several(GatheredRows, 4) /\ Several(OctetSums, 4)
    /\ \A rows, loops : Several(Octets(rows, loops), rows)
    /\ Tiled(RowTileOfSums) /\ Tiled(RowTile(8)) /\ Tiled(RowTile(16))
  <1>1. OneRow(RowPerLane)
    BY DEF OneRow, RowPerLane, Geometry
  <1>2. OneRow(RowPerWarp)
    BY DEF OneRow, RowPerWarp, Geometry
  <1>3. OneRow(RowPerWarpPlain)
    BY DEF OneRow, RowPerWarpPlain, Geometry
  <1>4. OneRow(SummedWarp)
    BY DEF OneRow, SummedWarp, Geometry
  <1>5. OneRow(GroupSums)
    BY DEF OneRow, GroupSums, Geometry
  <1>6. OneRow(Mmvq)
    BY DEF OneRow, Mmvq, TwoWarpStripes, Geometry
  <1>7. OneRow(SplitStripes)
    BY DEF OneRow, SplitStripes, Geometry
  <1>8. OneRow(HalfWarps)
    BY DEF OneRow, HalfWarps, Geometry
  <1>9. OneRow(Eight6)
    BY DEF OneRow, Eight6, Geometry
  <1>10. OneRow(StoredByEight)
    BY DEF OneRow, StoredByEight, Geometry
  <1>11. \A lanes : OneRow(Stored(lanes))
    BY DEF OneRow, Stored, Geometry
  <1>12. \A loops : OneRow(EightLanes(loops))
    BY DEF OneRow, EightLanes, Geometry
  <1>13. \A loops, tree : OneRow(FourTokens(loops, tree))
    BY DEF OneRow, FourTokens, Geometry
  <1>14. \A loops, tree, writers : OneRow(StripedWarp(loops, tree, writers))
    BY DEF OneRow, StripedWarp, Geometry
  <1>15. \A KN : OneRow(ChunkPerWarp(KN))
    BY DEF OneRow, ChunkPerWarp, Geometry
  <1>16. \A w, n, g, p : OneRow(Geometry(w, n, g, "row", 1, p))
    BY DEF OneRow, Geometry
  <1>17. \A rows, loops : Several(Octets(rows, loops), rows)
    BY DEF Several, Octets, Geometry
  <1>18. Several(FourRows, 4) /\ Several(GatheredRows, 4)
    BY <1>17 DEF FourRows, GatheredRows
  <1>19. Several(OctetSums, 4)
    BY DEF Several, OctetSums, Geometry
  <1>20. Tiled(RowTileOfSums) /\ Tiled(RowTile(8)) /\ Tiled(RowTile(16))
    BY DEF Tiled, RowTileOfSums, RowTile, Geometry
  <1> QED
    BY <1>1, <1>2, <1>3, <1>4, <1>5, <1>6, <1>7, <1>8, <1>9, <1>10, <1>11, <1>12, <1>13, <1>14, <1>15, <1>16, <1>17, <1>18, <1>19, <1>20

\* The rows of a warp, by kernel.
LEMMA KernelRows ==
    ASSUME NEW g
    PROVE  /\ OneRow(g) => \A f, t, s, x : WarpRows(x, Kernel(f, t, s, g))
           /\ Several(g, 4) => \A f, t, s : \A x \in FourRowKernels \cup FfnKernels : WarpRows(x, Kernel(f, t, s, g))
           /\ Several(g, 8) => \A f, t, s : WarpRows("kQGemvQ2KxW4_N8", Kernel(f, t, s, g))
           /\ Several(g, 16) => \A f, t, s : WarpRows("kQGemvQ2KxW4_N16", Kernel(f, t, s, g))
           /\ Tiled(g) => \A f, t, s, x : WarpRows(x, Kernel(f, t, s, g))
  <1>1. \A f, t, s : Kernel(f, t, s, g).geo = g
    BY DEF Kernel
  <1> QED
    BY <1>1 DEF WarpRows, OneRow, Several, Tiled

\* The kernels of several rows a warp are those listed.
LEMMA TableRows ==
    /\ \A x \in DOMAIN GemvKernels : WarpRows(x, GemvKernels[x])
    /\ \A x \in DOMAIN Q8KKernels : WarpRows(x, Q8KKernels[x])
    /\ \A x \in DOMAIN StoreKernels : WarpRows(x, StoreKernels[x])
    /\ \A x \in DOMAIN CpuKernels : WarpRows(x, CpuKernels[x])
    /\ \A x \in DOMAIN Q2KHostKernels : WarpRows(x, Q2KHostKernels[x])
    /\ \A x \in DOMAIN HostKernels : WarpRows(x, HostKernels[x])
  <1>1. /\ \A f, t, s, x : WarpRows(x, Kernel(f, t, s, RowPerLane))
        /\ \A f, t, s, x : WarpRows(x, Kernel(f, t, s, RowPerWarp))
        /\ \A f, t, s, x : WarpRows(x, Kernel(f, t, s, RowPerWarpPlain))
        /\ \A f, t, s, x : WarpRows(x, Kernel(f, t, s, SummedWarp))
        /\ \A f, t, s, x : WarpRows(x, Kernel(f, t, s, GroupSums))
        /\ \A f, t, s, x : WarpRows(x, Kernel(f, t, s, Mmvq))
        /\ \A f, t, s, x : WarpRows(x, Kernel(f, t, s, SplitStripes))
        /\ \A f, t, s, x : WarpRows(x, Kernel(f, t, s, HalfWarps))
        /\ \A f, t, s, x : WarpRows(x, Kernel(f, t, s, Eight6))
        /\ \A f, t, s, x : WarpRows(x, Kernel(f, t, s, StoredByEight))
        /\ \A f, t, s, x, lanes : WarpRows(x, Kernel(f, t, s, Stored(lanes)))
        /\ \A f, t, s, x, loops : WarpRows(x, Kernel(f, t, s, EightLanes(loops)))
        /\ \A f, t, s, x, loops, tree : WarpRows(x, Kernel(f, t, s, FourTokens(loops, tree)))
        /\ \A f, t, s, x, loops, tree, writers : WarpRows(x, Kernel(f, t, s, StripedWarp(loops, tree, writers)))
        /\ \A f, t, s, x, KN : WarpRows(x, Kernel(f, t, s, ChunkPerWarp(KN)))
        /\ \A f, t, s, x, w, n, g, p : WarpRows(x, Kernel(f, t, s, Geometry(w, n, g, "row", 1, p)))
    BY GeometryRows, KernelRows
  <1>2. /\ \A f, t, s : \A x \in FourRowKernels \cup FfnKernels : WarpRows(x, Kernel(f, t, s, FourRows))
        /\ \A f, t, s : \A x \in FourRowKernels \cup FfnKernels : WarpRows(x, Kernel(f, t, s, GatheredRows))
        /\ \A f, t, s : \A x \in FourRowKernels \cup FfnKernels : WarpRows(x, Kernel(f, t, s, OctetSums))
        /\ \A loops : \A f, t, s : \A x \in FourRowKernels \cup FfnKernels : WarpRows(x, Kernel(f, t, s, Octets(4, loops)))
        /\ \A f, t, s, loops : WarpRows("kQGemvQ2KxW4_N8", Kernel(f, t, s, Octets(8, loops)))
        /\ \A f, t, s, loops : WarpRows("kQGemvQ2KxW4_N16", Kernel(f, t, s, Octets(16, loops)))
        /\ \A f, t, s, x : WarpRows(x, Kernel(f, t, s, RowTileOfSums))
        /\ \A f, t, s, x : WarpRows(x, Kernel(f, t, s, RowTile(8)))
        /\ \A f, t, s, x : WarpRows(x, Kernel(f, t, s, RowTile(16)))
    BY GeometryRows, KernelRows
  <1>3. \A x \in DOMAIN GemvKernels : WarpRows(x, GemvKernels[x])
    BY <1>1, <1>2 DEF GemvKernels, FourRowKernels, FfnKernels
  <1>4. \A x \in DOMAIN Q8KKernels : WarpRows(x, Q8KKernels[x])
    BY <1>1, <1>2 DEF Q8KKernels, FourRowKernels, FfnKernels, kQGemvKxQ8K_BatchGU, kQGemvKxQ8K_BatchDownR,
       kQGemvQ8_0xQ8K_BatchGU, kQGemvQ8_0xQ8K_BatchDown, kQGemvQ8_0xQ8K_BatchDownR, kQGemvQ2KIntFusedGU,
       kQGemvQ8KFusedGU
  <1>5. \A x \in DOMAIN StoreKernels : WarpRows(x, StoreKernels[x])
    BY <1>1 DEF StoreKernels
  <1>6. \A x \in DOMAIN CpuKernels : WarpRows(x, CpuKernels[x])
    BY <1>1 DEF CpuKernels
  <1>7. \A x \in DOMAIN Q2KHostKernels : WarpRows(x, Q2KHostKernels[x])
    BY <1>1, <1>2 DEF Q2KHostKernels
  <1>8. \A x \in DOMAIN HostKernels : WarpRows(x, HostKernels[x])
    BY <1>1, <1>2 DEF HostKernels
  <1> QED
    BY <1>3, <1>4, <1>5, <1>6, <1>7, <1>8

\* So they are among all kernels.
LEMMA KernelsRows == \A x \in DOMAIN Kernels : WarpRows(x, Kernels[x])
  <1>1. /\ Tables[1] = GemvKernels /\ Tables[2] = Q8KKernels /\ Tables[3] = StoreKernels
        /\ Tables[4] = CpuKernels /\ Tables[5] = Q2KHostKernels /\ Tables[6] = HostKernels
    BY DEF Tables
  <1>2. \A i \in 1..6 : i = 1 \/ i = 2 \/ i = 3 \/ i = 4 \/ i = 5 \/ i = 6
    OBVIOUS
  <1>3. \A i \in 1..6 : \A x \in DOMAIN Tables[i] : WarpRows(x, Tables[i][x])
    BY <1>1, <1>2, TableRows
  <1> QED
    BY <1>3, KernelsKnown

\* What the launchers see to.
Divides(x, rows) ==
    /\ x \in FourRowKernels => rows % 4 = 0
    /\ x = "kQGemvQ2KxW4_N8" => rows % 8 = 0
    /\ x = "kQGemvQ2KxW4_N16" => rows % 16 = 0

\* None of them is a kernel of the CPU.
LEMMA HostNames ==
    \A x \in DOMAIN CpuKernels \cup DOMAIN Q2KHostKernels \cup DOMAIN HostKernels : x \notin SeveralRows
  <1>1. \A x \in DOMAIN CpuKernels : x \notin SeveralRows
    BY DEF CpuKernels, SeveralRows, FourRowKernels, FfnKernels
  <1>2. \A x \in DOMAIN Q2KHostKernels : x \notin SeveralRows
    BY DEF Q2KHostKernels, SeveralRows, FourRowKernels, FfnKernels
  <1>3. \A x \in DOMAIN HostKernels : x \notin SeveralRows
    BY DEF HostKernels, SeveralRows, FourRowKernels, FfnKernels
  <1> QED
    BY <1>1, <1>2, <1>3

\* launchQGemv takes them only where the rows divide.
LEMMA GemvDivides ==
    ASSUME NEW f, NEW rows, NEW n, NEW x \in launchQGemv(f, rows, n)
    PROVE  Divides(x, rows) /\ x \notin FfnKernels
  BY DEF launchQGemv, If, FourRowsFit, Divides, FourRowKernels, FfnKernels

\* So do the other launchers, but for the persistent FFN.
LEMMA OtherDivides ==
    ASSUME NEW f, NEW rows, NEW n
    PROVE  /\ \A x \in launchQGemvResid(f, rows) : Divides(x, rows) /\ x \notin FfnKernels
           /\ \A x \in launchQGemvFusedGU(f, n) : Divides(x, rows) /\ x \notin FfnKernels
           /\ \A x \in launchFusedQKV(f) : Divides(x, rows) /\ x \notin FfnKernels
           /\ \A x \in launchQGemm(f) : Divides(x, rows) /\ x \notin FfnKernels
           /\ \A x \in launchExperts(f) : Divides(x, rows) /\ x \notin FfnKernels
           /\ \A x \in launchFfnPersistent(f) : Divides(x, rows) /\ x \in FfnKernels
           /\ \A x \in launchDequantF16(f) : Divides(x, rows) /\ x \notin FfnKernels
           /\ \A x \in EmbeddingKernels(f) : Divides(x, rows) /\ x \notin FfnKernels
  <1>1. \A x \in launchQGemvResid(f, rows) : Divides(x, rows) /\ x \notin FfnKernels
    BY DEF launchQGemvResid, If, FourRowsFit, Divides, FourRowKernels, FfnKernels
  <1>2. \A x \in launchQGemvFusedGU(f, n) : Divides(x, rows) /\ x \notin FfnKernels
    BY DEF launchQGemvFusedGU, If, Divides, FourRowKernels, FfnKernels
  <1>3. \A x \in launchFusedQKV(f) : Divides(x, rows) /\ x \notin FfnKernels
    BY DEF launchFusedQKV, Divides, FourRowKernels, FfnKernels
  <1>4. \A x \in launchQGemm(f) : Divides(x, rows) /\ x \notin FfnKernels
    BY DEF launchQGemm, Divides, FourRowKernels, FfnKernels
  <1>5. \A x \in launchExperts(f) : Divides(x, rows) /\ x \notin FfnKernels
    BY DEF launchExperts, Divides, FourRowKernels, FfnKernels
  <1>6. \A x \in launchFfnPersistent(f) : Divides(x, rows) /\ x \in FfnKernels
    BY DEF launchFfnPersistent, Divides, FourRowKernels, FfnKernels
  <1>7. \A x \in launchDequantF16(f) : Divides(x, rows) /\ x \notin FfnKernels
    BY DEF launchDequantF16, If, Divides, FourRowKernels, FfnKernels
  <1>8. \A x \in EmbeddingKernels(f) : Divides(x, rows) /\ x \notin FfnKernels
    BY DEF EmbeddingKernels, EmbedForward, EmbedQwen35, EmbedQwen35MoE, Divides, FourRowKernels, FfnKernels
  <1> QED
    BY <1>1, <1>2, <1>3, <1>4, <1>5, <1>6, <1>7, <1>8

Fits(k, rows) == k.rowsPerWarp \in {1, 4, 8, 16} /\ (k.split = "tile" \/ rows % k.rowsPerWarp = 0)

\* Every launch has whole warps of rows, or tiles.
LEMMA LaunchesFit == ASSUME FfnRowsFit PROVE \A z \in Launches : Fits(Kernels[z.kernel].geo, z.rows)
  <1> TAKE z \in Launches
  <1>1. z.kernel \in DOMAIN Kernels /\ z.rows \in Nat
    BY SizesAssumption DEF Launches
  <1>2. Divides(z.kernel, z.rows) /\ (z.kernel \in FfnKernels => z.rows % 4 = 0)
    <2>1. z.kernel \in FfnKernels => z.rows % 4 = 0
      BY DEF FfnRowsFit, launchFfnPersistent, FfnKernels
    <2>2. CASE z.kernel \in CpuRow(z.tensor, z.n)
      <3>1. z.kernel \in DOMAIN CpuKernels \cup DOMAIN Q2KHostKernels \cup DOMAIN HostKernels
        BY <2>2 DEF CpuRow, matMulVecFused, matMulVecBatchSIMD, KernelsOf, If
      <3>2. z.kernel \notin SeveralRows
        BY <3>1, HostNames
      <3> QED
        BY <3>2 DEF Divides, SeveralRows
    <2>3. CASE z.kernel \in WeightKernels(z.tensor, z.rows, z.n)
      BY <2>1, <2>3, GemvDivides, OtherDivides DEF WeightKernels
    <2>4. CASE z.kernel \in EmbeddingKernels(z.tensor)
      BY <2>4, OtherDivides
    <2> QED
      BY <2>1, <2>2, <2>3, <2>4 DEF Launches
  <1>3. WarpRows(z.kernel, Kernels[z.kernel])
    BY <1>1, KernelsRows
  <1>4. z.rows % 1 = 0
    BY <1>1
  <1> QED
    BY <1>2, <1>3, <1>4 DEF WarpRows, Divides, Fits

\* The warp, or tile, that a row is in.
LEMMA TilesCover ==
    ASSUME NEW r \in {1, 4, 8, 16}, NEW R \in Nat, NEW x \in 0..(R - 1)
    PROVE  LET w == x \div r
           IN  /\ w \in Nat /\ w * r <= x /\ x <= w * r + r - 1 /\ w * r < R
               /\ w \in 0..((R + r - 1) \div r - 1)
               /\ R % r = 0 => w \in 0..(8 * ((R \div r + 7) \div 8) - 1) /\ w * r + r <= R
  <1>1. CASE r = 1
    BY <1>1
  <1>2. CASE r = 4
    BY <1>2
  <1>3. CASE r = 8
    BY <1>3
  <1>4. CASE r = 16
    BY <1>4
  <1> QED
    BY <1>1, <1>2, <1>3, <1>4

\* Where the rows divide, the last warp's rows are in the matrix.
LEMMA WholeWarps ==
    ASSUME NEW r \in {1, 4, 8, 16}, NEW R \in Nat, R % r = 0, NEW w \in Nat, ~ (w * r >= R)
    PROVE  w * r \in Nat /\ w * r + r <= R
  <1>1. CASE r = 1
    BY <1>1
  <1>2. CASE r = 4
    BY <1>2
  <1>3. CASE r = 8
    BY <1>3
  <1>4. CASE r = 16
    BY <1>4
  <1> QED
    BY <1>1, <1>2, <1>3, <1>4

\* Warps that fit write every row and no other.
LEMMA RowsCovered ==
    ASSUME launch.rows \in Nat, Fits(kernel, launch.rows)
    PROVE  RowsWritten
  <1>1. PICK r, R : r = kernel.rowsPerWarp /\ R = launch.rows
    OBVIOUS
  <1>2. r \in {1, 4, 8, 16} /\ R \in Nat /\ (kernel.split = "tile" \/ R % r = 0)
    BY <1>1 DEF Fits
  <1>3. PICK tiles, warps :
           /\ tiles = (R + r - 1) \div r
           /\ warps = IF kernel.split = "tile" THEN tiles ELSE 8 * ((R \div r + 7) \div 8)
    OBVIOUS
  <1>4. WarpsLaunched = 8 * ((R \div r + 7) \div 8)
    <2>1. R \div 1 = R
      BY <1>2
    <2> QED
      BY <1>1, <2>1 DEF WarpsLaunched
  <1>5. \A w \in 0..(warps - 1) : RowsOf(w) \subseteq 0..(R - 1)
    <2> TAKE w \in 0..(warps - 1)
    <2>1. w \in Nat
      BY <1>2, <1>3
    <2>2. CASE w * r >= R
      BY <1>1, <2>2 DEF RowsOf
    <2>3. CASE ~ (w * r >= R) /\ kernel.split = "tile"
      <3>1. RowsOf(w) = (w * r)..(R - 1) \cap (w * r)..(w * r + r - 1)
        BY <1>1, <2>3 DEF RowsOf
      <3>2. PICK a \in Nat : a = w * r
        BY <1>2, <2>1
      <3> QED
        BY <1>2, <3>1, <3>2
    <2>4. CASE ~ (w * r >= R) /\ kernel.split # "tile"
      <3>1. RowsOf(w) = (w * r)..(w * r + r - 1)
        BY <1>1, <2>4 DEF RowsOf
      <3>2. R % r = 0
        BY <1>2, <2>4
      <3>3. w * r + r <= R /\ w * r \in Nat
        BY <1>2, <2>1, <2>4, <3>2, WholeWarps
      <3>4. PICK a \in Nat : a = w * r
        BY <3>3
      <3> QED
        BY <1>2, <3>1, <3>3, <3>4
    <2> QED
      BY <2>2, <2>3, <2>4
  <1>6. \A x \in 0..(R - 1) : \E w \in 0..(warps - 1) : x \in RowsOf(w)
    <2> TAKE x \in 0..(R - 1)
    <2>1. PICK w : w = x \div r
      OBVIOUS
    <2>2. w \in Nat /\ w * r <= x /\ x <= w * r + r - 1 /\ w * r < R /\ w \in 0..(warps - 1)
      BY <1>2, <1>3, <2>1, TilesCover
    <2>3. PICK a : a = w * r
      OBVIOUS
    <2>4. a \in Nat /\ x \in a..(a + r - 1) /\ x \in a..(R - 1) /\ ~ (a >= R)
      BY <1>2, <2>2, <2>3
    <2>5. x \in RowsOf(w)
      BY <1>1, <2>3, <2>4 DEF RowsOf
    <2> QED
      BY <2>2, <2>5
  <1>7. UNION {RowsOf(w) : w \in 0..(warps - 1)} = 0..(R - 1)
    BY <1>5, <1>6
  <1> QED
    BY <1>1, <1>3, <1>4, <1>7 DEF RowsWritten

\* What a launch is given stays.
Launched == launch \in Launches /\ kernel = Kernels[launch.kernel].geo

\* Every step keeps the launch and its kernel.
LEMMA LaunchKept == ASSUME Launched, Next \/ UNCHANGED vars PROVE Launched'
  <1>1. UNCHANGED <<launch, kernel>>
    BY DEF Next, RunLoop, FoldLanes, ShareSums, AddShared, SumShared, WriteRows, StoreColumns, PassBarrier,
           Rest, vars
  <1> QED
    BY <1>1 DEF Launched

\* Whatever the number of rows, a launch writes every row and none past the
\* last: the launchers take kernels of several rows a warp only where the
\* rows divide, but for the persistent FFN (FfnRowsFit).
THEOREM EveryRowWritten == ASSUME FfnRowsFit PROVE Spec => []RowsWritten
  <1>1. Init => Launched
    BY DEF Init, Launched
  <1>2. Launched /\ [Next]_vars => Launched'
    BY LaunchKept
  <1>3. Launched => RowsWritten
    <2> SUFFICES ASSUME Launched PROVE RowsWritten
      OBVIOUS
    <2>1. launch.rows \in Nat
      BY SizesAssumption DEF Launched, Launches
    <2> QED
      BY <2>1, LaunchesFit, RowsCovered DEF Launched
  <1> QED
    BY <1>1, <1>2, <1>3, PTL DEF Spec

=============================================================================
