--------------------------- MODULE AttentionProofs ---------------------------
(***************************************************************************)
(* Theorems about Attention, for every capacity of the cache, batch,       *)
(* number of heads and sessions, every tile, chunk and sub-warp, every     *)
(* engine and every score.                                                 *)
(*                                                                         *)
(* The cache.  CacheHoldsSession speaks of the rows below kvPos, which a   *)
(* pass advances at its end, two kernels after it has stored its rows.     *)
(* CacheInv says it of the rows held at each stage of the pass, that a     *)
(* captured step reads the host's position on the device, and that keys    *)
(* which are stored as they are have been rotated to their own positions   *)
(* before.                                                                 *)
(*                                                                         *)
(* The arithmetic of partial results.  IsPart(p, K, g): p is what the keys *)
(* at the positions K of K/V head g make, each once, on the scale of their *)
(* maximum.  A step of the online softmax, a tile, a fold over rows and a  *)
(* merge of parts that are apart keep it, so a scan of K is a part of K    *)
(* however it is cut up.  A fold is unrolled by FoldTheorems, a step at a  *)
(* time, up to the first length at which a claim about it would fail.      *)
(*                                                                         *)
(* The passes.  PassInv says which part every warp, block and chunk that   *)
(* has arrived has left; that chunks, groups of chunks and spans divide    *)
(* the context is the arithmetic of \div and %.                            *)
(***************************************************************************)
EXTENDS Attention, FiniteSetTheorems, WellFoundedInduction, TLAPS

Stages == {"idle", "rotate", "store", "attend", "combine", "end"}
Stored == {"attend", "combine", "end"}

\* The rows that hold the session: those of a pass count once it stores them.
Held == IF pass.stage \in Stored THEN kvPos + pass.T ELSE kvPos

HeldRows ==
    \A cs \in 0..(Held - 1), h \in KVHeads :
       /\ kCache[cs][h] = Key(epoch, cs, h, cs)
       /\ vCache[cs][h] = Value(epoch, cs, h)

PassType ==
    /\ pass \in [T : Nat, captured : BOOLEAN, stage : Stages]
    /\ kvPos \in Nat
    /\ kvPos + pass.T <= MaxSeqLen

\* The scalar on the device is the host's position while a captured step runs.
DevicePosition == pass.captured => graphPos = kvPos

\* The engines that rotate K apart have done so for every token of the pass.
KeysRotated ==
    pass.stage = "store" /\ config.engine \in {"q35", "q35cpu"}
      => k = [s \in Tokens |-> kvPos + s]

CacheInv == PassType /\ DevicePosition /\ KeysRotated /\ HeldRows

-----------------------------------------------------------------------------
\* Every kernel reads the position of the host, captured or not.
LEMMA PositionAgrees == CacheInv => pos = kvPos
  BY DEF CacheInv, DevicePosition, pos

\* An attention or combine kernel leaves the caches, the position and the
\* session alone, and stays at its stage or goes on to a later one.
AfterStore ==
    /\ pass.stage \in {"attend", "combine"}
    /\ pass' = pass \/ pass' = [pass EXCEPT !.stage = "combine"]
                    \/ pass' = [pass EXCEPT !.stage = "end"]
    /\ UNCHANGED <<config, epoch, kvPos, graphPos, k, kCache, vCache>>

LEMMA LeaveFacts ==
    ASSUME NEW b, Leave(b)
    PROVE  \/ pass' = pass
           \/ pass' = [pass EXCEPT !.stage = "combine"]
           \/ pass' = [pass EXCEPT !.stage = "end"]
  BY DEF Leave, AfterKernel, Then

LEMMA OneWarpFacts ==
    ASSUME NEW b, NEW stage \in {"attend", "combine"}, NEW engine, OneWarp(stage, engine, b)
    PROVE  AfterStore
  BY LeaveFacts DEF OneWarp, Running, Kept, AfterStore

LEMMA BlockStepFacts ==
    ASSUME NEW b, BlockStep(b)
    PROVE  AfterStore
  <1>1. CASE OneWarpBlock(b)
    BY <1>1, OneWarpFacts
       DEF OneWarpBlock, kWarpAttention, kQ35WarpAttention, attentionFused, attentionGeneric,
           kWarpAttentionSplit, kAttnCombinePartial
  <1>2. ASSUME NEW w \in Warps, ScanSpan(b, w)
        PROVE  AfterStore
    BY <1>2 DEF ScanSpan, ShareWhere, Running, Kept, AfterStore
  <1>3. ASSUME NEW w \in Warps, MergeSpans(b, w)
        PROVE  AfterStore
    BY <1>3, LeaveFacts DEF MergeSpans, Running, Kept, AfterStore
  <1>4. ASSUME NEW w \in Warps, FoldChunks(b, w)
        PROVE  AfterStore
    BY <1>4 DEF FoldChunks, ShareWhere, Running, Kept, AfterStore
  <1>5. CASE kAttnCombinePartialW4(b)
    BY <1>5, LeaveFacts DEF kAttnCombinePartialW4, Running, Kept, AfterStore
  <1> QED
    BY <1>1, <1>2, <1>3, <1>4, <1>5 DEF BlockStep

\* What a store does, whichever engine: the rows of the pass, each key at the
\* rotation its engine gives it, and no other row.
LEMMA StoreKeeps ==
    ASSUME CacheInv, Store
    PROVE  CacheInv'
  <1> DEFINE Row(cs) == cs - kvPos \in Tokens
  <1>1. pos = kvPos
    BY PositionAgrees
  <1>2. /\ pass.stage = "store" /\ pass' = [pass EXCEPT !.stage = "attend"]
        /\ UNCHANGED <<config, epoch, kvPos, graphPos>>
    BY DEF Store, kStoreKVRope, kQ35StoreKV, storeKVWithRoPE, storeKV, StoreRows, Running, Then
  <1>3. /\ kCache' = [cs \in Rows |-> IF Row(cs) THEN [h \in KVHeads |-> Key(epoch, cs, h, cs)]
                                      ELSE kCache[cs]]
        /\ vCache' = [cs \in Rows |-> IF Row(cs) THEN [h \in KVHeads |-> Value(epoch, cs, h)]
                                      ELSE vCache[cs]]
    <2>1. \A cs \in Rows : kvPos + (cs - kvPos) = cs /\ kvPos + cs - kvPos = cs
      BY SizesAssumption DEF Rows, CacheInv, PassType
    <2>2. CASE kStoreKVRope
      BY <1>1, <2>1, <2>2 DEF kStoreKVRope, StoreRows
    <2>3. CASE storeKVWithRoPE
      BY <1>1, <2>1, <2>3 DEF storeKVWithRoPE, StoreRows
    <2>4. ASSUME config.engine \in {"q35", "q35cpu"}
          PROVE  \A cs \in Rows : Row(cs) => k[cs - kvPos] = cs
      BY <1>2, <2>1, <2>4 DEF CacheInv, KeysRotated
    <2>5. CASE kQ35StoreKV
      BY <1>1, <2>1, <2>4, <2>5 DEF kQ35StoreKV, StoreRows, Running
    <2>6. CASE storeKV
      BY <1>1, <2>1, <2>4, <2>6 DEF storeKV, StoreRows, Running
    <2> QED
      BY <2>2, <2>3, <2>5, <2>6 DEF Store
  <1>4. Held = kvPos /\ Held' = kvPos + pass.T /\ KVHeads' = KVHeads
    BY <1>2 DEF Held, Stored, KVHeads, CacheInv, PassType
  <1>5. ASSUME NEW cs \in 0..(kvPos + pass.T - 1), NEW h \in KVHeads
        PROVE  /\ kCache'[cs][h] = Key(epoch, cs, h, cs)
               /\ vCache'[cs][h] = Value(epoch, cs, h)
    <2>1. cs \in Rows /\ (Row(cs) \/ cs \in 0..(kvPos - 1))
      BY SizesAssumption DEF Rows, Tokens, CacheInv, PassType
    <2>2. CASE Row(cs)
      BY <1>3, <2>1, <2>2
    <2>3. CASE ~Row(cs)
      BY <1>3, <1>4, <2>1, <2>3 DEF CacheInv, HeldRows
    <2> QED
      BY <2>2, <2>3
  <1>6. HeldRows'
    <2>1. kvPos \in Nat /\ pass.T \in Nat
      BY DEF CacheInv, PassType
    <2>2. \A cs \in 0..(Held' - 1), h \in KVHeads :
             /\ kCache'[cs][h] = Key(epoch, cs, h, cs)
             /\ vCache'[cs][h] = Value(epoch, cs, h)
      BY <1>4, <1>5, <2>1
    <2> QED
      BY <1>2, <1>4, <2>2 DEF HeldRows
  <1> QED
    BY <1>2, <1>6 DEF CacheInv, PassType, DevicePosition, KeysRotated, Stages

-----------------------------------------------------------------------------
LEMMA Initial == Init => CacheInv
  BY SizesAssumption
     DEF Init, CacheInv, PassType, DevicePosition, KeysRotated, HeldRows, Held, Stored, Stages, Idle

LEMMA Preserved == CacheInv /\ [Next]_vars => CacheInv'
  <1> SUFFICES ASSUME CacheInv, [Next]_vars
               PROVE  CacheInv'
    OBVIOUS
  <1> USE DEF Held, Stored, Stages, KVHeads
  <1>1. ASSUME NEW T \in 1..MaxBatch, NEW captured \in BOOLEAN, Forward(T, captured)
        PROVE  CacheInv'
    BY <1>1, SizesAssumption
       DEF Forward, Idle, CacheInv, PassType, DevicePosition, KeysRotated, HeldRows, Key, Value
  <1>2. CASE Return
    BY <1>2, SizesAssumption
       DEF Return, Idle, CacheInv, PassType, DevicePosition, KeysRotated, HeldRows, Key, Value
  <1>3. CASE clearKVCache
    BY <1>3, SizesAssumption
       DEF clearKVCache, Idle, CacheInv, PassType, DevicePosition, KeysRotated, HeldRows, Key, Value
  <1>4. CASE RotateQ
    <2>1. /\ pass.stage = "rotate" /\ pass' = [pass EXCEPT !.stage = "store"]
          /\ UNCHANGED <<config, epoch, kvPos, graphPos, kCache, vCache>>
      BY <1>4 DEF RotateQ, kRoPEQ, kQ35MRoPE, applyRoPE, applyMRoPE, Rotate, Running, Then
    <2>2. KeysRotated'
      BY <1>4, <2>1, PositionAgrees
         DEF RotateQ, kRoPEQ, kQ35MRoPE, applyRoPE, applyMRoPE, Rotate, Running, KeysRotated,
             Tokens, CacheInv, PassType
    <2> QED
      BY <2>1, <2>2 DEF CacheInv, PassType, DevicePosition, HeldRows, Key, Value
  <1>5. CASE Store
    BY <1>5, StoreKeeps
  <1>6. ASSUME NEW b \in Blocks, BlockStep(b)
        PROVE  CacheInv'
    <2>1. AfterStore
      BY <1>6, BlockStepFacts
    <2> QED
      BY <2>1
         DEF AfterStore, CacheInv, PassType, DevicePosition, KeysRotated, HeldRows, Key, Value
  <1>7. CASE Full \/ UNCHANGED vars
    BY <1>7 DEF Full, vars, CacheInv, PassType, DevicePosition, KeysRotated, HeldRows, Key, Value, Tokens
  <1> QED
    BY <1>1, <1>2, <1>3, <1>4, <1>5, <1>6, <1>7 DEF Next

LEMMA Suffices == CacheInv => CacheHoldsSession
  BY DEF CacheInv, PassType, HeldRows, Held, Stored, CacheHoldsSession

\* Whatever mixture of prefills, eager and captured steps an engine runs, and
\* however many sessions came before, the rows below kvPos are the session's
\* keys, each rotated to its own position, and its values.
THEOREM CacheHoldsTheSession == Spec => []CacheHoldsSession
  BY Initial, Preserved, Suffices, PTL DEF Spec
-----------------------------------------------------------------------------
(* The folds of the model.                                                 *)

Largest(S) == Max(S)
AnyOf(S) == CHOOSE x \in S : TRUE
Plus(acc, x, a) == x (+) acc

Scanning == INSTANCE FoldTheorems WITH Op <- Absorb, Pick <- Largest
Weighing == INSTANCE FoldTheorems WITH Op <- WeighRow, Pick <- Largest
Tiling == INSTANCE FoldTheorems WITH Op <- AbsorbTile, Pick <- Largest
Adding == INSTANCE FoldTheorems WITH Op <- Plus, Pick <- AnyOf

\* Nat is well ordered.
LEMMA Least == \A B \in SUBSET Nat : B # {} => \E n \in B : \A m \in B : n <= m
  <1>1. SUFFICES ASSUME NEW B \in SUBSET Nat, B # {}
                 PROVE  \E n \in B : \A m \in B : n <= m
    OBVIOUS
  <1>2. PICK n \in B : \A m \in B : ~ (<<m, n>> \in OpToRel(<, Nat))
    BY <1>1, NatLessThanWellFounded, WFMin
  <1>3. \A m \in B : ~ (m < n)
    BY <1>2 DEF OpToRel
  <1>4. \A m \in B : n <= m
    BY <1>3
  <1> QED
    BY <1>4

\* The folds are over finite sets: the cardinality is their rank.
LEMMA Foldable ==
    /\ Scanning!WellOrdered
    /\ Weighing!WellOrdered
    /\ Tiling!WellOrdered
    /\ Adding!WellOrdered
    /\ \A S : IsFiniteSet(S) => /\ Scanning!Ranked(S)
                                    /\ Weighing!Ranked(S)
                                    /\ Tiling!Ranked(S)
                                    /\ Adding!Ranked(S)
  <1>1. Scanning!WellOrdered /\ Weighing!WellOrdered /\ Tiling!WellOrdered /\ Adding!WellOrdered
    BY Least DEF Scanning!WellOrdered, Weighing!WellOrdered, Tiling!WellOrdered,
          Adding!WellOrdered
  <1>2. ASSUME NEW S, IsFiniteSet(S)
        PROVE  /\ Scanning!Ranked(S)
              /\ Weighing!Ranked(S)
              /\ Tiling!Ranked(S)
              /\ Adding!Ranked(S)
    <2> DEFINE rank == [s \in SUBSET S |-> Cardinality(s)]
    <2>1. ASSUME NEW s \in SUBSET S, NEW x \in s
          PROVE  Cardinality(s) \in Nat /\ Cardinality(s \ {x}) < Cardinality(s)
      <3>1. IsFiniteSet(s)
        BY <1>2, FS_Subset
      <3>2. IsFiniteSet(s \ {x}) /\ Cardinality(s \ {x}) = Cardinality(s) - 1
        BY <3>1, FS_RemoveElement
      <3> QED
        BY <3>1, <3>2, FS_CardinalityType
    <2>2. rank \in [SUBSET S -> Nat]
      BY <1>2, FS_Subset, FS_CardinalityType
    <2>3. \A s \in SUBSET S : \A x \in s : rank[s \ {x}] < rank[s]
      BY <2>1
    <2> HIDE DEF rank
    <2> QED
      BY <2>2, <2>3 DEF Scanning!Ranked, Scanning!IsRank, Weighing!Ranked, Weighing!IsRank,
          Tiling!Ranked, Tiling!IsRank, Adding!Ranked, Adding!IsRank
  <1> QED
    BY <1>1, <1>2

\* A family of subsets of a finite set that is not empty has a smallest one.
LEMMA Smallest ==
    ASSUME NEW S, IsFiniteSet(S), NEW F \in SUBSET SUBSET S, F # {}
    PROVE  \E s \in F : \A t \in F : Cardinality(s) <= Cardinality(t)
  <1> DEFINE B == {Cardinality(s) : s \in F}
  <1>1. B \in SUBSET Nat /\ B # {}
    BY FS_Subset, FS_CardinalityType
  <1>2. PICK n \in B : \A m \in B : n <= m
    BY <1>1, Least
  <1> QED
    BY <1>2

LEMMA FiniteInterval == \A m \in Int, n \in Int : IsFiniteSet(m..n)
  BY FS_Interval

\* A finite set of integers that is not empty has a largest element.
LEMMA MaxFinite ==
    ASSUME NEW S \in SUBSET Int, IsFiniteSet(S), S # {}
    PROVE  Max(S) \in S /\ \A y \in S : Max(S) >= y
  <1> DEFINE F == {s \in SUBSET S : s # {} /\ ~ \E x \in s : \A y \in s : x >= y}
  <1>1. F = {}
    <2> SUFFICES ASSUME F # {}
                 PROVE  FALSE
      OBVIOUS
    <2>1. PICK s \in F : \A t \in F : Cardinality(s) <= Cardinality(t)
      BY Smallest
    <2>2. PICK z \in s : TRUE
      BY <2>1
    <2>7. s \in SUBSET S
      BY <2>1
    <2> HIDE DEF F
    <2>8. IsFiniteSet(s)
      BY <2>7, FS_Subset
    <2>3. Cardinality(s) \in Nat /\ Cardinality(s \ {z}) = Cardinality(s) - 1
      BY <2>2, <2>8, FS_RemoveElement, FS_CardinalityType
    <2> USE DEF F
    <2>4. s \ {z} \notin F
      <3>1. s \ {z} \in F => Cardinality(s) <= Cardinality(s \ {z})
        BY <2>1
      <3> QED
        BY <2>3, <3>1
    <2>5. CASE s \ {z} = {}
      <3>1. \A y \in s : z >= y
        BY <2>1, <2>5
      <3> QED
        BY <2>1, <2>2, <3>1
    <2>6. CASE s \ {z} # {}
      <3>1. PICK x \in s \ {z} : \A y \in s \ {z} : x >= y
        BY <2>1, <2>4, <2>6
      <3>2. x \in Int /\ z \in Int /\ \A y \in s : y \in Int
        BY <2>1, <2>2, <3>1
      <3>3. CASE x >= z
        BY <2>1, <3>1, <3>2, <3>3
      <3>4. CASE z >= x
        <4>1. \A y \in s : z >= y
          BY <3>1, <3>2, <3>4
        <4> QED
          BY <2>1, <2>2, <4>1
      <3> QED
        BY <3>2, <3>3, <3>4
    <2> QED
      BY <2>5, <2>6
  <1>2. \E x \in S : \A y \in S : x >= y
    BY <1>1
  <1> QED
    BY <1>2 DEF Max

LEMMA PicksLargest == \A n \in Nat : Scanning!Picks(1..n) /\ Weighing!Picks(1..n) /\ Tiling!Picks(1..n)
  <1> SUFFICES ASSUME NEW n \in Nat, NEW s \in SUBSET (1..n), s # {}
               PROVE  Largest(s) \in s
    BY DEF Scanning!Picks, Weighing!Picks, Tiling!Picks
  <1>1. IsFiniteSet(s) /\ s \in SUBSET Int
    <2>1. IsFiniteSet(1..n)
      BY FiniteInterval
    <2>2. IsFiniteSet(s)
      BY <2>1, FS_Subset
    <2>3. s \in SUBSET Int
      OBVIOUS
    <2> QED
      BY <2>2, <2>3
  <1> QED
    BY <1>1, MaxFinite DEF Largest

\* The last of the first n numbers is folded last.
LEMMA LargestOf == \A n \in Nat \ {0} : Largest(1..n) = n /\ (1..n) \ {n} = 1..(n - 1)
  <1> SUFFICES ASSUME NEW n \in Nat \ {0}
               PROVE  Largest(1..n) = n /\ (1..n) \ {n} = 1..(n - 1)
    OBVIOUS
  <1>1. Max(1..n) \in 1..n /\ \A y \in 1..n : Max(1..n) >= y
    <2>1. IsFiniteSet(1..n) /\ 1..n \in SUBSET Int /\ 1..n # {}
      BY FiniteInterval
    <2> QED
      BY <2>1, MaxFinite
  <1>2. n \in 1..n
    OBVIOUS
  <1>3. Max(1..n) >= n /\ Max(1..n) <= n /\ Max(1..n) \in Int
    BY <1>1, <1>2
  <1> QED
    BY <1>3 DEF Largest

-----------------------------------------------------------------------------
(* The partial result that the keys at the positions K of K/V head g make  *)
(* against the maximum M, and the maximum it should have.                  *)

Term(i, g, M) == [k |-> Key(epoch, i, g, i), e |-> score[i] - M]
ValueTerm(i, g, M) == [k |-> Key(epoch, i, g, i), v |-> Value(epoch, i, g), e |-> score[i] - M]
PartAt(K, g, M) == [m |-> M,
                    l |-> SetToBag({Term(i, g, M) : i \in K}),
                    acc |-> SetToBag({ValueTerm(i, g, M) : i \in K})]

IsPeak(K, M) == /\ M \in Int /\ M >= Bottom /\ \A i \in K : score[i] <= M
                /\ M = Bottom \/ \E i \in K : score[i] = M
IsPart(p, K, g) == \E M : IsPeak(K, M) /\ p = PartAt(K, g, M)

Scored == score \in [Rows -> Int] /\ \A i \in Rows : score[i] >= Bottom

LEMMA PeakUnique ==
    ASSUME Scored, NEW K \in SUBSET Rows, NEW M, NEW N, IsPeak(K, M), IsPeak(K, N)
    PROVE  M = N
  BY DEF Scored, IsPeak, Bottom

LEMMA NothingIsPart == \A g : IsPart(Nothing, {}, g)
  <1> SUFFICES ASSUME NEW g
               PROVE  IsPart(Nothing, {}, g)
    OBVIOUS
  <1>1. IsPeak({}, Bottom)
    BY DEF IsPeak, Bottom
  <1>2. Nothing = PartAt({}, g, Bottom)
    BY DEF Nothing, PartAt, EmptyBag
  <1> QED
    BY <1>1, <1>2 DEF IsPart

\* Terms of two positions differ, whatever they are scaled against.
LEMMA TermsDiffer ==
    ASSUME NEW i, NEW j, i # j, NEW g, NEW M, NEW N
    PROVE  Term(i, g, M) # Term(j, g, N) /\ ValueTerm(i, g, M) # ValueTerm(j, g, N)
  <1>1. Key(epoch, i, g, i).pos = i /\ Key(epoch, j, g, j).pos = j
    BY DEF Key
  <1>2. /\ Term(i, g, M).k = Key(epoch, i, g, i) /\ Term(j, g, N).k = Key(epoch, j, g, j)
        /\ ValueTerm(i, g, M).k = Key(epoch, i, g, i) /\ ValueTerm(j, g, N).k = Key(epoch, j, g, j)
    BY DEF Term, ValueTerm
  <1> QED
    BY <1>1, <1>2

\* A rescaled partial result is the one against the new maximum.
LEMMA RescaledPart ==
    ASSUME Scored, NEW K \in SUBSET Rows, NEW g, NEW M \in Int, NEW N \in Int
    PROVE  Rescaled(PartAt(K, g, M), N) = PartAt(K, g, N)
  <1> DEFINE d == M - N
  <1>1. \A i \in K : score[i] \in Int
    BY DEF Scored
  <1>2. d \in Int /\ \A i \in K : score[i] - M + d = score[i] - N /\ score[i] - N - d = score[i] - M
    BY <1>1
  <1> HIDE DEF d
  <1>3. \A i \in K : /\ [Term(i, g, M) EXCEPT !.e = @ + d] = Term(i, g, N)
                     /\ [Term(i, g, N) EXCEPT !.e = @ - d] = Term(i, g, M)
    BY <1>2 DEF Term
  <1>4. \A i \in K : /\ [ValueTerm(i, g, M) EXCEPT !.e = @ + d] = ValueTerm(i, g, N)
                     /\ [ValueTerm(i, g, N) EXCEPT !.e = @ - d] = ValueTerm(i, g, M)
    BY <1>2 DEF ValueTerm
  <1>5. Shift(SetToBag({Term(i, g, M) : i \in K}), d) = SetToBag({Term(i, g, N) : i \in K})
    BY <1>3 DEF Shift, SetToBag
  <1>6. Shift(SetToBag({ValueTerm(i, g, M) : i \in K}), d) = SetToBag({ValueTerm(i, g, N) : i \in K})
    BY <1>4 DEF Shift, SetToBag
  <1>7. Rescaled(PartAt(K, g, M), N)
          = [m |-> N, l |-> Shift(SetToBag({Term(i, g, M) : i \in K}), d),
             acc |-> Shift(SetToBag({ValueTerm(i, g, M) : i \in K}), d)]
    BY DEF Rescaled, PartAt, d
  <1> QED
    BY <1>5, <1>6, <1>7 DEF PartAt

\* The row of position i in the caches of head g.
IsRow(i, g) == i \in Rows /\ kCache[i][g] = Key(epoch, i, g, i) /\ vCache[i][g] = Value(epoch, i, g)

\* Adding a row that is not yet in a partial result.
LEMMA WeighRowPart ==
    ASSUME Scored, NEW K \in SUBSET Rows, NEW g, NEW M \in Int, NEW i, IsRow(i, g), i \notin K
    PROVE  WeighRow(PartAt(K, g, M), i, g) = PartAt(K \cup {i}, g, M)
  <1>1. Key(epoch, i, g, i).pos = i
    BY DEF Key
  <1>2. WeighRow(PartAt(K, g, M), i, g)
          = [m |-> M,
             l |-> SetToBag({Term(j, g, M) : j \in K}) (+) SetToBag({Term(i, g, M)}),
             acc |-> SetToBag({ValueTerm(j, g, M) : j \in K}) (+) SetToBag({ValueTerm(i, g, M)})]
    <2>1. WeighRow(PartAt(K, g, M), i, g)
            = Weigh(PartAt(K, g, M), Key(epoch, i, g, i), Value(epoch, i, g))
      BY DEF WeighRow, IsRow
    <2> QED
      BY <1>1, <2>1 DEF Weigh, PartAt, Term, ValueTerm
  <1>3. /\ Term(i, g, M) \notin {Term(j, g, M) : j \in K}
        /\ ValueTerm(i, g, M) \notin {ValueTerm(j, g, M) : j \in K}
    BY TermsDiffer
  <1>4. /\ {Term(j, g, M) : j \in K} \cup {Term(i, g, M)} = {Term(j, g, M) : j \in K \cup {i}}
        /\ {ValueTerm(j, g, M) : j \in K} \cup {ValueTerm(i, g, M)}
             = {ValueTerm(j, g, M) : j \in K \cup {i}}
    OBVIOUS
  <1>5. \A S, x : x \notin S => SetToBag(S) (+) SetToBag({x}) = SetToBag(S \cup {x})
    BY DEF SetToBag, (+)
  <1> QED
    <2>1. /\ SetToBag({Term(j, g, M) : j \in K}) (+) SetToBag({Term(i, g, M)})
               = SetToBag({Term(j, g, M) : j \in K \cup {i}})
          /\ SetToBag({ValueTerm(j, g, M) : j \in K}) (+) SetToBag({ValueTerm(i, g, M)})
               = SetToBag({ValueTerm(j, g, M) : j \in K \cup {i}})
      BY <1>3, <1>4, <1>5
    <2> QED
      BY <1>2, <2>1 DEF PartAt

\* One step of the online softmax.
LEMMA AbsorbPart ==
    ASSUME Scored, NEW K \in SUBSET Rows, NEW g, NEW p, IsPart(p, K, g),
           NEW i, IsRow(i, g), i \notin K
    PROVE  IsPart(Absorb(p, i, g), K \cup {i}, g)
  <1>1. PICK M : IsPeak(K, M) /\ p = PartAt(K, g, M)
    BY DEF IsPart
  <1>2. kCache[i][g].pos = i /\ p.m = M /\ M \in Int /\ score[i] \in Int /\ M >= Bottom
        /\ score[i] >= Bottom /\ i \in Rows
    BY <1>1 DEF IsRow, Key, PartAt, IsPeak, Scored
  <1> DEFINE N == IF score[i] > M THEN score[i] ELSE M
  <1>3. IsPeak(K \cup {i}, N)
    BY <1>1, <1>2 DEF IsPeak, Scored, Bottom
  <1>4. N \in Int
    BY <1>2
  <1>5. (IF score[i] > p.m THEN Rescaled(p, score[i]) ELSE p) = PartAt(K, g, N)
    BY <1>1, <1>2, RescaledPart
  <1> HIDE DEF N
  <1>6. Absorb(p, i, g) = WeighRow(PartAt(K, g, N), i, g)
    BY <1>2, <1>5 DEF Absorb
  <1>7. Absorb(p, i, g) = PartAt(K \cup {i}, g, N)
    BY <1>4, <1>6, WeighRowPart
  <1> QED
    BY <1>3, <1>7 DEF IsPart

-----------------------------------------------------------------------------
(* Scans: rows folded one after another.                                   *)

\* The rows lo..hi taken into the part base, which has none of them.
LEMMA AbsorbFold ==
    ASSUME Scored, NEW g, NEW K \in SUBSET Rows, NEW base, IsPart(base, K, g),
           NEW lo \in Nat, NEW hi \in Int, hi >= lo - 1,
           \A i \in lo..hi : IsRow(i, g) /\ i \notin K
    PROVE  IsPart(Scanning!Fold(g, base, Range4(lo, hi), 1..(hi - lo + 1)), K \cup lo..hi, g)
  <1> DEFINE N == hi - lo + 1
             f == Range4(lo, hi)
             Part(n) == Scanning!Fold(g, base, f, 1..n)
             B == {n \in Nat : n <= N /\ ~ IsPart(Part(n), K \cup lo..(lo + n - 1), g)}
  <1>1. N \in Nat /\ lo + N - 1 = hi
    OBVIOUS
  <1> HIDE DEF N
  <1>2. SUFFICES ASSUME B # {}
                 PROVE  FALSE
    <2>1. ~ (N \in B) => IsPart(Part(N), K \cup lo..(lo + N - 1), g)
      BY <1>1
    <2> QED
      BY <1>1, <2>1 DEF N
  <1>3. PICK n \in B : \A m \in B : n <= m
    BY <1>2, Least
  <1>4. CASE n = 0
    <2>1. 1..n = {} /\ K \cup lo..(lo + n - 1) = K
      BY <1>4
    <2>2. Part(n) = base
      BY <2>1, Foldable, Scanning!FoldEmpty
    <2> QED
      BY <1>3, <2>1, <2>2
  <1>5. CASE n # 0
    <2> DEFINE i == lo + n - 1
    <2>1. n \in Nat \ {0} /\ n <= N /\ i \in lo..hi /\ n - 1 \in Nat /\ n - 1 <= N
          /\ lo + (n - 1) - 1 = i - 1 /\ i \in Nat
      BY <1>1, <1>3, <1>5 DEF N
    <2>2. n - 1 \notin B
      BY <1>3, <2>1
    <2>3. IsPart(Part(n - 1), K \cup lo..(i - 1), g)
      BY <2>1, <2>2
    <2>4. Part(n) = Absorb(Part(n - 1), f[n], g)
      <3>1. Scanning!Picks(1..n) /\ IsFiniteSet(1..n) /\ 1..n # {}
        BY <2>1, PicksLargest, FiniteInterval
      <3>2. Part(n) = Absorb(Scanning!Fold(g, base, f, (1..n) \ {Largest(1..n)}), f[Largest(1..n)], g)
        BY <3>1, Foldable, Scanning!FoldStep
      <3> QED
        BY <2>1, <3>2, LargestOf
    <2>5. f[n] = i
      BY <1>1, <2>1 DEF Range4, N
    <2>6. IsRow(i, g) /\ i \notin K \cup lo..(i - 1)
      BY <2>1
    <2>7. K \cup lo..(i - 1) \in SUBSET Rows
      <3>1. \A j \in lo..(i - 1) : j \in lo..hi
        BY <2>1
      <3> QED
        BY <3>1 DEF IsRow
    <2>8. (K \cup lo..(i - 1)) \cup {i} = K \cup lo..i
      BY <2>1
    <2> HIDE DEF i, f
    <2>9. IsPart(Absorb(Part(n - 1), i, g), (K \cup lo..(i - 1)) \cup {i}, g)
      BY <2>3, <2>6, <2>7, AbsorbPart
    <2>10. IsPart(Part(n), K \cup lo..i, g)
      BY <2>4, <2>5, <2>8, <2>9
    <2> QED
      BY <1>3, <2>10 DEF i
  <1> QED
    BY <1>4, <1>5

LEMMA ScanIsFold ==
    ASSUME NEW lo, NEW hi, NEW h
    PROVE  Scan(lo, hi, h) = Scanning!Fold(h, Nothing, Range4(lo, hi), DOMAIN Range4(lo, hi))
  BY DEF Scan, FoldLeft, MapThenFoldSet, Max, Scanning!Fold, Scanning!MapThenFoldSet, Largest

LEMMA ScanPart ==
    ASSUME Scored, NEW g, NEW lo \in Nat, NEW hi \in Int, hi >= lo - 1,
           \A i \in lo..hi : IsRow(i, g)
    PROVE  IsPart(Scan(lo, hi, g), lo..hi, g)
  <1>1. Scan(lo, hi, g) = Scanning!Fold(g, Nothing, Range4(lo, hi), 1..(hi - lo + 1))
    <2>1. DOMAIN Range4(lo, hi) = 1..(hi - lo + 1)
      BY DEF Range4
    <2> QED
      BY <2>1, ScanIsFold
  <1>2. IsPart(Scanning!Fold(g, Nothing, Range4(lo, hi), 1..(hi - lo + 1)), {} \cup lo..hi, g)
    BY NothingIsPart, AbsorbFold
  <1>3. {} \cup lo..hi = lo..hi
    OBVIOUS
  <1> QED
    BY <1>1, <1>2, <1>3

-----------------------------------------------------------------------------
(* Merges: partial results over sets of keys that are apart.               *)

LEMMA BagsOfIsFold ==
    ASSUME NEW bags
    PROVE  BagsOf(bags) = Adding!Fold(0, EmptyBag, bags, DOMAIN bags)
  BY DEF BagsOf, FoldFunction, FoldFunctionOnSet, MapThenFoldSet, Adding!Fold, Adding!MapThenFoldSet,
         Plus, AnyOf

Apart(I, T) == \A i \in I, j \in I : i # j => T[i] \cap T[j] = {}

LEMMA BagsOfSets ==
    ASSUME NEW I, IsFiniteSet(I), NEW T, Apart(I, T), NEW bags, DOMAIN bags = I,
           \A i \in I : bags[i] = SetToBag(T[i])
    PROVE  BagsOf(bags) = SetToBag(UNION {T[i] : i \in I})
  <1> DEFINE Sum(J) == Adding!Fold(0, EmptyBag, bags, J)
             F == {J \in SUBSET I : Sum(J) # SetToBag(UNION {T[i] : i \in J})}
  <1>1. SUFFICES ASSUME F # {}
                 PROVE  FALSE
    BY BagsOfIsFold
  <1>2. PICK J \in F : \A L \in F : Cardinality(J) <= Cardinality(L)
    BY <1>1, Smallest
  <1>3. CASE J = {}
    <2>1. Sum(J) = EmptyBag
      BY <1>3, Foldable, Adding!FoldEmpty
    <2>2. UNION {T[i] : i \in J} = {}
      BY <1>3
    <2> QED
      BY <1>2, <2>1, <2>2 DEF EmptyBag
  <1>4. CASE J # {}
    <2> DEFINE x == AnyOf(J)
               L == J \ {x}
    <2>1. J \in SUBSET I /\ IsFiniteSet(J) /\ x \in J
      <3>1. J \in SUBSET I
        BY <1>2
      <3>2. IsFiniteSet(J)
        BY <3>1, FS_Subset
      <3>3. x \in J
        BY <1>4 DEF AnyOf
      <3> QED
        BY <3>1, <3>2, <3>3
    <2>2. Adding!Picks(J)
      BY DEF Adding!Picks, AnyOf
    <2>3. Sum(J) = bags[x] (+) Sum(L)
      <3>1. Sum(J) = Plus(Sum(L), bags[x], 0)
        BY <1>4, <2>1, <2>2, Foldable, Adding!FoldStep
      <3> QED
        BY <3>1 DEF Plus
    <2> HIDE DEF x
    <2>4. L \notin F
      <3>1. L \in F => Cardinality(J) <= Cardinality(L)
        BY <1>2
      <3>2. Cardinality(J) \in Nat /\ Cardinality(L) = Cardinality(J) - 1
        BY <2>1, FS_RemoveElement, FS_CardinalityType
      <3> QED
        BY <3>1, <3>2
    <2>5. Sum(L) = SetToBag(UNION {T[i] : i \in L})
      BY <2>1, <2>4
    <2>6. bags[x] = SetToBag(T[x])
      BY <2>1
    <2>7. T[x] \cap UNION {T[i] : i \in L} = {}
      BY <2>1 DEF Apart
    <2>8. UNION {T[i] : i \in J} = T[x] \cup UNION {T[i] : i \in L}
      BY <2>1
    <2>9. \A S, R : S \cap R = {} => SetToBag(S) (+) SetToBag(R) = SetToBag(S \cup R)
      BY DEF SetToBag, (+)
    <2>10. Sum(J) = SetToBag(UNION {T[i] : i \in J})
      <3> HIDE DEF Sum, L
      <3> QED
        BY <2>3, <2>5, <2>6, <2>7, <2>8, <2>9
    <2> QED
      BY <1>2, <2>10
  <1> QED
    BY <1>3, <1>4

\* The partial results ps over I, each over its own keys.
PartsOf(ps, I, K, g) ==
    /\ DOMAIN ps = I /\ IsFiniteSet(I) /\ Apart(I, K)
    /\ \A i \in I : K[i] \in SUBSET Rows /\ IsPart(ps[i], K[i], g)

LEMMA MergedAtPart ==
    ASSUME Scored, NEW ps, NEW I, NEW K, NEW g, PartsOf(ps, I, K, g), NEW M \in Int
    PROVE  MergedAt(ps, M) = PartAt(UNION {K[i] : i \in I}, g, M)
  <1> DEFINE U == UNION {K[i] : i \in I}
             T == [i \in I |-> {Term(j, g, M) : j \in K[i]}]
             V == [i \in I |-> {ValueTerm(j, g, M) : j \in K[i]}]
             ls == [i \in DOMAIN ps |-> Rescaled(ps[i], M).l]
             accs == [i \in DOMAIN ps |-> Rescaled(ps[i], M).acc]
  <1>1. \A i \in I : Rescaled(ps[i], M) = PartAt(K[i], g, M)
    <2> SUFFICES ASSUME NEW i \in I
                 PROVE  Rescaled(ps[i], M) = PartAt(K[i], g, M)
      OBVIOUS
    <2>1. PICK N : IsPeak(K[i], N) /\ ps[i] = PartAt(K[i], g, N)
      BY DEF PartsOf, IsPart
    <2>2. N \in Int /\ K[i] \in SUBSET Rows
      BY <2>1 DEF IsPeak, PartsOf
    <2> QED
      BY <2>1, <2>2, RescaledPart
  <1>2. \A i \in I : ls[i] = SetToBag(T[i]) /\ accs[i] = SetToBag(V[i])
    BY <1>1 DEF PartsOf, PartAt
  <1>3. Apart(I, T) /\ Apart(I, V)
    <2> SUFFICES ASSUME NEW i \in I, NEW j \in I, i # j
                 PROVE  T[i] \cap T[j] = {} /\ V[i] \cap V[j] = {}
      BY DEF Apart
    <2>1. K[i] \cap K[j] = {}
      BY DEF PartsOf, Apart
    <2>2. \A x \in K[i], y \in K[j] : x # y
      BY <2>1
    <2>3. \A x \in K[i], y \in K[j] :
             Term(x, g, M) # Term(y, g, M) /\ ValueTerm(x, g, M) # ValueTerm(y, g, M)
      BY <2>2, TermsDiffer
    <2> QED
      BY <2>3
  <1>4. /\ UNION {T[i] : i \in I} = {Term(j, g, M) : j \in U}
        /\ UNION {V[i] : i \in I} = {ValueTerm(j, g, M) : j \in U}
    <2>1. \A i \in I : T[i] = {Term(j, g, M) : j \in K[i]} /\ V[i] = {ValueTerm(j, g, M) : j \in K[i]}
      OBVIOUS
    <2> HIDE DEF T, V
    <2> QED
      BY <2>1
  <1>5. DOMAIN ls = I /\ DOMAIN accs = I /\ IsFiniteSet(I)
    BY DEF PartsOf
  <1> HIDE DEF T, V, ls, accs
  <1>6. BagsOf(ls) = SetToBag(UNION {T[i] : i \in I})
    BY <1>2, <1>3, <1>5, BagsOfSets
  <1>7. BagsOf(accs) = SetToBag(UNION {V[i] : i \in I})
    BY <1>2, <1>3, <1>5, BagsOfSets
  <1>8. MergedAt(ps, M) = [m |-> M, l |-> BagsOf(ls), acc |-> BagsOf(accs)]
    BY DEF MergedAt, ls, accs
  <1> QED
    BY <1>4, <1>6, <1>7, <1>8 DEF PartAt

LEMMA MaximumPeak ==
    ASSUME Scored, NEW ps, NEW I, NEW K, NEW g, PartsOf(ps, I, K, g)
    PROVE  IsPeak(UNION {K[i] : i \in I}, Maximum(ps))
  <1> DEFINE S == {Bottom} \cup {ps[i].m : i \in DOMAIN ps}
  <1>1. \A i \in I : IsPeak(K[i], ps[i].m) /\ ps[i].m \in Int /\ ps[i].m >= Bottom
    <2> SUFFICES ASSUME NEW i \in I
                 PROVE  IsPeak(K[i], ps[i].m) /\ ps[i].m \in Int /\ ps[i].m >= Bottom
      OBVIOUS
    <2>1. PICK M : IsPeak(K[i], M) /\ ps[i] = PartAt(K[i], g, M)
      BY DEF PartsOf, IsPart
    <2>2. ps[i].m = M
      BY <2>1 DEF PartAt
    <2> QED
      BY <2>1, <2>2 DEF IsPeak
  <1>2. S \in SUBSET Int /\ S # {} /\ IsFiniteSet(S)
    <2>1. IsFiniteSet({ps[i].m : i \in I})
      <3>5. PICK n \in Nat : ExistsBijection(1..n, I)
        BY FS_CardinalityType DEF PartsOf
      <3>1. PICK e \in [1..n -> I] : \A i \in I : \E j \in 1..n : e[j] = i
        BY <3>5 DEF ExistsBijection, Bijection, Surjection, Injection
      <3> DEFINE d == [j \in 1..n |-> ps[e[j]].m]
      <3>2. d \in [1..n -> {ps[i].m : i \in I}]
        OBVIOUS
      <3>3. \A x \in {ps[i].m : i \in I} : \E j \in 1..n : d[j] = x
        BY <3>1
      <3> HIDE DEF d
      <3>4. d \in Surjection(1..n, {ps[i].m : i \in I})
        BY <3>2, <3>3 DEF Surjection
      <3> QED
        BY <3>4, FS_NatSurjection DEF ExistsSurjection
    <2>2. S = {ps[i].m : i \in I} \cup {Bottom}
      BY DEF PartsOf
    <2> QED
      <3>1. IsFiniteSet(S)
        BY <2>1, <2>2, FS_AddElement
      <3>2. Bottom \in Int
        BY DEF Bottom
      <3>3. S \in SUBSET Int
        BY <1>1, <2>2, <3>2
      <3> QED
        BY <3>1, <3>3
  <1>3. Maximum(ps) = Max(S)
    BY DEF Maximum
  <1>4. Max(S) \in S /\ \A y \in S : Max(S) >= y
    BY <1>2, MaxFinite
  <1> DEFINE M == Max(S)
  <1>5. M \in Int /\ M >= Bottom
    BY <1>2, <1>4
  <1>6. ASSUME NEW i \in I, NEW x \in K[i]
        PROVE  score[x] <= M
    <2>1. ps[i].m \in S
      BY DEF PartsOf
    <2>2. score[x] <= ps[i].m /\ M >= ps[i].m /\ score[x] \in Int
      BY <1>1, <1>4, <2>1 DEF IsPeak, PartsOf, Scored
    <2> HIDE DEF M
    <2> QED
      BY <1>1, <1>5, <2>2
  <1>7. M = Bottom \/ \E i \in I : \E x \in K[i] : score[x] = M
    <2>1. CASE M = Bottom
      BY <2>1
    <2>2. CASE M # Bottom
      <3>1. PICK i \in I : M = ps[i].m
        BY <1>4, <2>2 DEF PartsOf
      <3> QED
        BY <1>1, <2>2, <3>1 DEF IsPeak
    <2> QED
      BY <2>1, <2>2
  <1> HIDE DEF M, S
  <1>8. M = Maximum(ps)
    BY <1>3 DEF M
  <1> QED
    BY <1>5, <1>6, <1>7, <1>8 DEF IsPeak

LEMMA MergedPart ==
    ASSUME Scored, NEW ps, NEW I, NEW K, NEW g, PartsOf(ps, I, K, g)
    PROVE  IsPart(Merged(ps), UNION {K[i] : i \in I}, g)
  <1>1. IsPeak(UNION {K[i] : i \in I}, Maximum(ps))
    BY MaximumPeak
  <1>2. Maximum(ps) \in Int
    BY <1>1 DEF IsPeak
  <1>3. Merged(ps) = PartAt(UNION {K[i] : i \in I}, g, Maximum(ps))
    BY <1>2, MergedAtPart DEF Merged
  <1> QED
    BY <1>1, <1>3 DEF IsPart

-----------------------------------------------------------------------------
(* The CPU's tiles.                                                        *)

WeighsTo(K, lo, hi, g, M) ==
    Weighing!Fold(g, PartAt(K, g, M), Range4(lo, hi), 1..(hi - lo + 1)) = PartAt(K \cup lo..hi, g, M)

\* Rows lo..hi added at a scale that stays.
LEMMA WeighFold ==
    ASSUME Scored, NEW g, NEW K \in SUBSET Rows, NEW M \in Int,
           NEW lo \in Nat, NEW hi \in Int, hi >= lo - 1,
           \A i \in lo..hi : IsRow(i, g) /\ i \notin K
    PROVE  WeighsTo(K, lo, hi, g, M)
  <1> DEFINE N == hi - lo + 1
             f == Range4(lo, hi)
             Part(n) == Weighing!Fold(g, PartAt(K, g, M), f, 1..n)
             B == {n \in Nat : n <= N /\ Part(n) # PartAt(K \cup lo..(lo + n - 1), g, M)}
  <1>1. N \in Nat /\ lo + N - 1 = hi
    OBVIOUS
  <1> HIDE DEF N
  <1>2. SUFFICES ASSUME B # {}
                 PROVE  FALSE
    <2>1. ~ (N \in B) => Part(N) = PartAt(K \cup lo..(lo + N - 1), g, M)
      BY <1>1
    <2> QED
      BY <1>1, <2>1 DEF N, WeighsTo
  <1>3. PICK n \in B : \A m \in B : n <= m
    BY <1>2, Least
  <1>4. CASE n = 0
    <2>1. 1..n = {} /\ K \cup lo..(lo + n - 1) = K
      BY <1>4
    <2>2. Part(n) = PartAt(K, g, M)
      BY <2>1, Foldable, Weighing!FoldEmpty
    <2> QED
      BY <1>3, <2>1, <2>2
  <1>5. CASE n # 0
    <2> DEFINE i == lo + n - 1
    <2>1. n \in Nat \ {0} /\ n <= N /\ i \in lo..hi /\ n - 1 \in Nat /\ n - 1 <= N
          /\ lo + (n - 1) - 1 = i - 1 /\ i \in Nat
      BY <1>1, <1>3, <1>5 DEF N
    <2>2. n - 1 \notin B
      BY <1>3, <2>1
    <2>3. Part(n - 1) = PartAt(K \cup lo..(i - 1), g, M)
      BY <2>1, <2>2
    <2>4. Part(n) = WeighRow(Part(n - 1), f[n], g)
      <3>1. Weighing!Picks(1..n) /\ IsFiniteSet(1..n) /\ 1..n # {}
        <4>1. n \in Nat /\ n \in Int /\ 1 \in Int /\ 1 \in 1..n
          BY <2>1
        <4>2. Weighing!Picks(1..n)
          BY <4>1, PicksLargest
        <4>3. IsFiniteSet(1..n)
          BY <4>1, FiniteInterval
        <4> QED
          BY <4>1, <4>2, <4>3
      <3>2. Part(n) = WeighRow(Weighing!Fold(g, PartAt(K, g, M), f, (1..n) \ {Largest(1..n)}),
                               f[Largest(1..n)], g)
        BY <3>1, Foldable, Weighing!FoldStep
      <3> QED
        BY <2>1, <3>2, LargestOf
    <2>5. f[n] = i
      BY <1>1, <2>1 DEF Range4, N
    <2>6. IsRow(i, g) /\ i \notin K \cup lo..(i - 1)
      BY <2>1
    <2>7. K \cup lo..(i - 1) \in SUBSET Rows
      <3>1. \A j \in lo..(i - 1) : j \in lo..hi
        BY <2>1
      <3> QED
        BY <3>1 DEF IsRow
    <2>8. (K \cup lo..(i - 1)) \cup {i} = K \cup lo..i
      BY <2>1
    <2> HIDE DEF i, f
    <2>9. WeighRow(PartAt(K \cup lo..(i - 1), g, M), i, g) = PartAt((K \cup lo..(i - 1)) \cup {i}, g, M)
      BY <2>6, <2>7, WeighRowPart
    <2>10. Part(n) = PartAt(K \cup lo..i, g, M)
      BY <2>3, <2>4, <2>5, <2>8, <2>9
    <2> QED
      BY <1>3, <2>10 DEF i
  <1> QED
    BY <1>4, <1>5

TilePeak(p, i, h) ==
    Max({p.m} \cup {score[kCache[cs][h].pos] : cs \in (i * Tile)..(i * Tile + Tile - 1)})

LEMMA AbsorbTileIsFold ==
    ASSUME NEW p, NEW i, NEW h
    PROVE  AbsorbTile(p, i, h)
             = Weighing!Fold(h, Rescaled(p, TilePeak(p, i, h)),
                             Range4(i * Tile, i * Tile + Tile - 1),
                             DOMAIN Range4(i * Tile, i * Tile + Tile - 1))
  BY DEF AbsorbTile, TilePeak, FoldLeft, MapThenFoldSet, Max, Weighing!Fold,
         Weighing!MapThenFoldSet, Largest

\* Rows added at their common maximum with what is there.
LEMMA WeighRowsPart ==
    ASSUME Scored, NEW g, NEW K \in SUBSET Rows, NEW p, IsPart(p, K, g),
           NEW lo \in Nat, NEW hi \in Int, hi >= lo - 1,
           \A j \in lo..hi : IsRow(j, g) /\ j \notin K,
           NEW N, N = Max({p.m} \cup {score[kCache[cs][g].pos] : cs \in lo..hi})
    PROVE  IsPart(Weighing!Fold(g, Rescaled(p, N), Range4(lo, hi), 1..(hi - lo + 1)),
                  K \cup lo..hi, g)
  <1>4. PICK M : IsPeak(K, M) /\ p = PartAt(K, g, M)
    BY DEF IsPart
  <1> DEFINE S == {p.m} \cup {score[kCache[cs][g].pos] : cs \in lo..hi}
  <1>5. S = {M} \cup {score[cs] : cs \in lo..hi}
    <2>1. p.m = M
      BY <1>4 DEF PartAt
    <2>2. \A cs \in lo..hi : kCache[cs][g].pos = cs
      <3> SUFFICES ASSUME NEW cs \in lo..hi
                   PROVE  kCache[cs][g].pos = cs
        OBVIOUS
      <3>1. kCache[cs][g] = Key(epoch, cs, g, cs)
        BY DEF IsRow
      <3> QED
        BY <3>1 DEF Key
    <2> QED
      BY <2>1, <2>2
  <1>6. \A cs \in lo..hi : score[cs] \in Int /\ cs \in Rows /\ score[cs] >= Bottom
    BY DEF IsRow, Scored
  <1>7. M \in Int /\ S \in SUBSET Int /\ S # {} /\ IsFiniteSet(S)
    <2>1. M \in Int
      BY <1>4 DEF IsPeak
    <2>2. IsFiniteSet({score[cs] : cs \in lo..hi})
      <3> DEFINE d == [j \in 1..(hi - lo + 1) |-> score[lo + j - 1]]
                 n == hi - lo + 1
      <3>1. n \in Nat
        OBVIOUS
      <3>2. d \in [1..n -> {score[cs] : cs \in lo..hi}]
        <4>1. \A j \in 1..n : lo + j - 1 \in lo..hi
          OBVIOUS
        <4> QED
          BY <4>1
      <3>3. \A x \in {score[cs] : cs \in lo..hi} : \E j \in 1..n : d[j] = x
        <4> SUFFICES ASSUME NEW cs \in lo..hi
                     PROVE  \E j \in 1..n : d[j] = score[cs]
          OBVIOUS
        <4>1. cs - lo + 1 \in 1..n /\ lo + (cs - lo + 1) - 1 = cs
          OBVIOUS
        <4>2. d[cs - lo + 1] = score[cs]
          BY <4>1
        <4> QED
          BY <4>1, <4>2
      <3> HIDE DEF d, n
      <3>4. d \in Surjection(1..n, {score[cs] : cs \in lo..hi})
        BY <3>2, <3>3 DEF Surjection
      <3> QED
        BY <3>1, <3>4, FS_NatSurjection DEF ExistsSurjection
    <2>3. S = {score[cs] : cs \in lo..hi} \cup {M}
      BY <1>5
    <2> HIDE DEF S
    <2>4. IsFiniteSet(S)
      BY <2>2, <2>3, FS_AddElement
    <2> QED
      BY <1>6, <2>1, <2>3, <2>4
  <1>8. Max(S) \in S /\ \A y \in S : Max(S) >= y
    BY <1>7, MaxFinite
  <1>9. N = Max(S)
    OBVIOUS
  <1>10. N \in Int /\ N \in S /\ \A y \in S : N >= y
    BY <1>7, <1>8, <1>9
  <1>11. IsPeak(K \cup lo..hi, N)
    <2>1. N >= M /\ \A cs \in lo..hi : N >= score[cs]
      BY <1>5, <1>10
    <2>2. N = M \/ \E cs \in lo..hi : score[cs] = N
      BY <1>5, <1>10
    <2>3. \A j \in K : score[j] \in Int /\ score[j] <= M
      BY <1>4 DEF IsPeak, Scored
    <2> HIDE DEF S
    <2>4. M \in Int /\ N \in Int /\ M >= Bottom /\ N >= Bottom
      BY <1>4, <1>7, <1>10, <2>1 DEF IsPeak, Bottom
    <2>5. \A j \in K \cup lo..hi : score[j] <= N
      BY <1>6, <2>1, <2>3, <2>4
    <2>6. N = Bottom \/ \E j \in K \cup lo..hi : score[j] = N
      BY <1>4, <2>2 DEF IsPeak
    <2> QED
      BY <2>4, <2>5, <2>6 DEF IsPeak
  <1> HIDE DEF S
  <1>12. Rescaled(p, N) = PartAt(K, g, N)
    BY <1>4, <1>7, <1>10, RescaledPart
  <1>13. PICK P \in Int : P = N
    BY <1>10
  <1>14. WeighsTo(K, lo, hi, g, P)
    BY WeighFold
  <1> QED
    BY <1>11, <1>12, <1>13, <1>14 DEF IsPart, WeighsTo

\* A tile, whose maximum is found before any of its keys is added.
LEMMA AbsorbTilePart ==
    ASSUME Scored, NEW g, NEW K \in SUBSET Rows, NEW p, IsPart(p, K, g), NEW i \in Nat,
           \A j \in (i * Tile)..(i * Tile + Tile - 1) : IsRow(j, g) /\ j \notin K
    PROVE  IsPart(AbsorbTile(p, i, g), K \cup (i * Tile)..(i * Tile + Tile - 1), g)
  <1>1. PICK lo \in Nat : lo = i * Tile
    BY SizesAssumption
  <1>2. PICK hi \in Nat : hi = i * Tile + Tile - 1
    BY <1>1, SizesAssumption
  <1>3. hi >= lo - 1 /\ \A j \in lo..hi : IsRow(j, g) /\ j \notin K
    BY <1>1, <1>2, SizesAssumption
  <1>4. PICK N : N = TilePeak(p, i, g)
    OBVIOUS
  <1>5. N = Max({p.m} \cup {score[kCache[cs][g].pos] : cs \in lo..hi})
    BY <1>1, <1>2, <1>4 DEF TilePeak
  <1>6. AbsorbTile(p, i, g)
           = Weighing!Fold(g, Rescaled(p, N), Range4(lo, hi), 1..(hi - lo + 1))
    <2>1. DOMAIN Range4(lo, hi) = 1..(hi - lo + 1)
      BY DEF Range4
    <2> QED
      BY <1>1, <1>2, <1>4, <2>1, AbsorbTileIsFold
  <1>7. IsPart(Weighing!Fold(g, Rescaled(p, N), Range4(lo, hi), 1..(hi - lo + 1)), K \cup lo..hi, g)
    <2>1. hi \in Int /\ hi >= lo - 1
      BY <1>3
    <2>2. \A j \in lo..hi : IsRow(j, g) /\ j \notin K
      BY <1>3
    <2> QED
      BY <1>5, <2>1, <2>2, WeighRowsPart
  <1> QED
    BY <1>1, <1>2, <1>6, <1>7

\* The first n tiles.
LEMMA TilesPart ==
    ASSUME Scored, NEW g, NEW n \in Nat, NEW f, \A i \in 1..n : f[i] = i - 1,
           \A j \in 0..(n * Tile - 1) : IsRow(j, g)
    PROVE  IsPart(Tiling!Fold(g, Nothing, f, 1..n), 0..(n * Tile - 1), g)
  <1> DEFINE Part(t) == Tiling!Fold(g, Nothing, f, 1..t)
             B == {t \in Nat : t <= n /\ ~ IsPart(Part(t), 0..(t * Tile - 1), g)}
  <1>1. SUFFICES ASSUME B # {}
                 PROVE  FALSE
    OBVIOUS
  <1>2. PICK t \in B : \A u \in B : t <= u
    BY <1>1, Least
  <1>3. CASE t = 0
    <2>1. 1..t = {} /\ 0..(t * Tile - 1) = {}
      BY <1>3, SizesAssumption
    <2>2. Part(t) = Nothing
      BY <2>1, Foldable, Tiling!FoldEmpty
    <2> QED
      BY <1>2, <2>1, <2>2, NothingIsPart
  <1>4. CASE t # 0
    <2>1. t \in Nat \ {0} /\ t <= n /\ t - 1 \in Nat /\ t - 1 <= n
      BY <1>2, <1>4
    <2>2. IsPart(Part(t - 1), 0..((t - 1) * Tile - 1), g)
      BY <1>2, <2>1
    <2>3. Part(t) = AbsorbTile(Part(t - 1), f[t], g)
      <3>1. Tiling!Picks(1..t) /\ IsFiniteSet(1..t) /\ 1..t # {}
        <4>1. t \in Nat /\ t \in Int /\ 1 \in Int /\ 1 \in 1..t
          BY <2>1
        <4>2. Tiling!Picks(1..t)
          BY <4>1, PicksLargest
        <4>3. IsFiniteSet(1..t)
          BY <4>1, FiniteInterval
        <4> QED
          BY <4>1, <4>2, <4>3
      <3>2. Part(t) = AbsorbTile(Tiling!Fold(g, Nothing, f, (1..t) \ {Largest(1..t)}),
                                 f[Largest(1..t)], g)
        BY <3>1, Foldable, Tiling!FoldStep
      <3> QED
        BY <2>1, <3>2, LargestOf
    <2>4. f[t] = t - 1
      BY <2>1
    <2>5. PICK lo \in Nat : lo = (t - 1) * Tile
      BY <2>1, SizesAssumption
    <2>6. t * Tile = lo + Tile /\ t * Tile <= n * Tile
      BY <2>1, <2>5, SizesAssumption
    <2>7. \A j \in 0..(lo + Tile - 1) : IsRow(j, g)
      <3>1. n * Tile \in Nat /\ Tile \in Nat \ {0}
        BY SizesAssumption
      <3> QED
        BY <2>5, <2>6, <3>1
    <2>8. 0..(lo - 1) \in SUBSET Rows
      <3>1. \A j \in 0..(lo - 1) : j \in 0..(lo + Tile - 1)
        BY <2>5, SizesAssumption
      <3> QED
        BY <2>7, <3>1 DEF IsRow
    <2>9. \A j \in ((t - 1) * Tile)..((t - 1) * Tile + Tile - 1) : IsRow(j, g) /\ j \notin 0..(lo - 1)
      BY <2>5, <2>7, SizesAssumption
    <2>10. IsPart(AbsorbTile(Part(t - 1), t - 1, g),
                  0..(lo - 1) \cup ((t - 1) * Tile)..((t - 1) * Tile + Tile - 1), g)
      <3>1. IsPart(Part(t - 1), 0..(lo - 1), g)
        BY <2>2, <2>5
      <3> HIDE DEF Part
      <3> QED
        BY <2>1, <2>8, <2>9, <3>1, AbsorbTilePart
    <2>11. 0..(lo - 1) \cup ((t - 1) * Tile)..((t - 1) * Tile + Tile - 1) = 0..(t * Tile - 1)
      BY <2>5, <2>6, SizesAssumption
    <2>12. IsPart(Part(t), 0..(t * Tile - 1), g)
      <3> HIDE DEF Part
      <3> QED
        BY <2>3, <2>4, <2>10, <2>11
    <2> QED
      BY <1>2, <2>12
  <1> QED
    BY <1>3, <1>4

LEMMA FusedScanIsFold ==
    ASSUME NEW last, NEW h
    PROVE  LET tiles == (last + 1) \div Tile
               r == Range4(0, tiles - 1)
               tail == Range4(tiles * Tile, last)
           IN  FusedScan(last, h)
                 = Scanning!Fold(h, Tiling!Fold(h, Nothing, r, DOMAIN r), tail, DOMAIN tail)
  BY DEF FusedScan, FoldLeft, MapThenFoldSet, Max, Scanning!Fold, Scanning!MapThenFoldSet,
         Tiling!Fold, Tiling!MapThenFoldSet, Largest

LEMMA FusedScanPart ==
    ASSUME Scored, NEW g, NEW last \in Nat, \A i \in 0..last : IsRow(i, g)
    PROVE  IsPart(FusedScan(last, g), 0..last, g)
  <1>1. PICK tiles \in Nat : /\ tiles = (last + 1) \div Tile
                             /\ tiles * Tile <= last + 1
    BY SizesAssumption
  <1>2. PICK lo \in Nat : lo = tiles * Tile
    BY SizesAssumption
  <1> DEFINE r == Range4(0, tiles - 1)
             main == Tiling!Fold(g, Nothing, r, 1..tiles)
  <1>3. DOMAIN r = 1..tiles /\ \A i \in 1..tiles : r[i] = i - 1
    BY DEF Range4
  <1>4. \A j \in 0..(tiles * Tile - 1) : IsRow(j, g)
    BY <1>1, <1>2
  <1>5. IsPart(main, 0..(lo - 1), g)
    <2> HIDE DEF r
    <2>1. IsPart(main, 0..(tiles * Tile - 1), g)
      BY <1>3, <1>4, TilesPart
    <2> QED
      BY <1>2, <2>1
  <1>6. DOMAIN Range4(lo, last) = 1..(last - lo + 1)
    BY DEF Range4
  <1>7. FusedScan(last, g) = Scanning!Fold(g, main, Range4(lo, last), 1..(last - lo + 1))
    BY <1>1, <1>2, <1>3, <1>6, FusedScanIsFold
  <1> HIDE DEF main
  <1>8. 0..(lo - 1) \in SUBSET Rows
    BY <1>2, <1>4 DEF IsRow
  <1>9. last >= lo - 1 /\ \A i \in lo..last : IsRow(i, g) /\ i \notin 0..(lo - 1)
    BY <1>1, <1>2
  <1>10. IsPart(FusedScan(last, g), 0..(lo - 1) \cup lo..last, g)
    <2>1. PICK K \in SUBSET Rows : K = 0..(lo - 1)
      BY <1>8
    <2>2. IsPart(main, K, g) /\ \A i \in lo..last : IsRow(i, g) /\ i \notin K
      BY <1>5, <1>9, <2>1
    <2>3. last \in Int /\ last >= lo - 1
      BY <1>9
    <2>4. IsPart(Scanning!Fold(g, main, Range4(lo, last), 1..(last - lo + 1)), K \cup lo..last, g)
      BY <2>2, <2>3, AbsorbFold
    <2> QED
      BY <1>7, <2>1, <2>4
  <1>11. 0..(lo - 1) \cup lo..last = 0..last
    BY <1>9
  <1> QED
    BY <1>10, <1>11

-----------------------------------------------------------------------------
(* How heads, chunks, groups of chunks and spans divide their wholes.      *)

\* d divides numbers into runs of d.
LEMMA Remainder ==
    ASSUME NEW p \in Nat, NEW d \in Nat \ {0}
    PROVE  p \div d \in Nat /\ p % d \in 0..(d - 1) /\ p = d * (p \div d) + (p % d)
  OBVIOUS

LEMMA Quotient ==
    ASSUME NEW p \in Nat, NEW c \in Int, NEW d \in Nat \ {0}
    PROVE  p \div d = c <=> c * d <= p /\ p < c * d + d
  <1>1. PICK e \in Nat : e = p \div d
    BY Remainder
  <1>2. e * d \in Int /\ c * d \in Int /\ e * d <= p /\ p < e * d + d
    BY <1>1, Remainder
  <1>3. c >= e + 1 => c * d >= e * d + d
    OBVIOUS
  <1>4. c <= e - 1 => c * d + d <= e * d
    OBVIOUS
  <1>5. ASSUME c * d <= p, p < c * d + d
        PROVE  c = e
    BY <1>2, <1>3, <1>4, <1>5
  <1> QED
    BY <1>1, <1>2, <1>5

LEMMA QuotientBelow ==
    \A p \in Nat, n \in Nat, d \in Nat \ {0} : p < n * d => p \div d < n
  <1> SUFFICES ASSUME NEW p \in Nat, NEW n \in Nat, NEW d \in Nat \ {0}, p < n * d
               PROVE  p \div d < n
    OBVIOUS
  <1>1. PICK c \in Nat : c = p \div d
    BY Remainder
  <1>2. c * d <= p
    BY <1>1, Quotient
  <1>3. c >= n => c * d >= n * d
    OBVIOUS
  <1>4. c * d \in Int /\ n * d \in Int
    OBVIOUS
  <1> QED
    BY <1>1, <1>2, <1>3, <1>4

Chosen == config \in Configs /\ score \in Scores

LEMMA ChosenFacts ==
    ASSUME Chosen
    PROVE  /\ Scored
           /\ config.nKVHeads \in Nat \ {0} /\ config.nHeads \in Nat \ {0}
           /\ config.chunk \in Nat \ {0} /\ config.subWarp \in Nat
           /\ nGroups \in Nat \ {0} /\ config.nHeads = config.nKVHeads * nGroups
           /\ attnChunks \in Nat \ {0} /\ MaxSeqLen <= attnChunks * config.chunk
           /\ nw \in Nat \ {0}
           /\ wsub \in Nat \ {0} /\ config.chunk \div wsub \in Nat \ {0}
           /\ config.chunk = wsub * (config.chunk \div wsub)
  <1>1. /\ config.nKVHeads \in Nat \ {0} /\ config.nHeads \in Nat \ {0}
        /\ config.chunk \in Nat \ {0} /\ config.subWarp \in Nat
        /\ config.nHeads % config.nKVHeads = 0
    BY SizesAssumption, HeadsAssumption DEF Chosen
  <1>2. Scored
    BY ScoresAssumption DEF Chosen, Scored, Rows, Bottom
  <1>3. ASSUME NEW a \in Nat \ {0}, NEW b \in Nat \ {0}, a % b = 0
        PROVE  a \div b \in Nat \ {0} /\ a = b * (a \div b)
    <2>1. a = b * (a \div b) + (a % b) /\ a \div b \in Nat
      BY Remainder
    <2>2. a \div b # 0
      BY <1>3, <2>1
    <2> QED
      BY <1>3, <2>1, <2>2
  <1>4. nGroups \in Nat \ {0} /\ config.nHeads = config.nKVHeads * nGroups
    BY <1>1, <1>3 DEF nGroups
  <1>5. nw \in Nat \ {0}
    BY DEF nw
  <1>6. attnChunks \in Nat \ {0} /\ MaxSeqLen <= attnChunks * config.chunk
    <2>1. PICK d \in Nat \ {0} : d = config.chunk
      BY <1>1
    <2>2. PICK p \in Nat : p = MaxSeqLen + d - 1
      BY <2>1, SizesAssumption
    <2>3. PICK c \in Nat : c = p \div d
      BY Remainder
    <2>4. c * d <= p /\ p < c * d + d
      BY <2>3, Quotient
    <2>5. c # 0 /\ MaxSeqLen <= c * d
      <3>1. c * d \in Int /\ p >= d /\ MaxSeqLen \in Nat
        BY <2>2, SizesAssumption
      <3>2. c = 0 => c * d = 0
        OBVIOUS
      <3> QED
        BY <2>2, <2>4, <3>1, <3>2
    <2>6. attnChunks = c
      BY <2>1, <2>2, <2>3 DEF attnChunks
    <2> QED
      BY <2>1, <2>5, <2>6
  <1>7. wsub \in Nat \ {0} /\ config.chunk % wsub = 0
    BY <1>1 DEF wsub
  <1> QED
    BY <1>1, <1>2, <1>3, <1>4, <1>5, <1>6, <1>7

\* Each query head is served by one K/V head.
LEMMA HeadServed ==
    ASSUME Chosen, NEW h \in QHeads
    PROVE  kvHead(h) \in KVHeads /\ h \in GroupHeads(kvHead(h))
  <1>1. PICK n \in Nat \ {0} : n = nGroups
    BY ChosenFacts
  <1>2. PICK kv \in Nat \ {0} : kv = config.nKVHeads
    BY ChosenFacts
  <1>3. h \in Nat /\ h < kv * n
    BY <1>1, <1>2, ChosenFacts DEF QHeads
  <1>4. PICK g \in Nat : g = h \div n
    BY <1>3, Remainder
  <1>5. g < kv
    BY <1>3, <1>4, QuotientBelow
  <1>6. g * n <= h /\ h < g * n + n
    BY <1>3, <1>4, Quotient
  <1>7. h - g * n \in 0..(n - 1) /\ h = g * n + (h - g * n)
    BY <1>3, <1>6
  <1>8. kvHead(h) = g
    BY <1>1, <1>4 DEF kvHead, nGroups
  <1> QED
    BY <1>1, <1>2, <1>5, <1>7, <1>8 DEF KVHeads, GroupHeads

LEMMA GroupServed ==
    ASSUME Chosen, NEW g \in KVHeads, NEW h \in GroupHeads(g)
    PROVE  h \in QHeads /\ kvHead(h) = g
  <1>1. PICK n \in Nat \ {0} : n = nGroups
    BY ChosenFacts
  <1>2. PICK kv \in Nat \ {0} : kv = config.nKVHeads
    BY ChosenFacts
  <1>3. PICK i \in 0..(n - 1) : h = g * n + i
    BY <1>1 DEF GroupHeads
  <1>4. g \in Nat /\ g <= kv - 1
    BY <1>2 DEF KVHeads
  <1>5. h \in Nat /\ g * n <= h /\ h < g * n + n
    BY <1>3, <1>4
  <1>6. h \div n = g
    BY <1>4, <1>5, Quotient
  <1>7. g * n + n <= kv * n /\ g * n \in Int /\ kv * n \in Int
    BY <1>4
  <1>8. h < kv * n
    BY <1>5, <1>7
  <1> QED
    BY <1>1, <1>2, <1>5, <1>6, <1>7, <1>8, ChosenFacts DEF QHeads, kvHead, nGroups

\* The partial results of a decode step do not overlap.
LEMMA PartsApart ==
    ASSUME Chosen, NEW h \in QHeads, NEW i \in QHeads,
           NEW c \in 0..(attnChunks - 1), NEW d \in 0..(attnChunks - 1)
    PROVE  /\ pidx(0, h, c) \in 0..(config.nHeads * attnChunks - 1)
           /\ pidx(0, h, c) = pidx(0, i, d) => h = i /\ c = d
  <1>1. PICK n \in Nat \ {0} : n = config.nHeads
    BY ChosenFacts
  <1>2. PICK a \in Nat \ {0} : a = attnChunks
    BY ChosenFacts
  <1>3. h \in Nat /\ i \in Nat /\ c \in Nat /\ d \in Nat /\ h <= n - 1 /\ c < a /\ d < a
    BY <1>1, <1>2 DEF QHeads
  <1>4. pidx(0, h, c) = h * a + c /\ pidx(0, i, d) = i * a + d
    BY <1>1, <1>2, <1>3 DEF pidx
  <1>5. h * a + a <= n * a /\ h * a \in Nat /\ n * a \in Nat
    BY <1>3
  <1>6. h * a + c \in 0..(n * a - 1)
    BY <1>3, <1>5
  <1>7. ASSUME h * a + c = i * a + d
        PROVE  h = i /\ c = d
    <2>1. PICK p \in Nat : p = h * a + c
      BY <1>3
    <2>2. h * a <= p /\ p < h * a + a /\ i * a <= p /\ p < i * a + a
      BY <1>3, <1>5, <1>7, <2>1
    <2>3. p \div a = h /\ p \div a = i
      BY <1>3, <2>2, Quotient
    <2> QED
      BY <1>3, <1>7, <2>3
  <1> QED
    BY <1>1, <1>2, <1>4, <1>6, <1>7

ChunkKeys(c) == {p \in 0..kvPos : p \div config.chunk = c}
GroupOf(w) == {c \in 0..(attnChunks - 1) : c % nw = w}
GroupKeys(w) == UNION {ChunkKeys(c) : c \in GroupOf(w)}
SpanKeys(c, w) == {p \in ChunkKeys(c) : (p - c * config.chunk) \div (config.chunk \div wsub) = w}

LEMMA ChunksApart == \A I : Apart(I, [c \in I |-> ChunkKeys(c)])
  BY DEF Apart, ChunkKeys

LEMMA ChunksCover ==
    ASSUME Chosen, kvPos \in Rows
    PROVE  UNION {ChunkKeys(c) : c \in 0..(attnChunks - 1)} = 0..kvPos
  <1>1. PICK a \in Nat \ {0} : a = attnChunks
    BY ChosenFacts
  <1>2. PICK d \in Nat \ {0} : d = config.chunk
    BY ChosenFacts
  <1>3. ASSUME NEW p \in 0..kvPos
        PROVE  p \div d \in 0..(a - 1)
    <2>1. p \in Nat /\ p < a * d
      <3>1. MaxSeqLen <= a * d /\ a * d \in Int
        BY <1>1, <1>2, ChosenFacts
      <3> QED
        BY <3>1, SizesAssumption DEF Rows
    <2>2. p \div d \in Nat /\ p \div d < a
      BY <2>1, Remainder, QuotientBelow
    <2> QED
      BY <2>2
  <1> QED
    BY <1>1, <1>2, <1>3 DEF ChunkKeys

LEMMA GroupsApart == \A I : Apart(I, [w \in I |-> GroupKeys(w)])
  BY DEF Apart, GroupKeys, GroupOf, ChunkKeys

LEMMA GroupsCover ==
    ASSUME Chosen, kvPos \in Rows
    PROVE  UNION {GroupKeys(w) : w \in 0..(nw - 1)} = 0..kvPos
  <1>1. PICK n \in Nat \ {0} : n = nw
    BY ChosenFacts
  <1>2. PICK a \in Nat \ {0} : a = attnChunks
    BY ChosenFacts
  <1>3. \A c \in 0..(a - 1) : c % n \in 0..(n - 1)
    BY Remainder
  <1>4. UNION {GroupKeys(w) : w \in 0..(n - 1)} = UNION {ChunkKeys(c) : c \in 0..(a - 1)}
    BY <1>1, <1>2, <1>3 DEF GroupKeys, GroupOf
  <1> QED
    BY <1>1, <1>2, <1>4, ChunksCover

LEMMA SpansApart == \A c, I : Apart(I, [w \in I |-> SpanKeys(c, w)])
  BY DEF Apart, SpanKeys

LEMMA SpansCover ==
    ASSUME Chosen, kvPos \in Rows, NEW c \in Nat
    PROVE  UNION {SpanKeys(c, w) : w \in 0..(wsub - 1)} = ChunkKeys(c)
  <1>1. PICK n \in Nat \ {0} : n = wsub
    BY ChosenFacts
  <1>2. PICK d \in Nat \ {0} : d = config.chunk
    BY ChosenFacts
  <1>3. PICK s \in Nat \ {0} : s = d \div n
    BY <1>1, <1>2, ChosenFacts
  <1>4. d = n * s
    BY <1>1, <1>2, <1>3, ChosenFacts
  <1>5. ASSUME NEW p \in ChunkKeys(c)
        PROVE  (p - c * d) \div s \in 0..(n - 1)
    <2>1. p \in Nat /\ p \div d = c
      BY <1>2, SizesAssumption DEF ChunkKeys, Rows
    <2>2. c * d <= p /\ p < c * d + d
      BY <2>1, Quotient
    <2>3. PICK i \in Nat : i = p - c * d
      BY <2>1, <2>2
    <2>4. i < n * s
      BY <1>4, <2>1, <2>2, <2>3
    <2>5. i \div s \in Nat /\ i \div s < n
      BY <2>4, Remainder, QuotientBelow
    <2> QED
      BY <2>3, <2>5
  <1> QED
    BY <1>1, <1>2, <1>3, <1>5 DEF SpanKeys

LEMMA SpanQuotient ==
    ASSUME NEW n \in Nat \ {0}, NEW s \in Nat \ {0}, NEW d \in Nat \ {0}, d = n * s,
           NEW c \in Nat, NEW w \in Nat, w <= n - 1, NEW p \in Nat,
           NEW x \in Nat, x = c * d, NEW y \in Nat, y = w * s
    PROVE  /\ y + s <= d
           /\ (p \div d = c /\ (p - x) \div s = w) <=> (x + y <= p /\ p <= x + y + s - 1)
  <1>1. y + s <= d
    <2>1. w * s + s <= n * s
      OBVIOUS
    <2> QED
      BY <2>1
  <1>2. (p \div d = c) <=> (x <= p /\ p < x + d)
    <2>1. (p \div d = c) <=> (c * d <= p /\ p < c * d + d)
      BY Quotient
    <2> QED
      BY <2>1
  <1>3. CASE x <= p
    <2>1. PICK i \in Nat : i = p - x
      BY <1>3
    <2>2. (i \div s = w) <=> (w * s <= i /\ i < w * s + s)
      BY Quotient
    <2> QED
      BY <1>1, <1>2, <1>3, <2>1, <2>2
  <1>4. CASE ~ (x <= p)
    BY <1>1, <1>2, <1>4
  <1> QED
    BY <1>1, <1>3, <1>4

\* A warp's span as the rows it scans.
LEMMA SpanIsInterval ==
    ASSUME Chosen, kvPos \in Rows, NEW c \in Nat, NEW w \in 0..(wsub - 1)
    PROVE  \E lo \in Nat, span \in Nat \ {0} :
              /\ span = config.chunk \div wsub /\ lo = c * config.chunk + w * span
              /\ SpanKeys(c, w) = {p \in 0..kvPos : lo <= p /\ p <= lo + span - 1}
  <1>1. PICK n \in Nat \ {0} : n = wsub
    BY ChosenFacts
  <1>2. PICK d \in Nat \ {0} : d = config.chunk
    BY ChosenFacts
  <1>3. PICK s \in Nat \ {0} : s = d \div n
    BY <1>1, <1>2, ChosenFacts
  <1>4. d = n * s
    BY <1>1, <1>2, <1>3, ChosenFacts
  <1>5. PICK x \in Nat : x = c * d
    OBVIOUS
  <1>6. PICK v \in Nat : v = w /\ v <= n - 1
    BY <1>1
  <1>7. PICK y \in Nat : y = v * s
    BY <1>6
  <1>8. \A p \in Nat : (p \div d = c /\ (p - x) \div s = v) <=> (x + y <= p /\ p <= x + y + s - 1)
    <2>1. v <= n - 1
      BY <1>6
    <2> SUFFICES ASSUME NEW p \in Nat
                 PROVE  (p \div d = c /\ (p - x) \div s = v)
                          <=> (x + y <= p /\ p <= x + y + s - 1)
      OBVIOUS
    <2> QED
      BY <1>4, <1>5, <1>7, <2>1, SpanQuotient
  <1>9. \A p \in 0..kvPos : p \in Nat
    BY DEF Rows
  <1>10. SpanKeys(c, w) = {p \in 0..kvPos : p \div d = c /\ (p - x) \div s = v}
    BY <1>1, <1>2, <1>3, <1>5, <1>6 DEF SpanKeys, ChunkKeys
  <1>11. SpanKeys(c, w) = {p \in 0..kvPos : x + y <= p /\ p <= x + y + s - 1}
    BY <1>8, <1>9, <1>10
  <1>12. PICK lo \in Nat : lo = x + y
    OBVIOUS
  <1>13. /\ s = config.chunk \div wsub /\ lo = c * config.chunk + w * s
         /\ SpanKeys(c, w) = {p \in 0..kvPos : lo <= p /\ p <= lo + s - 1}
    BY <1>1, <1>2, <1>3, <1>5, <1>6, <1>7, <1>11, <1>12
  <1> QED
    BY <1>13

-----------------------------------------------------------------------------
(* What the blocks and warps compute.                                      *)

\* The caches hold the rows a step may read.
RowsHeld(last) == \A i \in 0..last, g \in KVHeads : IsRow(i, g)

LEMMA MinOfTwo ==
    ASSUME NEW x \in Int, NEW y \in Int
    PROVE  Min({x, y}) = IF x <= y THEN x ELSE y
  <1>1. CASE x <= y
    <2>1. \A m : (m \in {x, y} /\ \A z \in {x, y} : m <= z) <=> m = x
      BY <1>1
    <2> QED
      BY <1>1, <2>1 DEF Min
  <1>2. CASE ~ (x <= y)
    <2>1. \A m : (m \in {x, y} /\ \A z \in {x, y} : m <= z) <=> m = y
      BY <1>2
    <2> QED
      BY <1>2, <2>1 DEF Min
  <1> QED
    BY <1>1, <1>2

\* The span a warp scans, empty past the end of the context.
LEMMA SpanScanPart ==
    ASSUME Chosen, kvPos \in Rows, pos = kvPos, RowsHeld(kvPos),
           NEW b, b[1] = 0, b[2] \in QHeads, b[3] \in Nat, NEW w \in 0..(wsub - 1)
    PROVE  IsPart(SpanScan(b, w), SpanKeys(b[3], w), kvHead(b[2]))
  <1>1. PICK c \in Nat : c = b[3]
    OBVIOUS
  <1>2. PICK lo \in Nat, span \in Nat \ {0} :
           /\ span = config.chunk \div wsub /\ lo = c * config.chunk + w * span
           /\ SpanKeys(c, w) = {p \in 0..kvPos : lo <= p /\ p <= lo + span - 1}
    BY SpanIsInterval
  <1>3. PICK last \in Nat : last = kvPos
    BY DEF Rows
  <1>4. csEnd(b[1]) = last
    BY <1>3 DEF csEnd
  <1>5. PICK g : g = kvHead(b[2])
    OBVIOUS
  <1>6. g \in KVHeads
    BY <1>5, HeadServed
  <1>7. SpanScan(b, w) = IF lo <= last THEN Scan(lo, Min({lo + span - 1, last}), g) ELSE Nothing
    BY <1>1, <1>2, <1>4, <1>5 DEF SpanScan
  <1>8. CASE lo <= last
    <2>1. PICK hi \in Nat : hi = Min({lo + span - 1, last})
      BY <1>3, MinOfTwo
    <2>2. hi >= lo - 1 /\ hi <= last /\ SpanKeys(c, w) = lo..hi
      BY <1>2, <1>3, <1>8, <2>1, MinOfTwo
    <2>3. \A i \in lo..hi : IsRow(i, g)
      BY <1>3, <1>6, <2>2 DEF RowsHeld
    <2>4. Scored /\ hi \in Int /\ hi >= lo - 1
      BY <2>2, ChosenFacts
    <2>5. IsPart(Scan(lo, hi, g), lo..hi, g)
      BY <2>3, <2>4, ScanPart
    <2> QED
      BY <1>1, <1>5, <1>7, <1>8, <2>1, <2>2, <2>5
  <1>9. CASE ~ (lo <= last)
    <2>1. SpanKeys(c, w) = {}
      BY <1>2, <1>3, <1>9
    <2> QED
      BY <1>1, <1>5, <1>7, <1>9, <2>1, NothingIsPart
  <1> QED
    BY <1>8, <1>9

\* The warps of a block put their spans together.
LEMMA MergedSpans ==
    ASSUME Chosen, kvPos \in Rows, NEW c \in Nat, NEW g, NEW ps, DOMAIN ps = 0..(wsub - 1),
           \A w \in 0..(wsub - 1) : IsPart(ps[w], SpanKeys(c, w), g)
    PROVE  IsPart(Merged(ps), ChunkKeys(c), g)
  <1> DEFINE I == 0..(wsub - 1)
             K == [w \in I |-> SpanKeys(c, w)]
  <1>1. PartsOf(ps, I, K, g)
    <2>1. IsFiniteSet(I)
      BY ChosenFacts, FiniteInterval
    <2>2. Apart(I, K)
      BY SpansApart
    <2>3. \A w \in I : K[w] \in SUBSET Rows
      BY SizesAssumption DEF SpanKeys, ChunkKeys, Rows
    <2> QED
      BY <2>1, <2>2, <2>3 DEF PartsOf
  <1>2. UNION {K[w] : w \in I} = UNION {SpanKeys(c, w) : w \in I}
    OBVIOUS
  <1> HIDE DEF K
  <1>3. IsPart(Merged(ps), UNION {K[w] : w \in I}, g)
    BY <1>1, ChosenFacts, MergedPart
  <1> QED
    BY <1>2, <1>3, SpansCover

\* The warps of a combine put their groups of chunks together.
LEMMA MergedGroups ==
    ASSUME Chosen, kvPos \in Rows, NEW g, NEW ps, DOMAIN ps = 0..(nw - 1),
           \A w \in 0..(nw - 1) : IsPart(ps[w], GroupKeys(w), g)
    PROVE  IsPart(Merged(ps), 0..kvPos, g)
  <1> DEFINE I == 0..(nw - 1)
             K == [w \in I |-> GroupKeys(w)]
  <1>1. PartsOf(ps, I, K, g)
    <2>1. IsFiniteSet(I)
      BY ChosenFacts, FiniteInterval
    <2>2. Apart(I, K)
      BY GroupsApart
    <2>3. \A w \in I : K[w] \in SUBSET Rows
      BY SizesAssumption DEF GroupKeys, ChunkKeys, Rows
    <2> QED
      BY <2>1, <2>2, <2>3 DEF PartsOf
  <1>2. UNION {K[w] : w \in I} = UNION {GroupKeys(w) : w \in I}
    OBVIOUS
  <1> HIDE DEF K
  <1>3. IsPart(Merged(ps), UNION {K[w] : w \in I}, g)
    BY <1>1, ChosenFacts, MergedPart
  <1> QED
    BY <1>2, <1>3, GroupsCover

\* The chunks that hold keys are all that a fold over chunks has to see.
LEMMA FoldOfPart ==
    ASSUME Chosen, kvPos \in Rows, NEW b, NEW g, NEW chunks \in SUBSET (0..(attnChunks - 1)),
           \A c \in chunks : IsPart(part[pidx(b[1], b[2], c)], ChunkKeys(c), g)
    PROVE  IsPart(FoldOf(b, chunks), UNION {ChunkKeys(c) : c \in chunks}, g)
  <1> DEFINE some == {c \in chunks : part[pidx(b[1], b[2], c)].l # EmptyBag}
             K == [c \in chunks |-> ChunkKeys(c)]
             ps == [c \in chunks |-> part[pidx(b[1], b[2], c)]]
             U == UNION {ChunkKeys(c) : c \in chunks}
  <1>1. IsFiniteSet(chunks) /\ IsFiniteSet(some)
    <2>1. IsFiniteSet(0..(attnChunks - 1))
      BY ChosenFacts, FiniteInterval
    <2>2. IsFiniteSet(chunks)
      BY <2>1, FS_Subset
    <2> QED
      BY <2>2, FS_Subset
  <1>2. \A c \in chunks : ChunkKeys(c) \in SUBSET Rows
    BY SizesAssumption DEF ChunkKeys, Rows
  <1>3. PartsOf(ps, chunks, K, g)
    <2>1. Apart(chunks, K)
      BY ChunksApart
    <2>2. DOMAIN ps = chunks /\ \A c \in chunks : K[c] \in SUBSET Rows /\ IsPart(ps[c], K[c], g)
      BY <1>2
    <2> HIDE DEF K, ps
    <2> QED
      BY <1>1, <2>1, <2>2 DEF PartsOf
  <1>4. PartsOf(ChunkParts(b, chunks), some, K, g)
    <2>1. Apart(some, K)
      BY ChunksApart DEF Apart
    <2>2. /\ DOMAIN ChunkParts(b, chunks) = some
          /\ \A c \in some : K[c] \in SUBSET Rows /\ IsPart(ChunkParts(b, chunks)[c], K[c], g)
      BY <1>2 DEF ChunkParts
    <2> HIDE DEF K, some
    <2> QED
      BY <1>1, <2>1, <2>2 DEF PartsOf
  <1>5. \A c \in chunks : c \notin some => ChunkKeys(c) = {}
    <2> SUFFICES ASSUME NEW c \in chunks, part[pidx(b[1], b[2], c)].l = EmptyBag
                 PROVE  ChunkKeys(c) = {}
      OBVIOUS
    <2>1. PICK M : part[pidx(b[1], b[2], c)] = PartAt(ChunkKeys(c), g, M)
      BY DEF IsPart
    <2>2. SetToBag({Term(i, g, M) : i \in ChunkKeys(c)}) = EmptyBag
      BY <2>1 DEF PartAt
    <2>3. {Term(i, g, M) : i \in ChunkKeys(c)} = {}
      BY <2>2 DEF SetToBag, EmptyBag
    <2> QED
      BY <2>3
  <1>6. UNION {K[c] : c \in some} = U /\ UNION {K[c] : c \in chunks} = U
    BY <1>5
  <1>7. Scored
    BY ChosenFacts
  <1> HIDE DEF K, some, ps, U
  <1>8. PICK M : M = Maximum(ps)
    OBVIOUS
  <1>9. IsPeak(U, M)
    <2>1. IsPeak(UNION {K[c] : c \in chunks}, Maximum(ps))
      BY <1>3, <1>7, MaximumPeak
    <2> QED
      BY <1>6, <1>8, <2>1
  <1>10. M \in Int
    BY <1>9 DEF IsPeak
  <1>11. MergedAt(ChunkParts(b, chunks), M) = PartAt(U, g, M)
    BY <1>4, <1>6, <1>7, <1>10, MergedAtPart
  <1>12. FoldOf(b, chunks) = MergedAt(ChunkParts(b, chunks), M)
    BY <1>8 DEF FoldOf, ChunkMaximum, ps
  <1> QED
    BY <1>9, <1>11, <1>12 DEF IsPart, U

\* What a partial result is made of.
LEMMA KeysOfPart ==
    ASSUME NEW r, NEW K, NEW g, IsPart(r, K, g)
    PROVE  KeysOf(r) = {Key(epoch, i, g, i) : i \in K} /\ {key.pos : key \in KeysOf(r)} = K
  <1>1. PICK M : r = PartAt(K, g, M)
    BY DEF IsPart
  <1>2. DOMAIN r.l = {Term(i, g, M) : i \in K}
    BY <1>1 DEF PartAt, SetToBag
  <1>3. \A i : Term(i, g, M).k = Key(epoch, i, g, i) /\ Key(epoch, i, g, i).pos = i
    BY DEF Term, Key
  <1>4. KeysOf(r) = {Key(epoch, i, g, i) : i \in K}
    BY <1>2, <1>3 DEF KeysOf
  <1> QED
    BY <1>3, <1>4

\* The partial result over a whole context is the softmax of its scores.
LEMMA SoftmaxIs ==
    ASSUME Chosen, NEW p \in Rows, NEW h \in QHeads, NEW r, IsPart(r, 0..p, kvHead(h))
    PROVE  [rot |-> p, p |-> r] = SoftmaxOf(p, h)
  <1> DEFINE S == {score[i] : i \in 0..p}
             Mx == Max(S)
             ch == CHOOSE g \in KVHeads : h \in GroupHeads(g)
  <1>1. PICK g : g = kvHead(h)
    OBVIOUS
  <1>2. g = ch
    <2>1. g \in KVHeads /\ h \in GroupHeads(g)
      BY <1>1, HeadServed
    <2>2. \A f \in KVHeads : h \in GroupHeads(f) => f = g
      BY <1>1, GroupServed
    <2> QED
      BY <2>1, <2>2
  <1>3. PICK M : IsPeak(0..p, M) /\ r = PartAt(0..p, g, M)
    BY <1>1 DEF IsPart
  <1>4. \A i \in 0..p : score[i] \in Int /\ score[i] >= Bottom
    BY SizesAssumption, ChosenFacts DEF Scored, Rows
  <1>5. 0 \in 0..p
    BY DEF Rows
  <1>6. M \in S /\ \A y \in S : M >= y
    <2>1. M \in Int /\ \A i \in 0..p : score[i] <= M
      BY <1>3 DEF IsPeak
    <2>2. M \in S
      <3>1. CASE M = Bottom
        <4>1. score[0] = M
          BY <1>4, <1>5, <2>1, <3>1 DEF Bottom
        <4> QED
          BY <1>5, <4>1
      <3>2. CASE M # Bottom
        BY <1>3, <3>2 DEF IsPeak
      <3> QED
        BY <3>1, <3>2
    <2> QED
      BY <1>4, <2>1, <2>2
  <1>7. Mx = M
    <2>1. S \in SUBSET Int
      BY <1>4
    <2> HIDE DEF S
    <2>2. Mx \in S /\ \A y \in S : Mx >= y
      BY <1>6 DEF Max
    <2> HIDE DEF Mx
    <2>3. M \in Int /\ Mx \in Int /\ M >= Mx /\ Mx >= M
      BY <1>6, <2>1, <2>2
    <2> QED
      BY <2>3
  <1> DEFINE term(i) == [k |-> Key(epoch, i, ch, i), e |-> score[i] - Mx]
             value(i) == [k |-> term(i).k, v |-> Value(epoch, i, ch), e |-> term(i).e]
  <1>8. SoftmaxOf(p, h) = [rot |-> p, p |-> [m |-> Mx, l |-> SetToBag({term(i) : i \in 0..p}),
                                             acc |-> SetToBag({value(i) : i \in 0..p})]]
    BY DEF SoftmaxOf
  <1>9. \A i : term(i) = Term(i, g, M) /\ value(i) = ValueTerm(i, g, M)
    BY <1>2, <1>7 DEF Term, ValueTerm
  <1> HIDE DEF term, value, Mx
  <1>10. [m |-> Mx, l |-> SetToBag({term(i) : i \in 0..p}),
          acc |-> SetToBag({value(i) : i \in 0..p})] = PartAt(0..p, g, M)
    BY <1>7, <1>9 DEF PartAt
  <1> QED
    BY <1>3, <1>8, <1>10

-----------------------------------------------------------------------------
(* The invariant of a pass.                                                *)

Split == config.engine = "cuda" /\ splitAttn
Writing == pass.stage = "combine" \/ (pass.stage = "attend" /\ ~Split)
OnCPU == config.engine \in {"cpu", "q35cpu"}
HeadsOf(b) == IF OnCPU THEN GroupHeads(b[2]) ELSE {b[2]}

PassBounded ==
    /\ Chosen
    /\ epoch \in 1..MaxSessions /\ graphPos \in Rows
    /\ pass.T <= MaxBatch
    /\ pass.stage = "combine" => Split

TokensRotated ==
    /\ pass.stage \in {"idle", "rotate"} => q = <<>>
    /\ pass.stage \notin {"idle", "rotate"} => q = [s \in Tokens |-> kvPos + s]

\* Head h of token s has the keys up to the token's own.
OutRight(s, h) ==
    \E r : out[<<s, h>>] = [rot |-> kvPos + s, p |-> r] /\ IsPart(r, 0..(kvPos + s), kvHead(h))

\* An output is right as soon as it is written; a block that is done wrote its own.
OutputsRight ==
    /\ pass.stage \notin Stored => DOMAIN out = {}
    /\ \A sh \in DOMAIN out : \E s \in Tokens, h \in QHeads : sh = <<s, h>> /\ OutRight(s, h)
    /\ Writing => \A b \in grid.done : \A h \in HeadsOf(b) : <<b[1], h>> \in DOMAIN out
    /\ pass.stage = "end" => \A s \in Tokens, h \in QHeads : <<s, h>> \in DOMAIN out

\* A block of the split kernel that is done has left its chunk's partial result.
PartRight(h, c) == IsPart(part[pidx(0, h, c)], ChunkKeys(c), kvHead(h))
PartsRight ==
    /\ DOMAIN part = 0..(config.nHeads * attnChunks - 1)
    /\ pass.stage = "attend" /\ Split => \A b \in grid.done : PartRight(b[2], b[3])
    /\ pass.stage = "combine" => \A h \in QHeads, c \in 0..(attnChunks - 1) : PartRight(h, c)

\* A warp of the running block that has arrived has shared the keys it took.
WarpKeys(b, w) == IF pass.stage = "combine" THEN GroupKeys(w) ELSE SpanKeys(b[3], w)
Shared(b) ==
    /\ b \in Blocks \ grid.done
    /\ pass.stage = "combine" \/ Split
    /\ DOMAIN grid.warp = Warps /\ DOMAIN grid.shared = Warps
    /\ \A w \in Warps : grid.warp[w] # "run" => IsPart(grid.shared[w], WarpKeys(b, w), kvHead(b[2]))
GridRight ==
    /\ grid = [done |-> grid.done, block |-> grid.block, warp |-> grid.warp, shared |-> grid.shared]
    /\ pass.stage \notin {"attend", "combine"} => grid = Fresh
    /\ grid.done \in SUBSET Blocks
    /\ grid.block # NoBlock => Shared(grid.block)

PassInv == CacheInv /\ PassBounded /\ TokensRotated /\ OutputsRight /\ PartsRight /\ GridRight

LEMMA PassFacts ==
    ASSUME PassInv
    PROVE  /\ kvPos \in Nat /\ pass.T \in Nat /\ kvPos + pass.T <= MaxSeqLen
           /\ pos = kvPos
           /\ \A s \in Tokens : s \in Nat /\ s <= pass.T - 1 /\ kvPos + s \in Rows
           /\ pass.stage \in Stored => \A s \in Tokens : RowsHeld(kvPos + s)
  <1>1. kvPos \in Nat /\ pass.T \in Nat /\ kvPos + pass.T <= MaxSeqLen
    BY DEF PassInv, CacheInv, PassType
  <1>2. pos = kvPos
    BY PositionAgrees DEF PassInv
  <1>3. \A s \in Tokens : s \in Nat /\ s <= pass.T - 1 /\ kvPos + s \in Rows
    BY <1>1, SizesAssumption DEF Tokens, Rows
  <1>4. ASSUME pass.stage \in Stored, NEW s \in Tokens
        PROVE  RowsHeld(kvPos + s)
    <2> SUFFICES ASSUME NEW i \in 0..(kvPos + s), NEW g \in KVHeads
                 PROVE  IsRow(i, g)
      BY DEF RowsHeld
    <2>1. i \in 0..(kvPos + pass.T - 1) /\ i \in Rows
      BY <1>1, <1>3, SizesAssumption DEF Rows
    <2>2. Held = kvPos + pass.T
      BY <1>4 DEF Held
    <2>3. i \in 0..(Held - 1)
      BY <1>1, <2>1, <2>2
    <2>4. kCache[i][g] = Key(epoch, i, g, i) /\ vCache[i][g] = Value(epoch, i, g)
      BY <2>3 DEF PassInv, CacheInv, HeldRows
    <2> QED
      BY <2>1, <2>4 DEF IsRow
  <1> QED
    BY <1>1, <1>2, <1>3, <1>4

\* Which blocks a launch has.
LEMMA BlockShape ==
    ASSUME PassInv, NEW b \in Blocks
    PROVE  /\ pass.stage = "attend" /\ Split =>
                 b[1] = 0 /\ b[2] \in QHeads /\ b[3] \in 0..(attnChunks - 1)
           /\ Writing => /\ b[1] \in Tokens
                         /\ OnCPU => b[2] \in KVHeads
                         /\ ~OnCPU => b[2] \in QHeads
                         /\ \A h \in HeadsOf(b) : h \in QHeads
                         /\ OnCPU => \A h \in HeadsOf(b) : kvHead(h) = b[2]
  <1>1. pass.stage = "attend" /\ Split =>
           b[1] = 0 /\ b[2] \in QHeads /\ b[3] \in 0..(attnChunks - 1)
    BY DEF Blocks, Split
  <1>2. Writing => b[1] \in Tokens /\ (OnCPU => b[2] \in KVHeads) /\ (~OnCPU => b[2] \in QHeads)
    BY DEF Blocks, Split, Writing, OnCPU, PassInv, PassBounded
  <1>3. Chosen
    BY DEF PassInv, PassBounded
  <1>4. ASSUME Writing
        PROVE  \A h \in HeadsOf(b) : h \in QHeads /\ (OnCPU => kvHead(h) = b[2])
    <2>1. CASE OnCPU
      BY <1>2, <1>3, <1>4, <2>1, GroupServed DEF HeadsOf
    <2>2. CASE ~OnCPU
      BY <1>2, <1>4, <2>2 DEF HeadsOf
    <2> QED
      BY <2>1, <2>2
  <1> QED
    BY <1>1, <1>2, <1>4

LEMMA BlocksCover ==
    ASSUME PassInv
    PROVE  /\ Writing => \A s \in Tokens, h \in QHeads : \E b \in Blocks : b[1] = s /\ h \in HeadsOf(b)
           /\ pass.stage = "attend" /\ Split =>
                 \A h \in QHeads, c \in 0..(attnChunks - 1) :
                    \E b \in Blocks : b[2] = h /\ b[3] = c
  <1>1. ASSUME Writing, NEW s \in Tokens, NEW h \in QHeads
        PROVE  \E b \in Blocks : b[1] = s /\ h \in HeadsOf(b)
    <2>1. CASE OnCPU
      <3>1. kvHead(h) \in KVHeads /\ h \in GroupHeads(kvHead(h))
        BY HeadServed DEF PassInv, PassBounded
      <3>2. <<s, kvHead(h), 0>> \in Blocks
        BY <1>1, <2>1, <3>1 DEF Blocks, OnCPU
      <3> QED
        BY <2>1, <3>1, <3>2 DEF HeadsOf
    <2>2. CASE ~OnCPU
      <3>1. <<s, h, 0>> \in Blocks
        BY <1>1, <2>2 DEF Blocks, OnCPU, Split, Writing, PassInv, PassBounded
      <3> QED
        BY <2>2, <3>1 DEF HeadsOf
    <2> QED
      BY <2>1, <2>2
  <1>2. ASSUME pass.stage = "attend", Split, NEW h \in QHeads, NEW c \in 0..(attnChunks - 1)
        PROVE  \E b \in Blocks : b[2] = h /\ b[3] = c
    <2>1. <<0, h, c>> \in Blocks
      BY <1>2 DEF Blocks, Split
    <2> QED
      BY <2>1
  <1> QED
    BY <1>1, <1>2

\* What stays the same while a session and its configuration do.
LEMMA SamePart ==
    ASSUME UNCHANGED <<config, score, epoch, kvPos>>
    PROVE  /\ \A r, K, g : IsPart(r, K, g)' <=> IsPart(r, K, g)
           /\ \A h : kvHead(h)' = kvHead(h)
           /\ \A c : ChunkKeys(c)' = ChunkKeys(c)
           /\ \A w : GroupKeys(w)' = GroupKeys(w)
           /\ \A c, w : SpanKeys(c, w)' = SpanKeys(c, w)
           /\ \A s, h, c : pidx(s, h, c)' = pidx(s, h, c)
           /\ attnChunks' = attnChunks /\ nw' = nw /\ wsub' = wsub
           /\ QHeads' = QHeads /\ KVHeads' = KVHeads /\ OnCPU' = OnCPU
           /\ \A b : HeadsOf(b)' = HeadsOf(b)
           /\ Chosen' = Chosen
  BY DEF IsPart, IsPeak, PartAt, Term, ValueTerm, Key, Value, Bottom, kvHead, ChunkKeys, GroupKeys,
         GroupOf, SpanKeys, pidx, attnChunks, nw, wsub, QHeads, KVHeads, OnCPU, HeadsOf, GroupHeads,
         nGroups, Chosen

-----------------------------------------------------------------------------
(* A block's steps.                                                        *)

AtBlock == pass.stage \in {"attend", "combine"}

\* A block that leaves its kernel, the last one or not.
LastLeaves(b) ==
    /\ grid.done \cup {b} = Blocks /\ grid' = Fresh
    /\ pass' = [pass EXCEPT !.stage = IF pass.stage = "attend" /\ Split THEN "combine" ELSE "end"]
OtherLeaves(b) ==
    grid' = [Fresh EXCEPT !.done = grid.done \cup {b}] /\ pass' = pass

LEMMA LeaveCases ==
    ASSUME NEW b, Leave(b)
    PROVE  LastLeaves(b) \/ OtherLeaves(b)
  BY DEF Leave, Then, AfterKernel, Split, LastLeaves, OtherLeaves

\* What a block leaves alone.
Frame ==
    /\ PassBounded' /\ TokensRotated'
    /\ Tokens' = Tokens /\ Split' = Split
    /\ pass' = pass => Blocks' = Blocks /\ Warps' = Warps /\ Writing' = Writing

LEMMA FrameKept ==
    ASSUME PassInv, AtBlock, Kept,
           \/ pass' = pass
           \/ pass' = [pass EXCEPT !.stage = IF pass.stage = "attend" /\ Split THEN "combine" ELSE "end"]
    PROVE  Frame
  <1>1. /\ pass'.T = pass.T /\ pass'.stage \notin {"idle", "rotate"}
        /\ pass'.stage = "combine" => Split
        /\ pass.stage \notin {"idle", "rotate"}
    BY DEF PassInv, PassBounded, CacheInv, PassType, AtBlock
  <1>2. Tokens' = Tokens
    BY <1>1 DEF Tokens
  <1>3. UNCHANGED <<config, score, epoch, kvPos, graphPos, q>>
    BY DEF Kept
  <1>4. attnChunks' = attnChunks /\ QHeads' = QHeads /\ KVHeads' = KVHeads /\ nw' = nw /\ wsub' = wsub
        /\ Chosen' = Chosen
    BY <1>3, SamePart
  <1>5. splitAttn' = splitAttn /\ Split' = Split
    BY <1>1, <1>3, <1>4 DEF splitAttn, Split
  <1>6. PassBounded'
    BY <1>1, <1>3, <1>4, <1>5 DEF PassInv, PassBounded
  <1>7. TokensRotated'
    BY <1>1, <1>2, <1>3 DEF PassInv, TokensRotated
  <1>8. pass' = pass => Blocks' = Blocks /\ Warps' = Warps /\ Writing' = Writing
    BY <1>2, <1>3, <1>4, <1>5 DEF Blocks, Warps, Writing
  <1> QED
    BY <1>2, <1>5, <1>6, <1>7, <1>8 DEF Frame

LEMMA LeaveFrame ==
    ASSUME PassInv, AtBlock, NEW b \in Blocks, Kept, Leave(b)
    PROVE  Frame /\ GridRight'
  <1>1. LastLeaves(b) \/ OtherLeaves(b)
    BY LeaveCases
  <1>2. Frame
    BY <1>1, FrameKept DEF LastLeaves, OtherLeaves
  <1>3. GridRight'
    <2>1. grid'.block = NoBlock
      BY <1>1 DEF LastLeaves, OtherLeaves, Fresh
    <2>2. CASE LastLeaves(b)
      BY <2>1, <2>2 DEF LastLeaves, Fresh, GridRight
    <2>3. CASE OtherLeaves(b)
      <3>1. pass'.stage \in {"attend", "combine"} /\ Blocks' = Blocks
        BY <1>2, <2>3 DEF OtherLeaves, AtBlock, Frame
      <3>2. grid'.done \in SUBSET Blocks'
        BY <2>3, <3>1 DEF OtherLeaves, PassInv, GridRight, Fresh
      <3> QED
        BY <2>1, <2>3, <3>1, <3>2 DEF OtherLeaves, Fresh, GridRight
    <2> QED
      BY <1>1, <2>2, <2>3
  <1> QED
    BY <1>2, <1>3

\* A block whose outputs are right.
OutputsOf(b) ==
    /\ DOMAIN out' = DOMAIN out \cup ({b[1]} \X HeadsOf(b))
    /\ \A sh \in DOMAIN out : sh \notin {b[1]} \X HeadsOf(b) => out'[sh] = out[sh]
    /\ \A h \in HeadsOf(b) :
         \E r : out'[<<b[1], h>>] = [rot |-> kvPos + b[1], p |-> r]
                /\ IsPart(r, 0..(kvPos + b[1]), kvHead(h))

LEMMA OutputBlock ==
    ASSUME PassInv, Writing, NEW b \in Blocks, Kept, Leave(b), part' = part, OutputsOf(b)
    PROVE  PassBounded' /\ TokensRotated' /\ OutputsRight' /\ PartsRight' /\ GridRight'
  <1>1. AtBlock /\ UNCHANGED <<config, score, epoch, kvPos>>
    BY DEF AtBlock, Writing, Kept
  <1>2. Frame /\ GridRight'
    BY <1>1, LeaveFrame
  <1>3. LastLeaves(b) \/ OtherLeaves(b)
    BY LeaveCases
  <1>4. /\ b[1] \in Tokens /\ \A h \in HeadsOf(b) : h \in QHeads
        /\ Tokens' = Tokens /\ QHeads' = QHeads
    BY <1>1, <1>2, BlockShape, SamePart DEF Frame
  <1>5. ASSUME NEW sh \in DOMAIN out'
        PROVE  \E s \in Tokens', h \in QHeads' : sh = <<s, h>> /\ OutRight(s, h)'
    <2>1. CASE sh \in {b[1]} \X HeadsOf(b)
      <3>1. PICK h \in HeadsOf(b) : sh = <<b[1], h>>
        BY <2>1
      <3>2. PICK r : /\ out'[<<b[1], h>>] = [rot |-> kvPos + b[1], p |-> r]
                     /\ IsPart(r, 0..(kvPos + b[1]), kvHead(h))
        BY DEF OutputsOf
      <3>3. OutRight(b[1], h)'
        BY <1>1, <3>2, SamePart DEF OutRight
      <3> QED
        BY <1>4, <3>1, <3>3
    <2>2. CASE sh \notin {b[1]} \X HeadsOf(b)
      <3>1. sh \in DOMAIN out /\ out'[sh] = out[sh]
        BY <1>5, <2>2 DEF OutputsOf
      <3>2. PICK s \in Tokens, h \in QHeads : sh = <<s, h>> /\ OutRight(s, h)
        BY <3>1 DEF PassInv, OutputsRight
      <3>3. OutRight(s, h)'
        BY <1>1, <3>1, <3>2, SamePart DEF OutRight
      <3> QED
        BY <1>4, <3>2, <3>3
    <2> QED
      BY <2>1, <2>2
  <1>6. ASSUME NEW a \in grid.done \cup {b}, NEW h \in HeadsOf(a)
        PROVE  <<a[1], h>> \in DOMAIN out'
    <2>1. CASE a = b
      BY <2>1, <1>6 DEF OutputsOf
    <2>2. CASE a \in grid.done
      BY <2>2, <1>6 DEF OutputsOf, PassInv, OutputsRight
    <2> QED
      BY <2>1, <2>2
  <1>7. \A a : HeadsOf(a)' = HeadsOf(a)
    BY <1>1, SamePart
  <1>8. OutputsRight'
    <2>1. CASE OtherLeaves(b)
      <3>1. grid'.done = grid.done \cup {b} /\ pass' = pass /\ pass.stage \in {"attend", "combine"}
        BY <1>1, <2>1 DEF OtherLeaves, Fresh, AtBlock
      <3>2. \A a \in grid'.done : \A h \in HeadsOf(a)' : <<a[1], h>> \in DOMAIN out'
        BY <1>6, <1>7, <3>1
      <3>3. pass'.stage \in Stored /\ pass'.stage # "end"
        BY <3>1 DEF Stored
      <3> QED
        BY <1>5, <3>2, <3>3 DEF OutputsRight
    <2>2. CASE LastLeaves(b)
      <3>1. pass'.stage = "end" /\ grid.done \cup {b} = Blocks
        BY <1>1, <2>2 DEF LastLeaves, Writing, AtBlock, PassInv, CacheInv, PassType
      <3>2. \A s \in Tokens, h \in QHeads : <<s, h>> \in DOMAIN out'
        <4> SUFFICES ASSUME NEW s \in Tokens, NEW h \in QHeads
                     PROVE  <<s, h>> \in DOMAIN out'
          OBVIOUS
        <4>1. PICK a \in Blocks : a[1] = s /\ h \in HeadsOf(a)
          BY BlocksCover
        <4> QED
          BY <1>6, <3>1, <4>1
      <3>3. ~ Writing' /\ pass'.stage \in Stored
        BY <3>1 DEF Writing, Stored
      <3> QED
        BY <1>4, <1>5, <3>2, <3>3 DEF OutputsRight
    <2> QED
      BY <1>3, <2>1, <2>2
  <1>9. PartsRight'
    <2>1. DOMAIN part' = 0..(config'.nHeads * attnChunks' - 1)
      BY <1>1, SamePart DEF PassInv, PartsRight
    <2>2. ~ (pass'.stage = "attend" /\ Split')
      BY <1>2, <1>3 DEF LastLeaves, OtherLeaves, Writing, Frame, PassInv, CacheInv, PassType
    <2>3. ASSUME pass'.stage = "combine", NEW h \in QHeads', NEW c \in (0..(attnChunks - 1))'
          PROVE  PartRight(h, c)'
      <3>1. pass.stage = "combine"
        BY <1>3, <2>3 DEF LastLeaves, OtherLeaves, Writing, PassInv, CacheInv, PassType
      <3>2. h \in QHeads /\ c \in 0..(attnChunks - 1)
        BY <1>1, <2>3, SamePart
      <3>3. PartRight(h, c)
        BY <3>1, <3>2 DEF PassInv, PartsRight
      <3> QED
        BY <1>1, <3>3, SamePart DEF PartRight
    <2> QED
      BY <2>1, <2>2, <2>3 DEF PartsRight
  <1> QED
    BY <1>2, <1>8, <1>9 DEF Frame

\* The partial result of a block, right in its place.
WritesPart(b) ==
    \E r : /\ part' = [part EXCEPT ![pidx(0, b[2], b[3])] = r]
           /\ IsPart(r, ChunkKeys(b[3]), kvHead(b[2]))

\* Blocks of the split kernel write apart.
LEMMA WrittenPart ==
    ASSUME PassInv, pass.stage = "attend", Split, NEW b \in Blocks, Kept, WritesPart(b)
    PROVE  /\ DOMAIN part' = 0..(config.nHeads * attnChunks - 1)
           /\ PartRight(b[2], b[3])'
           /\ \A h \in QHeads, c \in 0..(attnChunks - 1) : PartRight(h, c) => PartRight(h, c)'
  <1>1. UNCHANGED <<config, score, epoch, kvPos>>
    BY DEF Kept
  <1>2. b[2] \in QHeads /\ b[3] \in 0..(attnChunks - 1) /\ Chosen
    BY BlockShape DEF PassInv, PassBounded
  <1>3. PICK r : /\ part' = [part EXCEPT ![pidx(0, b[2], b[3])] = r]
                 /\ IsPart(r, ChunkKeys(b[3]), kvHead(b[2]))
    BY DEF WritesPart
  <1>4. DOMAIN part = 0..(config.nHeads * attnChunks - 1)
    BY DEF PassInv, PartsRight
  <1>5. DOMAIN part' = DOMAIN part
    BY <1>3
  <1>6. part'[pidx(0, b[2], b[3])] = r
    BY <1>2, <1>3, <1>4, PartsApart
  <1>7. PartRight(b[2], b[3])'
    BY <1>1, <1>3, <1>6, SamePart DEF PartRight
  <1>8. ASSUME NEW h \in QHeads, NEW c \in 0..(attnChunks - 1), PartRight(h, c)
        PROVE  PartRight(h, c)'
    <2>1. CASE pidx(0, h, c) = pidx(0, b[2], b[3])
      <3>1. h = b[2] /\ c = b[3]
        BY <1>2, <2>1, PartsApart
      <3> QED
        BY <1>7, <3>1
    <2>2. CASE pidx(0, h, c) # pidx(0, b[2], b[3])
      <3>1. part'[pidx(0, h, c)] = part[pidx(0, h, c)]
        BY <1>2, <1>3, <1>4, <2>2, PartsApart
      <3> QED
        BY <1>1, <1>8, <3>1, SamePart DEF PartRight
    <2> QED
      BY <2>1, <2>2
  <1> QED
    BY <1>4, <1>5, <1>7, <1>8

\* Outputs are not touched before the combine.
LEMMA OutputsKept ==
    ASSUME PassInv, AtBlock, Kept, Frame, out' = out, pass'.stage \in Stored, ~Writing',
           pass'.stage # "end"
    PROVE  OutputsRight'
  <1>1. UNCHANGED <<config, score, epoch, kvPos>>
    BY DEF Kept
  <1>2. ASSUME NEW sh \in DOMAIN out
        PROVE  \E s \in Tokens', h \in QHeads' : sh = <<s, h>> /\ OutRight(s, h)'
    <2>1. PICK s \in Tokens, h \in QHeads : sh = <<s, h>> /\ OutRight(s, h)
      BY DEF PassInv, OutputsRight
    <2>2. OutRight(s, h)'
      BY <1>1, <2>1, SamePart DEF OutRight
    <2> QED
      BY <1>1, <2>1, <2>2, SamePart DEF Frame
  <1> QED
    BY <1>2 DEF OutputsRight

LEMMA PartBlock ==
    ASSUME PassInv, pass.stage = "attend", Split, NEW b \in Blocks, Kept, Leave(b), out' = out,
           WritesPart(b)
    PROVE  PassBounded' /\ TokensRotated' /\ OutputsRight' /\ PartsRight' /\ GridRight'
  <1>1. AtBlock /\ UNCHANGED <<config, score, epoch, kvPos>>
    BY DEF AtBlock, Kept
  <1>2. Frame /\ GridRight'
    BY <1>1, LeaveFrame
  <1>3. LastLeaves(b) \/ OtherLeaves(b)
    BY LeaveCases
  <1>4. /\ DOMAIN part' = 0..(config.nHeads * attnChunks - 1)
        /\ PartRight(b[2], b[3])'
        /\ \A h \in QHeads, c \in 0..(attnChunks - 1) : PartRight(h, c) => PartRight(h, c)'
    BY WrittenPart
  <1>5. DOMAIN part' = 0..(config'.nHeads * attnChunks' - 1) /\ QHeads' = QHeads
        /\ attnChunks' = attnChunks
    BY <1>1, <1>4, SamePart
  <1>6. ASSUME NEW a \in grid.done \cup {b}
        PROVE  PartRight(a[2], a[3])'
    <2>1. CASE a = b
      BY <1>4, <2>1
    <2>2. CASE a \in grid.done
      <3>1. a \in Blocks /\ PartRight(a[2], a[3])
        BY <2>2 DEF PassInv, PartsRight, GridRight
      <3>2. a[2] \in QHeads /\ a[3] \in 0..(attnChunks - 1)
        BY <3>1, BlockShape
      <3> QED
        BY <1>4, <3>1, <3>2
    <2> QED
      BY <1>6, <2>1, <2>2
  <1>7. CASE OtherLeaves(b)
    <2>1. grid'.done = grid.done \cup {b} /\ pass'.stage = "attend" /\ Split'
      BY <1>2, <1>7 DEF OtherLeaves, Fresh, Frame
    <2>2. PartsRight'
      BY <1>5, <1>6, <2>1 DEF PartsRight
    <2>3. OutputsRight'
      BY <1>1, <1>2, <2>1, OutputsKept DEF Writing, Stored
    <2> QED
      BY <1>2, <2>2, <2>3 DEF Frame
  <1>8. CASE LastLeaves(b)
    <2>1. pass'.stage = "combine" /\ Split' /\ grid.done \cup {b} = Blocks
          /\ grid'.done = {}
      BY <1>2, <1>8 DEF LastLeaves, Fresh, Frame, PassInv, CacheInv, PassType
    <2>2. ASSUME NEW h \in QHeads, NEW c \in 0..(attnChunks - 1)
          PROVE  PartRight(h, c)'
      <3>1. PICK a \in Blocks : a[2] = h /\ a[3] = c
        BY BlocksCover
      <3> QED
        BY <1>6, <2>1, <3>1
    <2>3. PartsRight'
      BY <1>5, <2>1, <2>2 DEF PartsRight
    <2>4. OutputsRight'
      <3>1. ASSUME NEW sh \in DOMAIN out
            PROVE  \E s \in Tokens', h \in QHeads' : sh = <<s, h>> /\ OutRight(s, h)'
        <4>1. PICK s \in Tokens, h \in QHeads : sh = <<s, h>> /\ OutRight(s, h)
          BY DEF PassInv, OutputsRight
        <4>2. OutRight(s, h)'
          BY <1>1, <4>1, SamePart DEF OutRight
        <4> QED
          BY <1>2, <1>5, <4>1, <4>2 DEF Frame
      <3> QED
        BY <2>1, <3>1 DEF OutputsRight, Stored
    <2> QED
      BY <1>2, <2>3, <2>4 DEF Frame
  <1> QED
    BY <1>3, <1>7, <1>8

\* A warp that merges while others have still to leave the block.
LEMMA PartWarp ==
    ASSUME PassInv, pass.stage = "attend", Split, NEW b \in Blocks, grid.block = b, b # NoBlock,
           NEW w \in Warps, grid.warp[w] = "barrier", grid' = [grid EXCEPT !.warp[w] = "end"],
           pass' = pass, Kept, out' = out, WritesPart(b)
    PROVE  PassBounded' /\ TokensRotated' /\ OutputsRight' /\ PartsRight' /\ GridRight'
  <1>1. AtBlock /\ UNCHANGED <<config, score, epoch, kvPos>>
    BY DEF AtBlock, Kept
  <1>2. Frame /\ Blocks' = Blocks /\ Warps' = Warps /\ Split'
    BY <1>1, FrameKept DEF Frame
  <1>3. /\ DOMAIN part' = 0..(config.nHeads * attnChunks - 1)
        /\ \A h \in QHeads, c \in 0..(attnChunks - 1) : PartRight(h, c) => PartRight(h, c)'
    BY WrittenPart
  <1>4. /\ grid'.done = grid.done /\ grid'.block = grid.block /\ grid'.shared = grid.shared
        /\ grid'.warp = [grid.warp EXCEPT ![w] = "end"]
        /\ grid' = [done |-> grid'.done, block |-> grid'.block, warp |-> grid'.warp,
                    shared |-> grid'.shared]
    BY DEF PassInv, GridRight
  <1>5. PartsRight'
    <2>1. ASSUME NEW a \in grid.done
          PROVE  PartRight(a[2], a[3])'
      <3>1. a \in Blocks /\ PartRight(a[2], a[3])
        BY DEF PassInv, PartsRight, GridRight
      <3>2. a[2] \in QHeads /\ a[3] \in 0..(attnChunks - 1)
        BY <3>1, BlockShape
      <3> QED
        BY <1>3, <3>1, <3>2
    <2>2. DOMAIN part' = 0..(config'.nHeads * attnChunks' - 1)
      BY <1>1, <1>3, SamePart
    <2> QED
      BY <1>4, <2>1, <2>2 DEF PartsRight
  <1>6. OutputsRight'
    BY <1>1, <1>2, OutputsKept DEF Writing, Stored
  <1>7. GridRight'
    <2>1. Shared(b)
      BY DEF PassInv, GridRight
    <2>2. \A v \in Warps : grid'.warp[v] # "run" => grid.warp[v] # "run"
      BY <1>4, <2>1 DEF Shared
    <2>3. \A v : WarpKeys(b, v)' = WarpKeys(b, v)
      BY <1>1, SamePart DEF WarpKeys
    <2>4. \A v \in Warps : grid'.warp[v] # "run" =>
             IsPart(grid.shared[v], WarpKeys(b, v), kvHead(b[2]))'
      <3> SUFFICES ASSUME NEW v \in Warps, grid'.warp[v] # "run"
                   PROVE  IsPart(grid.shared[v], WarpKeys(b, v), kvHead(b[2]))'
        OBVIOUS
      <3>1. IsPart(grid.shared[v], WarpKeys(b, v), kvHead(b[2]))
        BY <2>1, <2>2 DEF Shared
      <3> QED
        BY <1>1, <1>4, <2>3, <3>1, SamePart
    <2>5. DOMAIN grid'.warp = Warps /\ DOMAIN grid'.shared = Warps
      BY <1>4, <2>1 DEF Shared
    <2>6. b \in Blocks' \ grid'.done
      BY <1>2, <1>4, <2>1 DEF Shared
    <2>7. Shared(b)'
      BY <1>2, <2>4, <2>5, <2>6 DEF Shared
    <2>8. grid'.done \in SUBSET Blocks' /\ grid'.block = b /\ pass'.stage = "attend"
      BY <1>2, <1>4 DEF PassInv, GridRight
    <2> QED
      BY <1>4, <2>7, <2>8 DEF GridRight
  <1> QED
    BY <1>2, <1>5, <1>6, <1>7 DEF Frame

\* A warp that shares the keys it took and stops at the barrier.
LEMMA ShareBlock ==
    ASSUME PassInv, AtBlock, pass.stage = "combine" \/ Split, NEW b, NEW w \in Warps, NEW r,
           ShareWhere(b, w, r), IsPart(r, WarpKeys(b, w), kvHead(b[2]))
    PROVE  PassBounded' /\ TokensRotated' /\ OutputsRight' /\ PartsRight' /\ GridRight'
  <1>1. /\ UNCHANGED <<config, score, epoch, kvPos>> /\ Kept
        /\ UNCHANGED <<pass, part, out>>
        /\ b \in Blocks \ grid.done /\ grid.block \in {NoBlock, b}
    BY DEF ShareWhere, Kept
  <1>2. Frame /\ Blocks' = Blocks /\ Warps' = Warps /\ Writing' = Writing /\ Split' = Split
    BY <1>1, FrameKept DEF Frame
  <1>3. PICK G : G = Enter(b)
    OBVIOUS
  <1>4. /\ G = [done |-> grid.done, block |-> b, warp |-> G.warp, shared |-> G.shared]
        /\ DOMAIN G.warp = Warps /\ DOMAIN G.shared = Warps
        /\ \A v \in Warps : G.warp[v] # "run" => IsPart(G.shared[v], WarpKeys(b, v), kvHead(b[2]))
    <2>1. CASE grid.block = NoBlock
      <3>1. G = [done |-> grid.done, block |-> b, warp |-> [v \in Warps |-> "run"],
                 shared |-> [v \in Warps |-> Unset]]
        BY <1>3, <2>1 DEF Enter, PassInv, GridRight
      <3> QED
        BY <3>1
    <2>2. CASE grid.block # NoBlock
      <3>1. grid.block = b /\ G = grid
        BY <1>1, <1>3, <2>2 DEF Enter
      <3>2. Shared(b)
        BY <2>2, <3>1 DEF PassInv, GridRight
      <3>3. grid = [done |-> grid.done, block |-> grid.block, warp |-> grid.warp,
                    shared |-> grid.shared]
        BY DEF PassInv, GridRight
      <3> QED
        BY <3>1, <3>2, <3>3 DEF Shared
    <2> QED
      BY <2>1, <2>2
  <1>5. grid' = [G EXCEPT !.warp[w] = "barrier", !.shared[w] = r]
    BY <1>3 DEF ShareWhere
  <1>11. PICK W, S, D : W = G.warp /\ S = G.shared /\ D = grid.done
    OBVIOUS
  <1>12. G = [done |-> D, block |-> b, warp |-> W, shared |-> S]
    BY <1>4, <1>11
  <1>13. grid' = [done |-> D, block |-> b, warp |-> [W EXCEPT ![w] = "barrier"],
                  shared |-> [S EXCEPT ![w] = r]]
    BY <1>5, <1>12
  <1>6. /\ grid'.done = grid.done /\ grid'.block = b
        /\ grid'.warp = [G.warp EXCEPT ![w] = "barrier"]
        /\ grid'.shared = [G.shared EXCEPT ![w] = r]
        /\ grid' = [done |-> grid'.done, block |-> grid'.block, warp |-> grid'.warp,
                    shared |-> grid'.shared]
    BY <1>11, <1>13
  <1>7. \A v \in Warps : grid'.warp[v] # "run" =>
           IsPart(grid'.shared[v], WarpKeys(b, v), kvHead(b[2]))
    <2> SUFFICES ASSUME NEW v \in Warps, grid'.warp[v] # "run"
                 PROVE  IsPart(grid'.shared[v], WarpKeys(b, v), kvHead(b[2]))
      OBVIOUS
    <2>1. CASE v = w
      BY <1>4, <1>6, <2>1
    <2>2. CASE v # w
      BY <1>4, <1>6, <2>2
    <2> QED
      BY <2>1, <2>2
  <1>8. GridRight'
    <2>1. \A v : WarpKeys(b, v)' = WarpKeys(b, v)
      BY <1>1, SamePart DEF WarpKeys
    <2>2. \A v \in Warps : grid'.warp[v] # "run" =>
             IsPart(grid.shared[v], WarpKeys(b, v), kvHead(b[2]))'
      BY <1>1, <1>7, <2>1, SamePart
    <2>3. DOMAIN grid'.warp = Warps /\ DOMAIN grid'.shared = Warps
      BY <1>4, <1>6
    <2>4. b \in Blocks' \ grid'.done /\ (pass'.stage = "combine" \/ Split')
      BY <1>1, <1>2, <1>6
    <2>5. Shared(b)'
      BY <1>2, <2>2, <2>3, <2>4 DEF Shared
    <2>6. grid'.done \in SUBSET Blocks' /\ pass'.stage \in {"attend", "combine"}
      BY <1>1, <1>2, <1>6 DEF PassInv, GridRight, AtBlock
    <2> QED
      BY <1>6, <2>5, <2>6 DEF GridRight
  <1>9. OutputsRight'
    <2>1. ASSUME NEW sh \in DOMAIN out
          PROVE  \E s \in Tokens', h \in QHeads' : sh = <<s, h>> /\ OutRight(s, h)'
      <3>1. PICK s \in Tokens, h \in QHeads : sh = <<s, h>> /\ OutRight(s, h)
        BY DEF PassInv, OutputsRight
      <3>2. OutRight(s, h)'
        BY <1>1, <3>1, SamePart DEF OutRight
      <3> QED
        BY <1>1, <1>2, <3>1, <3>2, SamePart DEF Frame
    <2>2. \A a : HeadsOf(a)' = HeadsOf(a)
      BY <1>1, SamePart
    <2>3. Writing' => \A a \in grid'.done : \A h \in HeadsOf(a)' : <<a[1], h>> \in DOMAIN out'
      BY <1>1, <1>2, <1>6, <2>2 DEF PassInv, OutputsRight
    <2>4. pass'.stage \in Stored /\ pass'.stage # "end"
      BY <1>1 DEF AtBlock, Stored
    <2> QED
      BY <1>1, <2>1, <2>3, <2>4 DEF OutputsRight
  <1>10. PartsRight'
    <2>1. \A h, c : PartRight(h, c) => PartRight(h, c)'
      BY <1>1, SamePart DEF PartRight
    <2>2. /\ DOMAIN part' = 0..(config'.nHeads * attnChunks' - 1)
          /\ QHeads' = QHeads /\ attnChunks' = attnChunks
      BY <1>1, SamePart DEF PassInv, PartsRight
    <2>3. pass'.stage = "attend" /\ Split' => \A a \in grid'.done : PartRight(a[2], a[3])'
      BY <1>1, <1>2, <1>6, <2>1 DEF PassInv, PartsRight
    <2>4. pass'.stage = "combine" => \A h \in QHeads, c \in 0..(attnChunks - 1) : PartRight(h, c)'
      BY <1>1, <2>1 DEF PassInv, PartsRight
    <2> QED
      BY <2>2, <2>3, <2>4 DEF PartsRight
  <1> QED
    BY <1>2, <1>8, <1>9, <1>10 DEF Frame

\* What a block writes, when each of its results is right.
LEMMA WroteOut ==
    ASSUME PassInv, Writing, NEW b \in Blocks, NEW f,
           out' = [sh \in DOMAIN out \cup ({b[1]} \X HeadsOf(b)) |->
                     IF sh \in {b[1]} \X HeadsOf(b) THEN [rot |-> q[b[1]], p |-> f[sh[2]]]
                                                    ELSE out[sh]],
           \A h \in HeadsOf(b) : IsPart(f[h], 0..(kvPos + b[1]), kvHead(h))
    PROVE  OutputsOf(b)
  <1>1. q[b[1]] = kvPos + b[1]
    <2>1. b[1] \in Tokens
      BY BlockShape
    <2>2. q = [s \in Tokens |-> kvPos + s]
      BY DEF PassInv, TokensRotated, Writing
    <2> QED
      BY <2>1, <2>2
  <1>2. ASSUME NEW h \in HeadsOf(b)
        PROVE  out'[<<b[1], h>>] = [rot |-> kvPos + b[1], p |-> f[h]]
    <2>1. <<b[1], h>> \in {b[1]} \X HeadsOf(b) /\ <<b[1], h>>[2] = h
      BY <1>2
    <2> QED
      BY <1>1, <2>1
  <1> QED
    BY <1>2 DEF OutputsOf

\* A whole context scanned by one warp, or by the tiles of the CPU.
LEMMA WholeScans ==
    ASSUME PassInv, Writing, NEW b \in Blocks, NEW h \in HeadsOf(b)
    PROVE  /\ IsPart(Scan(0, kvPos + b[1], kvHead(h)), 0..(kvPos + b[1]), kvHead(h))
           /\ IsPart(FusedScan(kvPos + b[1], kvHead(h)), 0..(kvPos + b[1]), kvHead(h))
           /\ csEnd(b[1]) = kvPos + b[1]
  <1>1. b[1] \in Tokens /\ h \in QHeads /\ Scored
    BY BlockShape, ChosenFacts DEF PassInv, PassBounded
  <1>2. PICK last \in Nat : last = kvPos + b[1]
    BY <1>1, PassFacts
  <1>3. PICK g \in KVHeads : g = kvHead(h)
    BY <1>1, HeadServed DEF PassInv, PassBounded
  <1>4. \A i \in 0..last : IsRow(i, g)
    <2>1. RowsHeld(kvPos + b[1])
      BY <1>1, PassFacts DEF Writing, Stored
    <2> QED
      BY <1>2, <2>1 DEF RowsHeld
  <1>5. last \in Int /\ last >= 0 - 1
    OBVIOUS
  <1>6. IsPart(Scan(0, last, g), 0..last, g)
    BY <1>1, <1>4, <1>5, ScanPart
  <1>7. IsPart(FusedScan(last, g), 0..last, g)
    BY <1>1, <1>4, FusedScanPart
  <1>8. csEnd(b[1]) = kvPos + b[1]
    BY PassFacts DEF csEnd
  <1> QED
    BY <1>2, <1>3, <1>6, <1>7, <1>8

\* A decode step has one token.
LEMMA DecodeReads ==
    ASSUME PassInv, AtBlock, Split
    PROVE  Tokens = {0} /\ kvPos \in Rows /\ RowsHeld(kvPos) /\ pos = kvPos
  <1>1. pass.T = 1
    BY DEF Split, splitAttn
  <1>2. Tokens = {0}
    BY <1>1 DEF Tokens
  <1>3. kvPos + 0 = kvPos
    BY PassFacts
  <1>4. RowsHeld(kvPos + 0) /\ kvPos + 0 \in Rows
    BY <1>2, PassFacts DEF AtBlock, Stored
  <1> QED
    BY <1>2, <1>3, <1>4, PassFacts

LEMMA CombineReads ==
    ASSUME PassInv, pass.stage = "combine", NEW b \in Blocks
    PROVE  b[1] = 0 /\ b[2] \in QHeads /\ Chosen /\ kvPos \in Rows
  <1>1. Split /\ Chosen /\ AtBlock /\ Writing /\ ~OnCPU
    <2>1. Split /\ Chosen
      BY DEF PassInv, PassBounded
    <2>2. AtBlock /\ Writing
      BY DEF AtBlock, Writing
    <2>3. ~OnCPU
      BY <2>1 DEF Split, OnCPU
    <2> QED
      BY <2>1, <2>2, <2>3
  <1>2. b[1] \in Tokens /\ b[2] \in QHeads
    BY <1>1, BlockShape
  <1> QED
    BY <1>1, <1>2, DecodeReads

PassParts == PassBounded /\ TokensRotated /\ OutputsRight /\ PartsRight /\ GridRight

LEMMA OneWarpKeeps ==
    ASSUME PassInv, NEW b, OneWarpBlock(b)
    PROVE  PassParts'
  <1>1. CASE kWarpAttention(b)
    <2>1. /\ Writing /\ b \in Blocks /\ Kept /\ Leave(b) /\ part' = part /\ ~OnCPU
          /\ WriteOut(b[1], {b[2]}, LAMBDA h : Scan(0, csEnd(b[1]), kvHead(h)))
      BY <1>1 DEF kWarpAttention, OneWarp, Running, Writing, Split, OnCPU
    <2> DEFINE f == [h \in HeadsOf(b) |-> Scan(0, csEnd(b[1]), kvHead(h))]
    <2>2. \A h \in HeadsOf(b) : IsPart(f[h], 0..(kvPos + b[1]), kvHead(h))
      BY <2>1, WholeScans
    <2>3. out' = [sh \in DOMAIN out \cup ({b[1]} \X HeadsOf(b)) |->
                    IF sh \in {b[1]} \X HeadsOf(b) THEN [rot |-> q[b[1]], p |-> f[sh[2]]]
                                                   ELSE out[sh]]
      BY <2>1 DEF WriteOut, HeadsOf
    <2> HIDE DEF f
    <2>4. OutputsOf(b)
      BY <2>1, <2>2, <2>3, WroteOut
    <2> QED
      BY <2>1, <2>4, OutputBlock DEF PassParts
  <1>2. CASE kQ35WarpAttention(b)
    <2>1. /\ Writing /\ b \in Blocks /\ Kept /\ Leave(b) /\ part' = part /\ ~OnCPU
          /\ WriteOut(b[1], {b[2]}, LAMBDA h : Scan(0, csEnd(b[1]), kvHead(h)))
      BY <1>2 DEF kQ35WarpAttention, OneWarp, Running, Writing, Split, OnCPU
    <2> DEFINE f == [h \in HeadsOf(b) |-> Scan(0, csEnd(b[1]), kvHead(h))]
    <2>2. \A h \in HeadsOf(b) : IsPart(f[h], 0..(kvPos + b[1]), kvHead(h))
      BY <2>1, WholeScans
    <2>3. out' = [sh \in DOMAIN out \cup ({b[1]} \X HeadsOf(b)) |->
                    IF sh \in {b[1]} \X HeadsOf(b) THEN [rot |-> q[b[1]], p |-> f[sh[2]]]
                                                   ELSE out[sh]]
      BY <2>1 DEF WriteOut, HeadsOf
    <2> HIDE DEF f
    <2>4. OutputsOf(b)
      BY <2>1, <2>2, <2>3, WroteOut
    <2> QED
      BY <2>1, <2>4, OutputBlock DEF PassParts
  <1>3. CASE attentionFused(b)
    <2>1. /\ Writing /\ b \in Blocks /\ Kept /\ Leave(b) /\ part' = part /\ OnCPU
          /\ WriteOut(b[1], GroupHeads(b[2]), LAMBDA h : FusedScan(kvPos + b[1], b[2]))
      BY <1>3 DEF attentionFused, OneWarp, Running, Writing, Split, OnCPU
    <2> DEFINE f == [h \in HeadsOf(b) |-> FusedScan(kvPos + b[1], b[2])]
    <2>2. \A h \in HeadsOf(b) : IsPart(f[h], 0..(kvPos + b[1]), kvHead(h))
      BY <2>1, WholeScans, BlockShape
    <2>3. out' = [sh \in DOMAIN out \cup ({b[1]} \X HeadsOf(b)) |->
                    IF sh \in {b[1]} \X HeadsOf(b) THEN [rot |-> q[b[1]], p |-> f[sh[2]]]
                                                   ELSE out[sh]]
      BY <2>1 DEF WriteOut, HeadsOf
    <2> HIDE DEF f
    <2>4. OutputsOf(b)
      BY <2>1, <2>2, <2>3, WroteOut
    <2> QED
      BY <2>1, <2>4, OutputBlock DEF PassParts
  <1>4. CASE attentionGeneric(b)
    <2>1. /\ Writing /\ b \in Blocks /\ Kept /\ Leave(b) /\ part' = part /\ OnCPU
          /\ WriteOut(b[1], GroupHeads(b[2]), LAMBDA h : Scan(0, kvPos + b[1], b[2]))
      BY <1>4 DEF attentionGeneric, OneWarp, Running, Writing, Split, OnCPU
    <2> DEFINE f == [h \in HeadsOf(b) |-> Scan(0, kvPos + b[1], b[2])]
    <2>2. \A h \in HeadsOf(b) : IsPart(f[h], 0..(kvPos + b[1]), kvHead(h))
      BY <2>1, WholeScans, BlockShape
    <2>3. out' = [sh \in DOMAIN out \cup ({b[1]} \X HeadsOf(b)) |->
                    IF sh \in {b[1]} \X HeadsOf(b) THEN [rot |-> q[b[1]], p |-> f[sh[2]]]
                                                   ELSE out[sh]]
      BY <2>1 DEF WriteOut, HeadsOf
    <2> HIDE DEF f
    <2>4. OutputsOf(b)
      BY <2>1, <2>2, <2>3, WroteOut
    <2> QED
      BY <2>1, <2>4, OutputBlock DEF PassParts
  <1>5. CASE kWarpAttentionSplit(b)
    <2>1. /\ pass.stage = "attend" /\ Split /\ b \in Blocks /\ Kept /\ Leave(b) /\ out' = out
          /\ part' = [part EXCEPT ![pidx(b[1], b[2], b[3])] = SpanScan(b, 0)] /\ wsub = 1
      BY <1>5 DEF kWarpAttentionSplit, OneWarp, Running, Split
    <2>2. b[1] = 0 /\ b[2] \in QHeads /\ b[3] \in Nat /\ Chosen
      BY <2>1, BlockShape, ChosenFacts DEF PassInv, PassBounded
    <2>3. kvPos \in Rows /\ RowsHeld(kvPos) /\ pos = kvPos
      BY <2>1, DecodeReads DEF AtBlock
    <2>4. IsPart(SpanScan(b, 0), SpanKeys(b[3], 0), kvHead(b[2]))
      BY <2>1, <2>2, <2>3, SpanScanPart
    <2>5. SpanKeys(b[3], 0) = ChunkKeys(b[3])
      <3>1. 0..(wsub - 1) = {0}
        BY <2>1
      <3>2. UNION {SpanKeys(b[3], w) : w \in 0..(wsub - 1)} = ChunkKeys(b[3])
        BY <2>2, <2>3, SpansCover
      <3>3. \A w : w \in 0..(wsub - 1) <=> w = 0
        BY <3>1
      <3>4. UNION {SpanKeys(b[3], w) : w \in 0..(wsub - 1)} = SpanKeys(b[3], 0)
        BY <3>3
      <3> QED
        BY <3>2, <3>4
    <2>6. WritesPart(b)
      BY <2>1, <2>2, <2>4, <2>5 DEF WritesPart
    <2> QED
      BY <2>1, <2>6, PartBlock DEF PassParts
  <1>6. CASE kAttnCombinePartial(b)
    <2>7. /\ pass.stage = "combine" /\ b \in Blocks /\ Kept /\ Leave(b) /\ part' = part
          /\ config.engine = "cuda"
          /\ WriteOut(b[1], {b[2]}, LAMBDA h : FoldOf(b, 0..(attnChunks - 1)))
      BY <1>6 DEF kAttnCombinePartial, OneWarp, Running
    <2>1. /\ pass.stage = "combine" /\ Writing /\ b \in Blocks /\ Kept /\ Leave(b) /\ part' = part
          /\ ~OnCPU
          /\ WriteOut(b[1], {b[2]}, LAMBDA h : FoldOf(b, 0..(attnChunks - 1)))
      BY <2>7 DEF Writing, OnCPU
    <2> DEFINE f == [h \in HeadsOf(b) |-> FoldOf(b, 0..(attnChunks - 1))]
    <2>2. b[1] = 0 /\ b[2] \in QHeads /\ Chosen /\ kvPos \in Rows
      BY <2>1, CombineReads
    <2>3. IsPart(FoldOf(b, 0..(attnChunks - 1)), 0..kvPos, kvHead(b[2]))
      <3>1. \A c \in 0..(attnChunks - 1) :
               IsPart(part[pidx(b[1], b[2], c)], ChunkKeys(c), kvHead(b[2]))
        BY <2>1, <2>2 DEF PassInv, PartsRight, PartRight
      <3>2. IsPart(FoldOf(b, 0..(attnChunks - 1)), UNION {ChunkKeys(c) : c \in 0..(attnChunks - 1)},
                   kvHead(b[2]))
        BY <2>2, <3>1, FoldOfPart
      <3> QED
        BY <2>2, <3>2, ChunksCover
    <2>4. \A h \in HeadsOf(b) : IsPart(f[h], 0..(kvPos + b[1]), kvHead(h))
      <3>1. kvPos + b[1] = kvPos
        BY <2>2 DEF Rows
      <3> QED
        BY <2>1, <2>3, <3>1 DEF HeadsOf
    <2>5. out' = [sh \in DOMAIN out \cup ({b[1]} \X HeadsOf(b)) |->
                    IF sh \in {b[1]} \X HeadsOf(b) THEN [rot |-> q[b[1]], p |-> f[sh[2]]]
                                                   ELSE out[sh]]
      BY <2>1 DEF WriteOut, HeadsOf
    <2> HIDE DEF f
    <2>6. OutputsOf(b)
      BY <2>1, <2>4, <2>5, WroteOut
    <2> QED
      BY <2>1, <2>6, OutputBlock DEF PassParts
  <1> QED
    BY <1>1, <1>2, <1>3, <1>4, <1>5, <1>6 DEF OneWarpBlock

LEMMA WarpCounts ==
    ASSUME PassInv
    PROVE  /\ pass.stage = "attend" => Warps = 0..(wsub - 1)
           /\ pass.stage = "combine" => Warps = 0..(nw - 1)
  BY DEF Warps

LEMMA ScanSpanKeeps ==
    ASSUME PassInv, NEW b, NEW w \in Warps, ScanSpan(b, w)
    PROVE  PassParts'
  <1>1. /\ pass.stage = "attend" /\ Split /\ AtBlock
        /\ ShareWhere(b, w, SpanScan(b, w)) /\ b \in Blocks
    BY DEF ScanSpan, Running, Split, AtBlock, ShareWhere
  <1>2. b[1] = 0 /\ b[2] \in QHeads /\ b[3] \in Nat /\ Chosen
    BY <1>1, BlockShape, ChosenFacts DEF PassInv, PassBounded
  <1>3. kvPos \in Rows /\ RowsHeld(kvPos) /\ pos = kvPos
    BY <1>1, DecodeReads
  <1>4. w \in 0..(wsub - 1)
    BY <1>1, WarpCounts
  <1>5. IsPart(SpanScan(b, w), SpanKeys(b[3], w), kvHead(b[2]))
    BY <1>2, <1>3, <1>4, SpanScanPart
  <1>6. WarpKeys(b, w) = SpanKeys(b[3], w)
    BY <1>1 DEF WarpKeys
  <1> QED
    BY <1>1, <1>5, <1>6, ShareBlock DEF PassParts

LEMMA FoldChunksKeeps ==
    ASSUME PassInv, NEW b, NEW w \in Warps, FoldChunks(b, w)
    PROVE  PassParts'
  <1>1. /\ pass.stage = "combine" /\ AtBlock /\ b \in Blocks
        /\ ShareWhere(b, w, FoldOf(b, GroupOf(w)))
    BY DEF FoldChunks, Running, AtBlock, ShareWhere, GroupOf
  <1>2. b[1] = 0 /\ b[2] \in QHeads /\ Chosen /\ kvPos \in Rows
    BY <1>1, CombineReads
  <1>3. GroupOf(w) \in SUBSET (0..(attnChunks - 1))
    BY DEF GroupOf
  <1>4. \A c \in GroupOf(w) : IsPart(part[pidx(b[1], b[2], c)], ChunkKeys(c), kvHead(b[2]))
    BY <1>1, <1>2, <1>3 DEF PassInv, PartsRight, PartRight
  <1>5. IsPart(FoldOf(b, GroupOf(w)), GroupKeys(w), kvHead(b[2]))
    <2>1. IsPart(FoldOf(b, GroupOf(w)), UNION {ChunkKeys(c) : c \in GroupOf(w)}, kvHead(b[2]))
      BY <1>2, <1>3, <1>4, FoldOfPart
    <2> QED
      BY <2>1 DEF GroupKeys
  <1>6. WarpKeys(b, w) = GroupKeys(w)
    BY <1>1 DEF WarpKeys
  <1> QED
    BY <1>1, <1>5, <1>6, ShareBlock DEF PassParts

LEMMA MergeSpansKeeps ==
    ASSUME PassInv, NEW b, NEW w \in Warps, MergeSpans(b, w)
    PROVE  PassParts'
  <1>1. /\ pass.stage = "attend" /\ AtBlock /\ Kept /\ out' = out
        /\ grid.block = b /\ b # NoBlock /\ grid.warp[w] = "barrier"
        /\ \A v \in Warps : grid.warp[v] # "run"
        /\ part' = [part EXCEPT ![pidx(b[1], b[2], b[3])] = Merged(grid.shared)]
    BY DEF MergeSpans, Running, AtBarrier, Arrived, AtBlock
  <1>2. Shared(b)
    BY <1>1 DEF PassInv, GridRight
  <1>3. Split /\ b \in Blocks
    BY <1>1, <1>2 DEF Shared
  <1>4. b[1] = 0 /\ b[2] \in QHeads /\ b[3] \in Nat /\ Chosen
    BY <1>1, <1>3, BlockShape, ChosenFacts DEF PassInv, PassBounded
  <1>5. kvPos \in Rows
    BY <1>1, <1>3, DecodeReads
  <1>6. DOMAIN grid.shared = 0..(wsub - 1)
    BY <1>1, <1>2, WarpCounts DEF Shared
  <1>7. \A v \in 0..(wsub - 1) : IsPart(grid.shared[v], SpanKeys(b[3], v), kvHead(b[2]))
    BY <1>1, <1>2, WarpCounts DEF Shared, WarpKeys
  <1>8. IsPart(Merged(grid.shared), ChunkKeys(b[3]), kvHead(b[2]))
    BY <1>4, <1>5, <1>6, <1>7, MergedSpans
  <1>9. WritesPart(b)
    BY <1>1, <1>4, <1>8 DEF WritesPart
  <1>10. CASE Leave(b)
    BY <1>1, <1>3, <1>9, <1>10, PartBlock DEF PassParts
  <1>11. CASE grid' = [grid EXCEPT !.warp[w] = "end"] /\ pass' = pass
    BY <1>1, <1>3, <1>9, <1>11, PartWarp DEF PassParts
  <1> QED
    BY <1>10, <1>11 DEF MergeSpans

LEMMA CombineW4Keeps ==
    ASSUME PassInv, NEW b, kAttnCombinePartialW4(b)
    PROVE  PassParts'
  <1>1. /\ pass.stage = "combine" /\ Kept /\ part' = part /\ Leave(b)
        /\ config.engine = "cuda"
        /\ grid.block = b /\ b # NoBlock
        /\ \A v \in Warps : grid.warp[v] # "run"
        /\ WriteOut(b[1], {b[2]}, LAMBDA h : Merged(grid.shared))
    BY DEF kAttnCombinePartialW4, Running, AtBarrier, Arrived
  <1>2. Writing /\ ~OnCPU
    BY <1>1 DEF Writing, OnCPU
  <1>3. Shared(b)
    BY <1>1 DEF PassInv, GridRight
  <1>4. b \in Blocks
    BY <1>3 DEF Shared
  <1>5. b[1] = 0 /\ b[2] \in QHeads /\ Chosen /\ kvPos \in Rows
    BY <1>1, <1>4, CombineReads
  <1>6. DOMAIN grid.shared = 0..(nw - 1)
    BY <1>1, <1>3, WarpCounts DEF Shared
  <1>7. \A v \in 0..(nw - 1) : IsPart(grid.shared[v], GroupKeys(v), kvHead(b[2]))
    BY <1>1, <1>3, WarpCounts DEF Shared, WarpKeys
  <1>8. IsPart(Merged(grid.shared), 0..kvPos, kvHead(b[2]))
    BY <1>5, <1>6, <1>7, MergedGroups
  <1> DEFINE f == [h \in HeadsOf(b) |-> Merged(grid.shared)]
  <1>9. \A h \in HeadsOf(b) : IsPart(f[h], 0..(kvPos + b[1]), kvHead(h))
    <2>1. kvPos + b[1] = kvPos
      BY <1>5 DEF Rows
    <2> QED
      BY <1>2, <1>8, <2>1 DEF HeadsOf
  <1>10. out' = [sh \in DOMAIN out \cup ({b[1]} \X HeadsOf(b)) |->
                   IF sh \in {b[1]} \X HeadsOf(b) THEN [rot |-> q[b[1]], p |-> f[sh[2]]]
                                                  ELSE out[sh]]
    BY <1>1, <1>2 DEF WriteOut, HeadsOf
  <1> HIDE DEF f
  <1>11. OutputsOf(b)
    BY <1>2, <1>4, <1>9, <1>10, WroteOut
  <1> QED
    BY <1>1, <1>2, <1>4, <1>11, OutputBlock DEF PassParts

LEMMA BlockStepKeeps ==
    ASSUME PassInv, NEW b, BlockStep(b)
    PROVE  PassParts'
  BY OneWarpKeeps, ScanSpanKeeps, MergeSpansKeeps, FoldChunksKeeps, CombineW4Keeps DEF BlockStep

-----------------------------------------------------------------------------
(* The other steps: no kernel of attention is running.                     *)

\* Before a kernel of attention starts and after it has ended.
Quiet == DOMAIN out = {} /\ grid = Fresh

LEMMA QuietKeeps ==
    ASSUME PassInv, pass.stage \in {"idle", "rotate", "store"}, UNCHANGED <<config, score, out, part, grid>>,
           pass'.stage \in {"idle", "rotate", "store", "attend"}
    PROVE  OutputsRight' /\ PartsRight' /\ GridRight'
  <1>1. Quiet
    BY DEF PassInv, OutputsRight, GridRight, Stored, Quiet
  <1>2. OutputsRight'
    BY <1>1 DEF OutputsRight, Quiet, Fresh
  <1>3. PartsRight'
    BY <1>1 DEF PassInv, PartsRight, Quiet, Fresh, attnChunks
  <1>4. GridRight'
    BY <1>1 DEF GridRight, Quiet, Fresh, NoBlock
  <1> QED
    BY <1>2, <1>3, <1>4

LEMMA ForwardKeeps ==
    ASSUME PassInv, NEW T \in 1..MaxBatch, NEW captured \in BOOLEAN, Forward(T, captured)
    PROVE  PassParts'
  <1>1. /\ pass = Idle /\ pass' = [T |-> T, captured |-> captured, stage |-> "rotate"]
        /\ graphPos' = (IF captured THEN kvPos ELSE graphPos) /\ kvPos + T <= MaxSeqLen
        /\ UNCHANGED <<config, score, epoch, kvPos, q, out, part, grid>>
    BY DEF Forward
  <1>2. pass.stage = "idle" /\ pass'.stage = "rotate" /\ pass'.T = T
    BY <1>1 DEF Idle
  <1>3. OutputsRight' /\ PartsRight' /\ GridRight'
    BY <1>1, <1>2, QuietKeeps
  <1>4. graphPos' \in Rows
    <2>1. kvPos \in Rows
      BY <1>1, PassFacts, SizesAssumption DEF Rows
    <2> QED
      BY <1>1, <2>1 DEF PassInv, PassBounded
  <1>5. PassBounded'
    BY <1>1, <1>2, <1>4, SizesAssumption DEF PassInv, PassBounded, Chosen, Rows
  <1>6. TokensRotated'
    BY <1>1, <1>2 DEF PassInv, TokensRotated
  <1> QED
    BY <1>3, <1>5, <1>6 DEF PassParts

LEMMA ReturnKeeps ==
    ASSUME PassInv, Return
    PROVE  PassParts'
  <1>1. /\ pass.stage = "end" /\ pass' = Idle /\ q' = <<>> /\ out' = <<>>
        /\ UNCHANGED <<config, score, epoch, graphPos, part, grid>>
    BY DEF Return
  <1>2. pass'.stage = "idle" /\ pass'.T = 0 /\ DOMAIN out' = {}
    BY <1>1 DEF Idle
  <1>3. grid = Fresh
    BY <1>1 DEF PassInv, GridRight
  <1>4. OutputsRight'
    BY <1>1, <1>2, <1>3 DEF OutputsRight, Writing, Stored
  <1>5. PartsRight'
    BY <1>1, <1>2 DEF PassInv, PartsRight, attnChunks
  <1>6. GridRight'
    BY <1>1, <1>3 DEF GridRight, Fresh, NoBlock
  <1>7. PassBounded'
    BY <1>1, <1>2, SizesAssumption DEF PassInv, PassBounded, Chosen
  <1>8. TokensRotated'
    BY <1>1, <1>2 DEF TokensRotated
  <1> QED
    BY <1>4, <1>5, <1>6, <1>7, <1>8 DEF PassParts

LEMMA ClearKeeps ==
    ASSUME PassInv, clearKVCache
    PROVE  PassParts'
  <1>1. /\ pass = Idle /\ epoch < MaxSessions /\ epoch' = epoch + 1
        /\ UNCHANGED <<config, score, graphPos, pass, q, out, part, grid>>
    BY DEF clearKVCache
  <1>2. pass.stage = "idle" /\ pass'.stage = "idle"
    BY <1>1 DEF Idle
  <1>3. OutputsRight' /\ PartsRight' /\ GridRight'
    BY <1>1, <1>2, QuietKeeps
  <1>4. epoch' \in 1..MaxSessions
    BY <1>1, SizesAssumption DEF PassInv, PassBounded
  <1>5. PassBounded'
    BY <1>1, <1>2, <1>4 DEF PassInv, PassBounded, Chosen, Rows
  <1>6. TokensRotated'
    BY <1>1, <1>2 DEF PassInv, TokensRotated
  <1> QED
    BY <1>3, <1>5, <1>6 DEF PassParts

LEMMA RotateKeeps ==
    ASSUME PassInv, RotateQ
    PROVE  PassParts'
  <1>1. /\ pass.stage = "rotate" /\ pass' = [pass EXCEPT !.stage = "store"]
        /\ q' = [s \in Tokens |-> pos + s]
        /\ UNCHANGED <<config, score, epoch, kvPos, graphPos, out, part, grid>>
    BY DEF RotateQ, kRoPEQ, kQ35MRoPE, applyRoPE, applyMRoPE, Rotate, Running, Then
  <1>2. pass'.stage = "store" /\ pass'.T = pass.T
    BY <1>1 DEF PassInv, CacheInv, PassType
  <1>3. OutputsRight' /\ PartsRight' /\ GridRight'
    BY <1>1, <1>2, QuietKeeps
  <1>4. PassBounded'
    BY <1>1, <1>2 DEF PassInv, PassBounded, Chosen, Rows
  <1>5. TokensRotated'
    BY <1>1, <1>2, PassFacts DEF TokensRotated, Tokens
  <1> QED
    BY <1>3, <1>4, <1>5 DEF PassParts

LEMMA StoreRowsKeeps ==
    ASSUME PassInv, Store
    PROVE  PassParts'
  <1>1. /\ pass.stage = "store" /\ pass' = [pass EXCEPT !.stage = "attend"]
        /\ UNCHANGED <<config, score, epoch, kvPos, graphPos, q, out, part, grid>>
    BY DEF Store, kStoreKVRope, kQ35StoreKV, storeKVWithRoPE, storeKV, StoreRows, Running, Then
  <1>2. pass'.stage = "attend" /\ pass'.T = pass.T
    BY <1>1 DEF PassInv, CacheInv, PassType
  <1>3. OutputsRight' /\ PartsRight' /\ GridRight'
    BY <1>1, <1>2, QuietKeeps
  <1>4. PassBounded'
    BY <1>1, <1>2 DEF PassInv, PassBounded, Chosen, Rows
  <1>5. TokensRotated'
    BY <1>1, <1>2 DEF PassInv, TokensRotated, Tokens
  <1> QED
    BY <1>3, <1>4, <1>5 DEF PassParts

LEMMA StutterKeeps ==
    ASSUME PassInv, UNCHANGED vars
    PROVE  PassParts'
  <1>1. UNCHANGED <<config, score, epoch, kvPos>> /\ UNCHANGED <<graphPos, pass, q, k, kCache, vCache>>
        /\ UNCHANGED <<part, out, grid>>
    BY DEF vars
  <1> USE <1>1
  <1>2. PassBounded' /\ TokensRotated'
    BY SamePart DEF PassInv, PassBounded, TokensRotated, Rows, Tokens, Split, splitAttn
  <1>3. Tokens' = Tokens /\ Writing' = Writing /\ Split' = Split
    BY SamePart DEF Tokens, Writing, Split, splitAttn
  <1>4. OutputsRight'
    <2>1. \A s, h : OutRight(s, h) => OutRight(s, h)'
      BY SamePart DEF OutRight
    <2>2. \A b : HeadsOf(b)' = HeadsOf(b)
      BY SamePart
    <2>3. QHeads' = QHeads
      BY SamePart
    <2> QED
      BY <1>3, <2>1, <2>2, <2>3 DEF PassInv, OutputsRight
  <1>5. PartsRight'
    <2>1. \A h, c : PartRight(h, c) => PartRight(h, c)'
      BY SamePart DEF PartRight
    <2>2. attnChunks' = attnChunks /\ QHeads' = QHeads
      BY SamePart
    <2> QED
      BY <1>3, <2>1, <2>2 DEF PassInv, PartsRight
  <1>6. GridRight'
    <2>1. \A b : Shared(b) => Shared(b)'
      <3>1. Blocks' = Blocks /\ Warps' = Warps
        BY <1>3, SamePart DEF Blocks, Warps, splitAttn
      <3>2. \A b, w : WarpKeys(b, w)' = WarpKeys(b, w)
        BY SamePart DEF WarpKeys
      <3>3. \A b, w : IsPart(grid.shared[w], WarpKeys(b, w), kvHead(b[2]))
                        => IsPart(grid.shared[w], WarpKeys(b, w), kvHead(b[2]))'
        BY <3>2, SamePart
      <3> QED
        BY <1>3, <3>1, <3>3 DEF Shared
    <2>2. Blocks' = Blocks
      BY <1>3, SamePart DEF Blocks, splitAttn
    <2> QED
      BY <2>1, <2>2 DEF PassInv, GridRight
  <1> QED
    BY <1>2, <1>4, <1>5, <1>6 DEF PassParts

-----------------------------------------------------------------------------
LEMMA PassInitial == Init => PassInv
  <1> SUFFICES ASSUME Init
               PROVE  PassInv
    OBVIOUS
  <1>1. CacheInv
    BY Initial
  <1>2. PassBounded
    BY SizesAssumption DEF Init, PassBounded, Chosen, Idle, Rows
  <1>3. TokensRotated
    BY DEF Init, TokensRotated, Idle
  <1>4. OutputsRight
    BY DEF Init, OutputsRight, Idle, Fresh, Writing
  <1>5. PartsRight
    BY DEF Init, PartsRight, Idle
  <1>6. GridRight
    BY DEF Init, GridRight, Fresh, NoBlock, Idle
  <1> QED
    BY <1>1, <1>2, <1>3, <1>4, <1>5, <1>6 DEF PassInv

LEMMA PassPreserved == PassInv /\ [Next]_vars => PassInv'
  <1> SUFFICES ASSUME PassInv, [Next]_vars
               PROVE  PassInv'
    OBVIOUS
  <1>1. CacheInv'
    BY Preserved DEF PassInv
  <1>2. PassParts'
    BY ForwardKeeps, ReturnKeeps, ClearKeeps, RotateKeeps, StoreRowsKeeps, BlockStepKeeps, StutterKeeps
       DEF Next, Full
  <1> QED
    BY <1>1, <1>2 DEF PassInv, PassParts

\* Every term of an output names a row of the present session.
LEMMA PassTypes == PassInv => TypeOK
  <1> SUFFICES ASSUME PassInv
               PROVE  TypeOK
    OBVIOUS
  <1>1. /\ config \in Configs /\ score \in Scores
        /\ epoch \in 1..MaxSessions /\ graphPos \in Rows
    BY DEF PassInv, PassBounded, Chosen
  <1>2. kvPos \in 0..MaxSeqLen /\ pass.T \in 0..MaxBatch
    BY PassFacts, SizesAssumption DEF PassInv, PassBounded
  <1>3. pass \in [T : 0..MaxBatch, captured : BOOLEAN,
                  stage : {"idle", "rotate", "store", "attend", "combine", "end"}]
    BY <1>2 DEF PassInv, CacheInv, PassType, Stages
  <1>4. \A s \in DOMAIN q : q[s] \in Rows
    BY PassFacts DEF PassInv, TokensRotated
  <1>5. \A sh \in DOMAIN out : \A key \in KeysOf(out[sh].p) : key.epoch \in 0..epoch
    <2> SUFFICES ASSUME NEW sh \in DOMAIN out, NEW key \in KeysOf(out[sh].p)
                 PROVE  key.epoch \in 0..epoch
      OBVIOUS
    <2>1. PICK s \in Tokens, h \in QHeads : sh = <<s, h>> /\ OutRight(s, h)
      BY DEF PassInv, OutputsRight
    <2>2. PICK r : out[sh] = [rot |-> kvPos + s, p |-> r] /\ IsPart(r, 0..(kvPos + s), kvHead(h))
      BY <2>1 DEF OutRight
    <2>3. key \in {Key(epoch, i, kvHead(h), i) : i \in 0..(kvPos + s)}
      <3>1. key \in KeysOf(r)
        BY <2>2
      <3>2. PICK K, g : K = 0..(kvPos + s) /\ g = kvHead(h)
        OBVIOUS
      <3>3. IsPart(r, K, g)
        BY <2>2, <3>2
      <3>4. KeysOf(r) = {Key(epoch, i, g, i) : i \in K}
        BY <3>3, KeysOfPart
      <3> QED
        BY <3>1, <3>2, <3>4
    <2>4. key.epoch = epoch
      BY <2>3 DEF Key
    <2> QED
      BY <1>1, <2>4
  <1> QED
    BY <1>1, <1>2, <1>3, <1>4, <1>5 DEF TypeOK

LEMMA PassChunks == PassInv => ChunksShareContext
  <1> SUFFICES ASSUME PassInv, pass.stage = "combine", NEW h \in QHeads, NEW c \in 0..(attnChunks - 1)
               PROVE  {key.pos : key \in KeysOf(part[pidx(0, h, c)])}
                        = {p \in 0..kvPos : p \div config.chunk = c}
    BY DEF ChunksShareContext
  <1>1. IsPart(part[pidx(0, h, c)], ChunkKeys(c), kvHead(h))
    BY DEF PassInv, PartsRight, PartRight
  <1> QED
    BY <1>1, KeysOfPart DEF ChunkKeys

LEMMA PassAttends == PassInv => AttendsToContext
  <1> SUFFICES ASSUME PassInv, pass.stage = "end", NEW s \in Tokens, NEW h \in QHeads
               PROVE  out[<<s, h>>] = SoftmaxOf(kvPos + s, h)
    BY DEF AttendsToContext
  <1>1. OutRight(s, h)
    BY DEF PassInv, OutputsRight
  <1>2. PICK r : out[<<s, h>>] = [rot |-> kvPos + s, p |-> r]
                 /\ IsPart(r, 0..(kvPos + s), kvHead(h))
    BY <1>1 DEF OutRight
  <1>3. kvPos + s \in Rows /\ Chosen
    BY PassFacts DEF PassInv, PassBounded
  <1>4. [rot |-> kvPos + s, p |-> r] = SoftmaxOf(kvPos + s, h)
    BY <1>2, <1>3, SoftmaxIs
  <1> QED
    BY <1>2, <1>4

LEMMA PassStays == Spec => []PassInv
  BY PassInitial, PassPreserved, PTL DEF Spec

\* No output is made of memory nobody has written: each of its terms is a row
\* of the present session, and the position of every pass stays in the cache.
THEOREM OutputsTyped == Spec => []TypeOK
  BY PassStays, PassTypes, PTL

\* Whatever the chunk size, the sub-warps and the order in which warps and
\* blocks arrive, the chunks of a decode step share out its context exactly.
THEOREM ChunksShareOut == Spec => []ChunksShareContext
  BY PassStays, PassChunks, PTL

\* Every engine, split or not, gives each token and query head the softmax of
\* its own context: each key of the session up to it once, on one scale.
THEOREM AttentionIsSoftmax == Spec => []AttendsToContext
  BY PassStays, PassAttends, PTL
=============================================================================
