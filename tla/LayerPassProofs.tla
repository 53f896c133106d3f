--------------------------- MODULE LayerPassProofs ---------------------------
(***************************************************************************)
(* Theorems about LayerPass, for every number of layers, every set of      *)
(* models and settings, and every split of a session into passes:          *)
(* TypeCorrect, StateKept (for files of KnownProjections), LogitsRight     *)
(* (for those of KnownHeads) and CacheKept (for those of KnownAttention).  *)
(*                                                                         *)
(* TypeInv says what each place of a pass may assume of its shape, and is  *)
(* inductive.  StateInv adds to it RecInv, how many tokens each recurrent  *)
(* layer has seen in mid-pass, and RowsInv, what the norm and the          *)
(* projections have left for the recurrence.  LogitInv says of the logits  *)
(* what LogitsOfLastToken does, during passes too.  KeptInv adds to        *)
(* TypeInv how far each slot of the K/V cache has come in mid-pass, which  *)
(* engine a layer is on, and what the steps before the attention have left *)
(* for it.                                                                 *)
(***************************************************************************)
EXTENDS LayerPass, SequenceTheorems, WellFoundedInduction, TLAPS

-----------------------------------------------------------------------------
(* What the launches and loops of the layers do to the buffers, for every  *)
(* configuration: that they keep the shape of device and host (Shape),     *)
(* which rows a projection writes and which it leaves alone, and that a    *)
(* recurrence over the tokens of a pass advances a window and a state once *)
(* per token on either engine.  The loops over rows, ranks and tokens are  *)
(* folds of the community modules; an instance of FoldTheorems unrolls     *)
(* each.                                                                   *)

RowsShape(d, buffers) ==
    /\ "rows" \in DOMAIN d /\ DOMAIN d.rows = buffers
    /\ \A b \in buffers : DOMAIN d.rows[b] = Slots
QuantShape(d) ==
    {"q8k", "wF16"} \subseteq DOMAIN d /\ {"cap", "row"} \subseteq DOMAIN d.q8k /\ d.q8k.cap \in Nat
DevShape(d) == RowsShape(d, DevBuffers) /\ QuantShape(d)
HostShape(h) == RowsShape(h, HostBuffers)

\* A buffer keeps its shape when a row is written, or all rows of the pass.
LEMMA PutRows ==
    ASSUME NEW B, NEW d, RowsShape(d, B), NEW b, NEW t, NEW x
    PROVE  RowsShape(Put(d, b, t, x), B)
  BY DEF RowsShape, Put
\* So does the device.
LEMMA PutDev ==
    ASSUME NEW d, DevShape(d), NEW b, NEW t, NEW x
    PROVE  DevShape(Put(d, b, t, x))
  <1>1. QuantShape(Put(d, b, t, x))
    BY DEF DevShape, QuantShape, Put
  <1> QED
    BY <1>1, PutRows DEF DevShape
LEMMA PutAllRows ==
    ASSUME NEW B, NEW d, RowsShape(d, B), NEW b, NEW f
    PROVE  RowsShape(PutAll(d, b, f), B)
  BY DEF RowsShape, PutAll
LEMMA PutAllDev ==
    ASSUME NEW d, DevShape(d), NEW b, NEW f
    PROVE  DevShape(PutAll(d, b, f))
  <1>1. QuantShape(PutAll(d, b, f))
    BY DEF DevShape, QuantShape, PutAll
  <1> QED
    BY <1>1, PutAllRows DEF DevShape

\* A row that is written holds the value; the others keep theirs.
LEMMA PutRow ==
    ASSUME NEW B, NEW d, RowsShape(d, B), NEW b \in B, NEW t \in Slots, NEW x
    PROVE  /\ Row(Put(d, b, t, x), b, t) = x
           /\ \A b2 \in B, t2 \in Slots : b2 # b \/ t2 # t => Row(Put(d, b, t, x), b2, t2) = Row(d, b2, t2)
  BY DEF RowsShape, Put, Row
LEMMA PutAllRow ==
    ASSUME NEW B, NEW d, RowsShape(d, B), NEW b \in B, NEW f
    PROVE  /\ \A t \in Slots : Row(PutAll(d, b, f), b, t) = IF t \in Tokens THEN f[t] ELSE Row(d, b, t)
           /\ \A b2 \in B, t2 \in Slots : b2 # b => Row(PutAll(d, b, f), b2, t2) = Row(d, b2, t2)
  BY DEF RowsShape, PutAll, Row


-----------------------------------------------------------------------------
\* The sizes of a configuration are numbers.
Sized ==
    /\ c.hidden \in Nat /\ c.inter \in Nat /\ c.expertFF \in Nat
    /\ pass.T \in 0..MaxBatch /\ Len(c.route[1]) \in Nat

\* Quantizing a row (growing q8k_ first if need be) leaves every buffer alone
\* and puts the coded row into q8k_.
LEMMA QuantizeShape ==
    ASSUME NEW d, DevShape(d), NEW format, NEW x, NEW blocks \in Nat
    PROVE  /\ DevShape(Quantize(d, format, x, blocks)) /\ DevShape(Grown(d, blocks * Stride(format)))
           /\ Quantize(d, format, x, blocks).rows = d.rows
           /\ Quantize(d, format, x, blocks).q8k.row = Coded(format, x)
  <1> DEFINE e == Grown(d, blocks * Stride(format))
  <1>1. PICK m \in Nat : m = blocks * Stride(format)
    BY DEF Stride
  <1>2. DevShape(e) /\ e.rows = d.rows
    BY <1>1 DEF Grown, DevShape, RowsShape, QuantShape
  <1> HIDE DEF e
  <1> QED
    BY <1>2 DEF e, Quantize, DevShape, RowsShape, QuantShape

\* A launch keeps the shape of the device, whatever it quantizes and writes.
LEMMA LaunchShape ==
    ASSUME NEW d, DevShape(d), NEW w, NEW type, NEW blocks \in Nat, NEW x, NEW b, NEW t
    PROVE  DevShape(launchQGemv(d, w, type, blocks, x, b, t))
  <1>1. ASSUME NEW y PROVE DevShape(Put(d, b, t, y))
    BY PutDev
  <1>2. ASSUME NEW y PROVE DevShape(Put(Quantize(d, Wants(type), x, blocks), b, t, y))
    BY PutDev, QuantizeShape
  <1> QED
    BY <1>1, <1>2 DEF launchQGemv

LEMMA WidthNat == ASSUME Sized, NEW name PROVE Width(name) \in Nat
  BY DEF Sized, Width

LEMMA GemvShape1 ==
    ASSUME Sized, NEW d, DevShape(d), NEW name, NEW from, NEW to, NEW t
    PROVE  DevShape(Gemv(d, name, from, to, t))
  BY LaunchShape, WidthNat DEF Gemv

LEMMA ResidShape ==
    ASSUME NEW d, DevShape(d), NEW w, NEW type, NEW blocks \in Nat, NEW x, NEW acc, NEW t, NEW pre
    PROVE  DevShape(launchQGemvResid(d, w, type, blocks, x, acc, t, pre).d)
  <1> DEFINE e == IF pre THEN d ELSE Quantize(d, "q81", x, blocks)
  <1>1. DevShape(e)
    BY QuantizeShape
  <1> HIDE DEF e
  <1>2. ASSUME NEW y PROVE DevShape(Put(d, acc, t, y)) /\ DevShape(Put(e, acc, t, y))
    BY <1>1, PutDev
  <1> QED
    BY <1>2 DEF e, launchQGemvResid

LEMMA FusedGUShape ==
    ASSUME NEW d, DevShape(d), NEW wg, NEW wu, NEW type, NEW blocks \in Nat, NEW x, NEW b, NEW t, NEW pre
    PROVE  DevShape(launchQGemvFusedGU(d, wg, wu, type, blocks, x, b, t, pre))
  <1> DEFINE format == IF type = "Q2_K" /\ ~On("Q2K_INTGU") THEN "q81" ELSE "q8k"
             e == IF pre /\ format = "q81" THEN d ELSE Quantize(d, format, x, blocks)
  <1>1. DevShape(e)
    BY QuantizeShape
  <1> HIDE DEF e
  <1>2. ASSUME NEW y PROVE DevShape(Put(d, b, t, y)) /\ DevShape(Put(e, b, t, y))
    BY <1>1, PutDev
  <1> QED
    BY <1>2 DEF e, launchQGemvFusedGU

LEMMA GemmShape ==
    ASSUME NEW d, DevShape(d), NEW name, NEW from, NEW to
    PROVE  DevShape(Gemm(d, name, from, to))
  <1> DEFINE w == Weight(pass.L, name)
             e == dequantMatrixF16(d, w, name)
  <1>1. DevShape(e)
    BY DEF dequantMatrixF16, DevShape, RowsShape, QuantShape
  <1> HIDE DEF e
  <1>2. ASSUME NEW f PROVE DevShape(PutAll(e, to, f))
    BY <1>1, PutAllDev
  <1> QED
    BY <1>2 DEF e, Gemm

\* A kernel that maps rows, and those of the dense decoder.
LEMMA KernelShapes ==
    ASSUME NEW d, DevShape(d), NEW b, NEW b2
    PROVE  /\ DevShape(ToF16(d, b, b2)) /\ DevShape(kRMSNormRow(d, b)) /\ DevShape(kAddBias(d, b, b2))
           /\ DevShape(kAddResidual(d, b)) /\ DevShape(kSiluMul(d))
  BY PutAllDev DEF ToF16, kRMSNormRow, kAddBias, kAddResidual, kSiluMul, Each
LEMMA KernelShapesQ35 ==
    ASSUME NEW d, DevShape(d), NEW b
    PROVE  /\ DevShape(kQ35BetaGate(d)) /\ DevShape(kQ35GatedRmsNorm(d)) /\ DevShape(kQ35HeadRmsNorm2(d))
           /\ DevShape(kQ35HeadRmsNorm(d)) /\ DevShape(kQ35MRoPE(d, b)) /\ DevShape(kQ35SigmoidGate(d))
           /\ DevShape(EmbedTokens(d))
  BY PutAllDev DEF kQ35BetaGate, kQ35GatedRmsNorm, kQ35HeadRmsNorm2, kQ35HeadRmsNorm, kQ35MRoPE,
                   kQ35SigmoidGate, EmbedTokens, Each
LEMMA KernelShapesMoe ==
    ASSUME NEW d, DevShape(d), NEW b, NEW b2
    PROVE  /\ DevShape(FfnInput(d)) /\ DevShape(kSiluMulRows(d, b, b2)) /\ DevShape(kAddScaled(d))
           /\ DevShape(Cleared(d))
  BY PutAllDev DEF FfnInput, kRMSNormRow, kAddResidual, kSiluMulRows, kAddScaled, Cleared, Each
\* kQ35MoeAccumScaled with its rows given as a function.
LEMMA AccumShape ==
    ASSUME NEW d, DevShape(d), NEW r, NEW f
    PROVE  DevShape(Each(d, "moeExpertOut", LAMBDA t : Plus(Row(d, "moeExpertOut", t), Times(d.moeWgt[t][r], f[t]))))
  BY PutAllDev DEF Each

-----------------------------------------------------------------------------
(* The folds of the device: each is the fold of its launch over the first  *)
(* n tokens or ranks, and keeps the shape because its launch does.         *)

Largest(S) == Max(S)
gemvOp(d, t, m) == gemvRow(d, t, m)
LOCAL Projecting == INSTANCE FoldTheorems WITH Op <- gemvOp, Pick <- Largest
oneOp(d, t, m) == oneRow(d, t, m)
LOCAL Rowing == INSTANCE FoldTheorems WITH Op <- oneOp, Pick <- Largest
headOp(d, t, m) == headRow(d, t)
LOCAL Heading == INSTANCE FoldTheorems WITH Op <- headOp, Pick <- Largest
rankOp(d, t, m) == rankOf(d, t, m)
LOCAL Ranking == INSTANCE FoldTheorems WITH Op <- rankOp, Pick <- Largest
genericOp(d, r, m) == genericRank(d, r, m)
LOCAL PerRank == INSTANCE FoldTheorems WITH Op <- genericOp, Pick <- Largest
fastDownOp(d, r, m) == fastDown(d, r, m)
LOCAL FastDown == INSTANCE FoldTheorems WITH Op <- fastDownOp, Pick <- Largest
fastRankOp(d, r, idx) == fastRank(d, r, idx)
LOCAL FastRank == INSTANCE FoldTheorems WITH Op <- fastRankOp, Pick <- Largest
downOp(d, r, idx) == downR(d, r, idx)
LOCAL Downing == INSTANCE FoldTheorems WITH Op <- downOp, Pick <- Largest
residentOp(d, r, m) == residentRank(d, r)
LOCAL Resident == INSTANCE FoldTheorems WITH Op <- residentOp, Pick <- Largest

\* Nat is well ordered: the folds are over the indices of a sequence.
LEMMA Least == \A B \in SUBSET Nat : B # {} => \E n \in B : \A m \in B : n <= m
  <1>1. SUFFICES ASSUME NEW B \in SUBSET Nat, B # {}
                 PROVE  \E n \in B : \A m \in B : n <= m
    OBVIOUS
  <1>2. PICK n \in B : \A m \in B : ~ (<<m, n>> \in OpToRel(<, Nat))
    BY <1>1, NatLessThanWellFounded, WFMin
  <1>3. \A m \in B : ~ (m < n)
    BY <1>2 DEF OpToRel
  <1>4. \A m \in B : n <= m
    BY <1>3
  <1> QED
    BY <1>4

LEMMA LargestPicked ==
    /\ Projecting!WellOrdered /\ Projecting!PicksLargest
    /\ Rowing!WellOrdered /\ Rowing!PicksLargest
    /\ Heading!WellOrdered /\ Heading!PicksLargest
    /\ Ranking!WellOrdered /\ Ranking!PicksLargest
    /\ PerRank!WellOrdered /\ PerRank!PicksLargest
    /\ FastDown!WellOrdered /\ FastDown!PicksLargest
    /\ FastRank!WellOrdered /\ FastRank!PicksLargest
    /\ Downing!WellOrdered /\ Downing!PicksLargest
    /\ Resident!WellOrdered /\ Resident!PicksLargest
  BY Least DEF Projecting!WellOrdered, Projecting!PicksLargest, Rowing!WellOrdered,
      Rowing!PicksLargest, Heading!WellOrdered, Heading!PicksLargest, Ranking!WellOrdered,
      Ranking!PicksLargest, PerRank!WellOrdered, PerRank!PicksLargest, FastDown!WellOrdered,
      FastDown!PicksLargest, FastRank!WellOrdered, FastRank!PicksLargest, Downing!WellOrdered,
      Downing!PicksLargest, Resident!WellOrdered, Resident!PicksLargest, Max, Largest

LEMMA GemvRowShape ==
    ASSUME Sized, NEW d, DevShape(d), NEW t, NEW m
    PROVE  DevShape(gemvRow(d, t, m))
  <1> DEFINE e == prismFoldForward(d, Row(d, m.from, t), m.name = "ssmOut")
  <1>1. DevShape(e)
    BY PutDev DEF prismFoldForward
  <1> HIDE DEF e
  <1> QED
    BY <1>1, LaunchShape, WidthNat DEF e, gemvRow

\* The loop of a projection over the rows of the pass, as a fold.
LEMMA GemvIsFold ==
    ASSUME NEW d, NEW name, NEW from, NEW to
    PROVE  FoldLeft(LAMBDA e, t : gemvRow(e, t, [name |-> name, from |-> from, to |-> to]), d, [t \in Tokens |-> t])
           = Projecting!Fold([name |-> name, from |-> from, to |-> to], d, [t \in Tokens |-> t], 1..pass.T)
  BY DEF FoldLeft, MapThenFoldSet, Max, Projecting!Fold, Projecting!MapThenFoldSet, Largest, gemvOp, Tokens, Ranks

LEMMA GemvFoldShape ==
    ASSUME Sized, NEW m, NEW d, DevShape(d), NEW n \in Nat, NEW f
    PROVE  DevShape(Projecting!Fold(m, d, f, 1..n))
  <1> DEFINE A == {i \in 0..n : DevShape(Projecting!Fold(m, d, f, 1..i))}
  <1>1. 0 \in A
    BY LargestPicked, Projecting!FoldEmpty
  <1>2. ASSUME NEW i \in 1..n, i - 1 \in A
        PROVE  i \in A
    <2>1. Projecting!Fold(m, d, f, 1..i) = gemvRow(Projecting!Fold(m, d, f, 1..(i - 1)), f[i], m)
      BY LargestPicked, Projecting!FoldNext DEF gemvOp
    <2> QED
      BY <1>2, <2>1, GemvRowShape
  <1> QED
    BY <1>1, <1>2, LargestPicked, Projecting!EveryIndex

\* A projection keeps the shape of the device, as one GEMM or row by row.
LEMMA GemvShape ==
    ASSUME Sized, NEW d, DevShape(d), NEW name, NEW from, NEW to
    PROVE  DevShape(gemv(d, name, from, to))
  <1> DEFINE m == [name |-> name, from |-> from, to |-> to]
             e == FoldLeft(LAMBDA g, t : gemvRow(g, t, m), d, [t \in Tokens |-> t])
  <1>1. DevShape(e)
    <2>1. e = Projecting!Fold(m, d, [t \in Tokens |-> t], 1..pass.T)
      BY GemvIsFold
    <2> HIDE DEF e, m
    <2> QED
      BY <2>1, GemvFoldShape DEF Sized
  <1>2. DevShape(PutAll(d, to, [t \in Tokens |-> Mul(Weight(pass.L, name), Row(d, from, t))]))
    BY PutAllDev
  <1>3. gemv(d, name, from, to) \in {e, PutAll(d, to, [t \in Tokens |-> Mul(Weight(pass.L, name), Row(d, from, t))])}
    BY Zenon DEF gemv, Each
  <1> HIDE DEF e
  <1> QED
    BY <1>1, <1>2, <1>3

LEMMA RowsIsFold ==
    ASSUME NEW d, NEW m
    PROVE  FoldLeft(LAMBDA e, t : oneRow(e, t, m), d, [t \in Tokens |-> t])
           = Rowing!Fold(m, d, [t \in Tokens |-> t], 1..pass.T)
  BY DEF FoldLeft, MapThenFoldSet, Max, Rowing!Fold, Rowing!MapThenFoldSet, Largest, oneOp, Tokens, Ranks

LEMMA RowsFoldShape ==
    ASSUME Sized, NEW m, m.blocks \in Nat, NEW d, DevShape(d), NEW n \in Nat, NEW f
    PROVE  DevShape(Rowing!Fold(m, d, f, 1..n))
  <1> DEFINE A == {i \in 0..n : DevShape(Rowing!Fold(m, d, f, 1..i))}
  <1>1. 0 \in A
    BY LargestPicked, Rowing!FoldEmpty
  <1>2. ASSUME NEW i \in 1..n, i - 1 \in A
        PROVE  i \in A
    <2>1. Rowing!Fold(m, d, f, 1..i) = oneRow(Rowing!Fold(m, d, f, 1..(i - 1)), f[i], m)
      BY LargestPicked, Rowing!FoldNext DEF oneOp
    <2> QED
      BY <1>2, <2>1, LaunchShape DEF oneRow
  <1> QED
    BY <1>1, <1>2, LargestPicked, Rowing!EveryIndex

\* The projections of the experts' rows, alike.
LEMMA RowsOfShape ==
    ASSUME Sized, NEW d, DevShape(d), NEW w, NEW type, NEW blocks \in Nat, NEW from, NEW to
    PROVE  DevShape(Rows(d, w, type, blocks, from, to))
  <1> DEFINE m == [w |-> w, type |-> type, blocks |-> blocks, from |-> from, to |-> to]
  <1>1. m.blocks \in Nat
    OBVIOUS
  <1>2. Rows(d, w, type, blocks, from, to) = Rowing!Fold(m, d, [t \in Tokens |-> t], 1..pass.T)
    BY RowsIsFold DEF Rows
  <1> HIDE DEF m
  <1> QED
    BY <1>1, <1>2, RowsFoldShape DEF Sized

LEMMA HeadRowShape ==
    ASSUME Sized, NEW d, DevShape(d), NEW t
    PROVE  DevShape(headRow(d, t))
  <1> DEFINE x == IF c.prism /\ Type("lmHead") = "PQ2_0" THEN Fold(FALSE, Row(d, "hidden", t)) ELSE Row(d, "hidden", t)
  <1>1. headRow(d, t) \in {launchQGemv(d, Weight(0, "lmHead"), Type("lmHead"), c.hidden, x, "logits", t), d}
    BY Zenon DEF headRow
  <1>2. DevShape(launchQGemv(d, Weight(0, "lmHead"), Type("lmHead"), c.hidden, x, "logits", t))
    BY LaunchShape DEF Sized
  <1> HIDE DEF x
  <1> QED
    BY <1>1, <1>2

LEMMA HeadIsFold ==
    ASSUME NEW d
    PROVE  FoldLeft(headRow, d, [t \in Tokens |-> t])
           = Heading!Fold({}, d, [t \in Tokens |-> t], 1..pass.T)
  BY DEF FoldLeft, MapThenFoldSet, Max, Heading!Fold, Heading!MapThenFoldSet, Largest, headOp, Tokens, Ranks

LEMMA HeadFoldShape ==
    ASSUME Sized, NEW m, NEW d, DevShape(d), NEW n \in Nat, NEW f
    PROVE  DevShape(Heading!Fold(m, d, f, 1..n))
  <1> DEFINE A == {i \in 0..n : DevShape(Heading!Fold(m, d, f, 1..i))}
  <1>1. 0 \in A
    BY LargestPicked, Heading!FoldEmpty
  <1>2. ASSUME NEW i \in 1..n, i - 1 \in A
        PROVE  i \in A
    <2>1. Heading!Fold(m, d, f, 1..i) = headRow(Heading!Fold(m, d, f, 1..(i - 1)), f[i])
      BY LargestPicked, Heading!FoldNext DEF headOp
    <2> QED
      BY <1>2, <2>1, HeadRowShape
  <1> QED
    BY <1>1, <1>2, LargestPicked, Heading!EveryIndex

\* And the head.
LEMMA HeadShape ==
    ASSUME Sized, NEW d, DevShape(d)
    PROVE  DevShape(HeadOf(d))
  BY HeadIsFold, HeadFoldShape, PutAllDev DEF HeadOf, Each, Sized

-----------------------------------------------------------------------------
(* The experts.                                                            *)

\* A rank of the routed experts, token by token and as one batch.
LEMMA RankTokenShape ==
    ASSUME Sized, NEW d, DevShape(d), NEW e, NEW wgt, NEW t
    PROVE  DevShape(rankToken(d, e, wgt, t))
  <1> DEFINE g == launchQGemv(d, W(<<"gate", e>>), Type("expertGate"), c.hidden, Row(d, "norm", t), "moeGateUp", t)
             u == launchQGemv(g, W(<<"up", e>>), Type("expertGate"), c.hidden, Row(g, "norm", t), "moeGateUp2", t)
             b == Put(u, "moeGateUp", t, SwiGLU(Row(u, "moeGateUp", t), Row(u, "moeGateUp2", t)))
             y == launchQGemv(b, W(<<"down", e>>), Type("expertDown"), c.expertFF, Row(b, "moeGateUp", t), "moeDown", t)
             z == Put(y, "moeExpertOut", t, Plus(Row(y, "moeExpertOut", t), Times(wgt, Row(y, "moeDown", t))))
  <1>1. DevShape(g)
    BY LaunchShape DEF Sized
  <1>2. ASSUME NEW v, DevShape(v)
        PROVE  DevShape(launchQGemv(v, W(<<"up", e>>), Type("expertGate"), c.hidden, Row(v, "norm", t), "moeGateUp2", t))
    BY <1>2, LaunchShape DEF Sized
  <1>3. ASSUME NEW v, DevShape(v)
        PROVE  /\ DevShape(Put(v, "moeGateUp", t, SwiGLU(Row(v, "moeGateUp", t), Row(v, "moeGateUp2", t))))
               /\ DevShape(Put(v, "moeExpertOut", t, Plus(Row(v, "moeExpertOut", t), Times(wgt, Row(v, "moeDown", t)))))
    BY <1>3, PutDev
  <1>4. ASSUME NEW v, DevShape(v)
        PROVE  DevShape(launchQGemv(v, W(<<"down", e>>), Type("expertDown"), c.expertFF, Row(v, "moeGateUp", t), "moeDown", t))
    BY <1>4, LaunchShape DEF Sized
  <1>5. rankToken(d, e, wgt, t) = z
    BY Zenon DEF rankToken
  <1>6. DevShape(u)
    <2> HIDE DEF g
    <2> QED
      BY <1>1, <1>2
  <1>7. DevShape(b)
    <2> HIDE DEF u
    <2> QED
      BY <1>6, <1>3
  <1>8. DevShape(y)
    <2> HIDE DEF b
    <2> QED
      BY <1>7, <1>4
  <1> HIDE DEF y
  <1> QED
    BY <1>3, <1>5, <1>8

LEMMA RankBatchShape ==
    ASSUME Sized, NEW d, DevShape(d), NEW e, NEW r
    PROVE  DevShape(rankBatch(d, e, r))
  <1> DEFINE g == Rows(d, W(<<"gate", e>>), Type("expertGate"), c.hidden, "norm", "moeGateUp")
             u == Rows(g, W(<<"up", e>>), Type("expertGate"), c.hidden, "norm", "moeGateUp2")
             b == kSiluMulRows(u, "moeGateUp", "moeGateUp2")
             y == Rows(b, W(<<"down", e>>), Type("expertDown"), c.expertFF, "moeGateUp", "moeDown")
  <1>1. ASSUME NEW v, DevShape(v)
        PROVE  /\ DevShape(Rows(v, W(<<"gate", e>>), Type("expertGate"), c.hidden, "norm", "moeGateUp"))
               /\ DevShape(Rows(v, W(<<"up", e>>), Type("expertGate"), c.hidden, "norm", "moeGateUp2"))
               /\ DevShape(Rows(v, W(<<"down", e>>), Type("expertDown"), c.expertFF, "moeGateUp", "moeDown"))
    BY <1>1, RowsOfShape DEF Sized
  <1>2. DevShape(g)
    BY <1>1
  <1>3. DevShape(u)
    <2> HIDE DEF g
    <2> QED
      BY <1>1, <1>2
  <1>4. DevShape(b)
    <2> HIDE DEF u
    <2> QED
      BY <1>3, KernelShapesMoe
  <1>5. DevShape(y)
    <2> HIDE DEF b
    <2> QED
      BY <1>4, <1>1
  <1>6. rankBatch(d, e, r) = kQ35MoeAccumScaled(y, r, LAMBDA t : Row(y, "moeDown", t))
    BY DEF rankBatch
  <1> HIDE DEF y
  <1> QED
    BY <1>5, <1>6, PutAllDev DEF kQ35MoeAccumScaled, Each

LEMMA RankTokensIsFold ==
    ASSUME NEW d, NEW m
    PROVE  FoldLeft(LAMBDA e, t : rankOf(e, t, m), d, [t \in Tokens |-> t])
           = Ranking!Fold(m, d, [t \in Tokens |-> t], 1..pass.T)
  BY DEF FoldLeft, MapThenFoldSet, Max, Ranking!Fold, Ranking!MapThenFoldSet, Largest, rankOp, Tokens, Ranks

LEMMA RankTokensShape ==
    ASSUME Sized, NEW m, NEW d, DevShape(d), NEW n \in Nat, NEW f
    PROVE  DevShape(Ranking!Fold(m, d, f, 1..n))
  <1> DEFINE A == {i \in 0..n : DevShape(Ranking!Fold(m, d, f, 1..i))}
  <1>1. 0 \in A
    BY LargestPicked, Ranking!FoldEmpty
  <1>2. ASSUME NEW i \in 1..n, i - 1 \in A
        PROVE  i \in A
    <2>1. Ranking!Fold(m, d, f, 1..i) = rankOf(Ranking!Fold(m, d, f, 1..(i - 1)), f[i], m)
      BY LargestPicked, Ranking!FoldNext DEF rankOp
    <2> QED
      BY <1>2, <2>1, RankTokenShape DEF rankOf
  <1> QED
    BY <1>1, <1>2, LargestPicked, Ranking!EveryIndex

LEMMA GenericRankShape ==
    ASSUME Sized, NEW d, DevShape(d), NEW r, NEW m
    PROVE  DevShape(genericRank(d, r, m))
  <1> DEFINE g == [idx |-> m.idx, wgt |-> m.wgt, r |-> r]
             e == FoldLeft(LAMBDA v, t : rankOf(v, t, g), d, [t \in Tokens |-> t])
  <1>1. DevShape(e)
    <2>1. e = Ranking!Fold(g, d, [t \in Tokens |-> t], 1..pass.T)
      BY RankTokensIsFold
    <2> HIDE DEF e, g
    <2> QED
      BY <2>1, RankTokensShape DEF Sized
  <1>2. genericRank(d, r, m) \in {rankBatch(d, m.idx[1][r], r), e}
    BY Zenon DEF genericRank
  <1> HIDE DEF e
  <1> QED
    BY <1>1, <1>2, RankBatchShape

LEMMA PerRankIsFold ==
    ASSUME NEW d, NEW idx, NEW wgt
    PROVE  perRank(d, idx, wgt)
           = PerRank!Fold([idx |-> idx, wgt |-> wgt], d, [r \in Ranks |-> r], 1..Len(c.route[1]))
  BY DEF FoldLeft, MapThenFoldSet, Max, PerRank!Fold, PerRank!MapThenFoldSet, Largest, genericOp, perRank, Tokens, Ranks

LEMMA PerRankFoldShape ==
    ASSUME Sized, NEW m, NEW d, DevShape(d), NEW n \in Nat, NEW f
    PROVE  DevShape(PerRank!Fold(m, d, f, 1..n))
  <1> DEFINE A == {i \in 0..n : DevShape(PerRank!Fold(m, d, f, 1..i))}
  <1>1. 0 \in A
    BY LargestPicked, PerRank!FoldEmpty
  <1>2. ASSUME NEW i \in 1..n, i - 1 \in A
        PROVE  i \in A
    <2>1. PerRank!Fold(m, d, f, 1..i) = genericRank(PerRank!Fold(m, d, f, 1..(i - 1)), f[i], m)
      BY LargestPicked, PerRank!FoldNext DEF genericOp
    <2> QED
      BY <1>2, <2>1, GenericRankShape
  <1> QED
    BY <1>1, <1>2, LargestPicked, PerRank!EveryIndex

\* The loop of the cache over ranks.
LEMMA PerRankShape ==
    ASSUME Sized, NEW d, DevShape(d), NEW idx, NEW wgt
    PROVE  DevShape(perRank(d, idx, wgt))
  <1> DEFINE m == [idx |-> idx, wgt |-> wgt]
  <1>1. perRank(d, idx, wgt) = PerRank!Fold(m, d, [r \in Ranks |-> r], 1..Len(c.route[1]))
    BY PerRankIsFold
  <1> HIDE DEF m
  <1> QED
    BY <1>1, PerRankFoldShape DEF Sized

LEMMA FastBatchIsFold ==
    ASSUME NEW d, NEW idx
    PROVE  fastBatch(d, idx)
           = FastDown!Fold([idx |-> idx, x |-> d.q8kN], d, [r \in Ranks |-> r], 1..Len(c.route[1]))
  BY DEF FoldLeft, MapThenFoldSet, Max, FastDown!Fold, FastDown!MapThenFoldSet, Largest, fastDownOp, fastBatch, Tokens, Ranks

LEMMA FastDownShape ==
    ASSUME NEW d, DevShape(d), NEW r, NEW m
    PROVE  DevShape(fastDown(d, r, m))
  BY PutAllDev DEF fastDown, kQ35MoeAccumScaled, Each

LEMMA FastBatchFoldShape ==
    ASSUME Sized, NEW m, NEW d, DevShape(d), NEW n \in Nat, NEW f
    PROVE  DevShape(FastDown!Fold(m, d, f, 1..n))
  <1> DEFINE A == {i \in 0..n : DevShape(FastDown!Fold(m, d, f, 1..i))}
  <1>1. 0 \in A
    BY LargestPicked, FastDown!FoldEmpty
  <1>2. ASSUME NEW i \in 1..n, i - 1 \in A
        PROVE  i \in A
    <2>1. FastDown!Fold(m, d, f, 1..i) = fastDown(FastDown!Fold(m, d, f, 1..(i - 1)), f[i], m)
      BY LargestPicked, FastDown!FoldNext DEF fastDownOp
    <2> QED
      BY <1>2, <2>1, FastDownShape
  <1> QED
    BY <1>1, <1>2, LargestPicked, FastDown!EveryIndex

\* The ranks in one launch, and each in launches of its own.
LEMMA FastBatchShape ==
    ASSUME Sized, NEW d, DevShape(d), NEW idx
    PROVE  DevShape(fastBatch(d, idx))
  BY FastBatchIsFold, FastBatchFoldShape DEF Sized

LEMMA FastRankShape ==
    ASSUME NEW d, DevShape(d), NEW r, NEW idx
    PROVE  DevShape(fastRank(d, r, idx))
  <1> DEFINE e == idx[r]
             glu == SwiGLU(Dot(W(<<"gate", e>>), "q80", d.q8kN), Dot(W(<<"up", e>>), "q80", d.q8kN))
             p == Put(d, "moeGateUp", 1, glu)
             q == [p EXCEPT !.q8k.row = launchQuantQ8_0x32(glu)]
             y == Put(q, "moeDown", 1, Dot(W(<<"down", e>>), "q80", q.q8k.row))
  <1>1. fastRank(d, r, idx) = kQ35MoeAccumScaled(y, r, LAMBDA t : Row(y, "moeDown", t))
    BY DEF fastRank
  <1>2. DevShape(p)
    BY PutDev
  <1>3. DevShape(q)
    <2> HIDE DEF p
    <2> QED
      BY <1>2 DEF DevShape, RowsShape, QuantShape
  <1>4. DevShape(y)
    <2> HIDE DEF q
    <2> QED
      BY <1>3, PutDev
  <1> HIDE DEF y
  <1> QED
    BY <1>1, <1>4, PutAllDev DEF kQ35MoeAccumScaled, Each

LEMMA FastRanksIsFold ==
    ASSUME NEW d, NEW idx
    PROVE  FoldLeft(LAMBDA e, r : fastRank(e, r, idx), d, [r \in Ranks |-> r])
           = FastRank!Fold(idx, d, [r \in Ranks |-> r], 1..Len(c.route[1]))
  BY DEF FoldLeft, MapThenFoldSet, Max, FastRank!Fold, FastRank!MapThenFoldSet, Largest, fastRankOp, Tokens, Ranks

LEMMA FastRanksShape ==
    ASSUME Sized, NEW idx, NEW d, DevShape(d), NEW n \in Nat, NEW f
    PROVE  DevShape(FastRank!Fold(idx, d, f, 1..n))
  <1> DEFINE A == {i \in 0..n : DevShape(FastRank!Fold(idx, d, f, 1..i))}
  <1>1. 0 \in A
    BY LargestPicked, FastRank!FoldEmpty
  <1>2. ASSUME NEW i \in 1..n, i - 1 \in A
        PROVE  i \in A
    <2>1. FastRank!Fold(idx, d, f, 1..i) = fastRank(FastRank!Fold(idx, d, f, 1..(i - 1)), f[i], idx)
      BY LargestPicked, FastRank!FoldNext DEF fastRankOp
    <2> QED
      BY <1>2, <2>1, FastRankShape
  <1> QED
    BY <1>1, <1>2, LargestPicked, FastRank!EveryIndex

fastRanks(d, idx) == FastRank!Fold(idx, d, [r \in Ranks |-> r], 1..Len(c.route[1]))
LEMMA FastRanksAre ==
    ASSUME NEW d, NEW idx
    PROVE  FoldLeft(LAMBDA e, r : fastRank(e, r, idx), d, [r \in Ranks |-> r]) = fastRanks(d, idx)
  BY FastRanksIsFold DEF fastRanks
LEMMA FastRanksDone ==
    ASSUME Sized, NEW idx, NEW d, DevShape(d)
    PROVE  DevShape(fastRanks(d, idx))
  BY FastRanksShape DEF Sized, fastRanks

LEMMA ResidentIsFold ==
    ASSUME NEW d
    PROVE  FoldLeft(residentRank, d, [r \in Ranks |-> r])
           = Resident!Fold({}, d, [r \in Ranks |-> r], 1..Len(c.route[1]))
  BY DEF FoldLeft, MapThenFoldSet, Max, Resident!Fold, Resident!MapThenFoldSet, Largest, residentOp, Tokens, Ranks

LEMMA ResidentRankShape ==
    ASSUME NEW d, DevShape(d), NEW r
    PROVE  DevShape(residentRank(d, r))
  BY PutAllDev DEF residentRank, kQ35MoeAccumScaled, Each

LEMMA ResidentFoldShape ==
    ASSUME Sized, NEW m, NEW d, DevShape(d), NEW n \in Nat, NEW f
    PROVE  DevShape(Resident!Fold(m, d, f, 1..n))
  <1> DEFINE A == {i \in 0..n : DevShape(Resident!Fold(m, d, f, 1..i))}
  <1>1. 0 \in A
    BY LargestPicked, Resident!FoldEmpty
  <1>2. ASSUME NEW i \in 1..n, i - 1 \in A
        PROVE  i \in A
    <2>1. Resident!Fold(m, d, f, 1..i) = residentRank(Resident!Fold(m, d, f, 1..(i - 1)), f[i])
      BY LargestPicked, Resident!FoldNext DEF residentOp
    <2> QED
      BY <1>2, <2>1, ResidentRankShape
  <1> QED
    BY <1>1, <1>2, LargestPicked, Resident!EveryIndex

\* The resident ranks.
LEMMA ResidentShape ==
    ASSUME Sized, NEW d, DevShape(d)
    PROVE  DevShape(FoldLeft(residentRank, d, [r \in Ranks |-> r]))
  BY ResidentIsFold, ResidentFoldShape DEF Sized

LEMMA DownShape ==
    ASSUME NEW d, DevShape(d), NEW r, NEW idx
    PROVE  DevShape(downR(d, r, idx))
  BY DEF downR, DevShape, RowsShape, QuantShape

LEMMA DownFoldShape ==
    ASSUME Sized, NEW idx, NEW d, DevShape(d), NEW n \in Nat, NEW f
    PROVE  DevShape(Downing!Fold(idx, d, f, 1..n))
  <1> DEFINE A == {i \in 0..n : DevShape(Downing!Fold(idx, d, f, 1..i))}
  <1>1. 0 \in A
    BY LargestPicked, Downing!FoldEmpty
  <1>2. ASSUME NEW i \in 1..n, i - 1 \in A
        PROVE  i \in A
    <2>1. Downing!Fold(idx, d, f, 1..i) = downR(Downing!Fold(idx, d, f, 1..(i - 1)), f[i], idx)
      BY LargestPicked, Downing!FoldNext DEF downOp
    <2> QED
      BY <1>2, <2>1, DownShape
  <1> QED
    BY <1>1, <1>2, LargestPicked, Downing!EveryIndex

listOp(ranks, r, idx) == listed(ranks, r, idx)
LOCAL Listing == INSTANCE FoldTheorems WITH Op <- listOp, Pick <- Largest

residentRanks(idx) == FoldLeft(LAMBDA l, r : listed(l, r, idx), <<>>, [r \in Ranks |-> r])

\* The list of the resident ranks is a sequence.
LEMMA ListedRanks ==
    ASSUME Sized, NEW idx
    PROVE  residentRanks(idx) \in Seq(Nat)
  <1> DEFINE n == Len(c.route[1])
             f == [r \in Ranks |-> r]
             A == {i \in 0..n : Listing!Fold(idx, <<>>, f, 1..i) \in Seq(Nat)}
  <1>1. residentRanks(idx) = Listing!Fold(idx, <<>>, f, 1..n)
    BY DEF residentRanks, FoldLeft, MapThenFoldSet, Max, Listing!Fold, Listing!MapThenFoldSet, Largest, listOp, Ranks
  <1>2. n \in Nat /\ \A i \in 1..n : f[i] = i
    BY DEF Sized, Ranks
  <1>3. Listing!WellOrdered /\ Listing!PicksLargest
    BY Least DEF Listing!WellOrdered, Listing!PicksLargest, Max, Largest
  <1> HIDE DEF n, f
  <1>4. 0 \in A
    <2>1. 1..0 = {} /\ <<>> \in Seq(Nat) /\ 0 \in 0..n
      BY <1>2
    <2>2. Listing!Fold(idx, <<>>, f, {}) = <<>>
      BY <1>3, Listing!FoldEmpty
    <2> QED
      BY <2>1, <2>2
  <1>5. ASSUME NEW i \in 1..n, i - 1 \in A
        PROVE  i \in A
    <2> DEFINE s == Listing!Fold(idx, <<>>, f, 1..(i - 1))
    <2>1. Listing!Fold(idx, <<>>, f, 1..i) = listed(s, f[i], idx)
      BY <1>2, <1>3, Listing!FoldNext DEF listOp
    <2>2. s \in Seq(Nat)
      BY <1>5
    <2> HIDE DEF s
    <2>3. listed(s, i, idx) \in Seq(Nat)
      BY <1>2, <2>2 DEF listed
    <2> QED
      BY <1>2, <2>1, <2>3
  <1>6. n \in A
    BY <1>2, <1>4, <1>5, <1>3, Listing!EveryIndex
  <1> QED
    BY <1>1, <1>6

\* The launches of the resident experts.
LEMMA ScheduleShape ==
    ASSUME Sized, NEW d, DevShape(d), NEW idx
    PROVE  DevShape(scheduleResidentExperts(d, idx))
  <1> DEFINE ranks == residentRanks(idx)
             q == [d EXCEPT !.q8kN = Coded(ResidentFormat, Row(d, "norm", 1))]
             e == FoldLeft(LAMBDA v, r : downR(v, r, idx), q, ranks)
  <1>1. ranks \in Seq(Nat)
    BY ListedRanks
  <1>2. DevShape(q)
    BY DEF DevShape, RowsShape, QuantShape
  <1>3. scheduleResidentExperts(d, idx) \in {d, e}
    BY Zenon DEF scheduleResidentExperts, residentRanks
  <1> HIDE DEF ranks, q
  <1>4. e = Downing!Fold(idx, q, ranks, DOMAIN ranks)
    BY DEF FoldLeft, MapThenFoldSet, Max, Downing!Fold, Downing!MapThenFoldSet, Largest, downOp
  <1>5. DevShape(e)
    <2>1. DOMAIN ranks = 1..Len(ranks) /\ Len(ranks) \in Nat
      BY <1>1
    <2> HIDE DEF e
    <2> QED
      BY <1>2, <1>4, <2>1, DownFoldShape
  <1> HIDE DEF e
  <1> QED
    BY <1>3, <1>5

LEMMA SharedExpertShape ==
    ASSUME Sized, NEW d, DevShape(d)
    PROVE  DevShape(sharedExpert(d))
  <1> DEFINE gate == Each(d, "moeShexpGate", LAMBDA t : Sigmoid(Mul(W("ffnGateInpShexp"), Row(d, "norm", t))))
             g == Rows(gate, W("ffnGateShexp"), Type("shexp"), c.hidden, "norm", "moeShexpGateUp")
             u == Rows(g, W("ffnUpShexp"), Type("shexp"), c.hidden, "norm", "moeShexpGateUp2")
             b == kSiluMulRows(u, "moeShexpGateUp", "moeShexpGateUp2")
  <1>1. ASSUME NEW v, DevShape(v)
        PROVE  /\ DevShape(Rows(v, W("ffnGateShexp"), Type("shexp"), c.hidden, "norm", "moeShexpGateUp"))
               /\ DevShape(Rows(v, W("ffnUpShexp"), Type("shexp"), c.hidden, "norm", "moeShexpGateUp2"))
               /\ DevShape(Rows(v, W("ffnDownShexp"), Type("shexp"), c.expertFF, "moeShexpGateUp", "moeShexpDown"))
    BY <1>1, RowsOfShape DEF Sized
  <1>2. DevShape(gate)
    BY PutAllDev DEF Each
  <1>3. DevShape(g)
    <2> HIDE DEF gate
    <2> QED
      BY <1>1, <1>2
  <1>4. DevShape(u)
    <2> HIDE DEF g
    <2> QED
      BY <1>1, <1>3
  <1>5. DevShape(b)
    <2> HIDE DEF u
    <2> QED
      BY <1>4, KernelShapesMoe
  <1>6. sharedExpert(d) = Rows(b, W("ffnDownShexp"), Type("shexp"), c.expertFF, "moeShexpGateUp", "moeShexpDown")
    BY DEF sharedExpert
  <1> HIDE DEF b
  <1> QED
    BY <1>1, <1>5, <1>6

-----------------------------------------------------------------------------
(* The host.                                                               *)

\* The host's buffers keep their shape alike.
LEMMA PutHost ==
    ASSUME NEW h, HostShape(h), NEW b, NEW t, NEW x
    PROVE  HostShape(Put(h, b, t, x))
  BY PutRows DEF HostShape
LEMMA EachHost ==
    ASSUME NEW h, HostShape(h), NEW b, NEW f
    PROVE  HostShape(PutAll(h, b, f))
  BY PutAllRows DEF HostShape
LEMMA KernelShapesHost ==
    ASSUME NEW h, HostShape(h), NEW w, NEW b, NEW b2
    PROVE  /\ HostShape(rmsNorm(h, w, b, b2)) /\ HostShape(add(h, b)) /\ HostShape(addBias(h, b, b2))
           /\ HostShape(matMulVecBatch(h, w, b, b2)) /\ HostShape(gelu(h)) /\ HostShape(PostFFW(h))
  BY EachHost DEF rmsNorm, add, addBias, matMulVecBatch, gelu, PostFFW, Each
LEMMA GateUpShape ==
    ASSUME NEW h, HostShape(h), NEW applied
    PROVE  HostShape(GateUpRows(h, applied))
  BY EachHost DEF GateUpRows, Each
LEMMA GatedShape ==
    ASSUME NEW h, HostShape(h)
    PROVE  /\ HostShape(GatedRows(h, matMulVecFusedGateUp))
           /\ HostShape(GatedRows(h, matMulVecFusedGateUp_Batch))
  BY GateUpShape, KernelShapesHost DEF GatedRows, matMulVecFusedGateUp, matMulVecFusedGateUp_Batch
LEMMA HostHeadShape ==
    ASSUME NEW h, HostShape(h)
    PROVE  HostShape(HostHead(h))
  BY EachHost DEF HostHead, finalNorm, Each

\* g has the shape of h and the same rows of buffer b.
HostKept(h, g, b) == HostShape(g) /\ \A t \in Slots : Row(g, b, t) = Row(h, b, t)

\* A row written elsewhere leaves buffer b alone.
LEMMA PutKeeps ==
    ASSUME NEW h, NEW g, NEW b \in HostBuffers, HostKept(h, g, b), NEW b2, b2 # b, NEW t, NEW x
    PROVE  HostKept(h, Put(g, b2, t, x), b)
  <1>1. HostShape(Put(g, b2, t, x))
    BY PutHost DEF HostKept
  <1>2. \A s \in Slots : Row(Put(g, b2, t, x), b, s) = Row(g, b, s)
    BY DEF HostKept, HostShape, RowsShape, Put, Row
  <1> QED
    BY <1>1, <1>2 DEF HostKept

projectOp(h, i, m) == projectRow(h, i, m)
LOCAL Many == INSTANCE FoldTheorems WITH Op <- projectOp, Pick <- Largest
qkvOp(h, t, m) == QkvRow(h, t)
LOCAL Qkving == INSTANCE FoldTheorems WITH Op <- qkvOp, Pick <- Largest
outOp(h, t, m) == OutRow(h, t)
LOCAL Outing == INSTANCE FoldTheorems WITH Op <- outOp, Pick <- Largest
ffnOp(h, t, m) == FfnRow(h, t)
LOCAL Ffning == INSTANCE FoldTheorems WITH Op <- ffnOp, Pick <- Largest
recurOp(h, t, m) == RecurrentStep(h, t)
LOCAL Recurring == INSTANCE FoldTheorems WITH Op <- recurOp, Pick <- Largest
LEMMA LargestPickedHost ==
    /\ Many!WellOrdered /\ Many!PicksLargest
    /\ Qkving!WellOrdered /\ Qkving!PicksLargest
    /\ Outing!WellOrdered /\ Outing!PicksLargest
    /\ Ffning!WellOrdered /\ Ffning!PicksLargest
    /\ Recurring!WellOrdered /\ Recurring!PicksLargest
  BY Least DEF Many!WellOrdered, Many!PicksLargest, Qkving!WellOrdered, Qkving!PicksLargest,
      Outing!WellOrdered, Outing!PicksLargest, Ffning!WellOrdered, Ffning!PicksLargest,
      Recurring!WellOrdered, Recurring!PicksLargest, Max, Largest

LEMMA ProjectIsFold ==
    ASSUME NEW e, NEW m
    PROVE  FoldLeft(LAMBDA g, i : projectRow(g, i, m), e, [i \in 1..Len(m.names) |-> i])
           = Many!Fold(m, e, [i \in 1..Len(m.names) |-> i], 1..Len(m.names))
  BY DEF FoldLeft, MapThenFoldSet, Max, Many!Fold, Many!MapThenFoldSet, Largest, projectOp

\* The rows of a projection are not in buffer b.
Apart(names, rows, b) == Len(names) \in Nat /\ \A i \in 1..Len(names) : rows[i][1] # b

\* A projection writes its rows and, in a Prism model, the folded row.
LEMMA ProjectKeeps ==
    ASSUME NEW h, HostShape(h), NEW x, NEW names, NEW rows, NEW b \in HostBuffers, b # "prismAct",
           Apart(names, rows, b)
    PROVE  HostKept(h, Project(h, x, names, rows), b)
  <1> DEFINE e == applyPrismTransform(h, x, names = <<"ssmOut">>)
             m == [names |-> names, rows |-> rows, x |-> Operand(e, x)]
             n == Len(names)
             f == [i \in 1..Len(m.names) |-> i]
             A == {i \in 0..n : HostKept(h, Many!Fold(m, e, f, 1..i), b)}
  <1>1. Project(h, x, names, rows) = FoldLeft(LAMBDA g, i : projectRow(g, i, m), e, [i \in 1..Len(m.names) |-> i])
    BY Zenon DEF Project
  <1>2. m.names = names /\ m.rows = rows /\ \A i \in 1..n : f[i] = i
    OBVIOUS
  <1>3. HostKept(h, e, b)
    <2>1. HostKept(h, h, b)
      BY DEF HostKept
    <2> QED
      BY <2>1, PutKeeps DEF applyPrismTransform
  <1>4. Project(h, x, names, rows) = Many!Fold(m, e, f, 1..n)
    <2> HIDE DEF m, e
    <2> QED
      BY <1>1, <1>2, ProjectIsFold
  <1> HIDE DEF e, m, f, n
  <1>5. 0 \in A
    <2>1. 1..0 = {} /\ 0 \in 0..n
      BY DEF n, Apart
    <2>2. Many!Fold(m, e, f, {}) = e
      BY LargestPickedHost, Many!FoldEmpty
    <2> QED
      BY <1>3, <2>1, <2>2
  <1>6. ASSUME NEW i \in 1..n, i - 1 \in A
        PROVE  i \in A
    <2> DEFINE g == Many!Fold(m, e, f, 1..(i - 1))
    <2>1. Many!Fold(m, e, f, 1..i) = projectRow(g, i, m)
      BY <1>2, LargestPickedHost, Many!FoldNext DEF projectOp, n, Apart
    <2>2. HostKept(h, g, b) /\ m.rows[i][1] # b
      BY <1>2, <1>6 DEF n, Apart
    <2> HIDE DEF g
    <2>3. HostKept(h, projectRow(g, i, m), b)
      BY <2>2, PutKeeps DEF projectRow
    <2> QED
      BY <2>1, <2>3 DEF n
  <1>7. n \in A
    BY <1>5, <1>6, LargestPickedHost, Many!EveryIndex DEF n, Apart
  <1> QED
    BY <1>4, <1>7

LEMMA ProjectShape ==
    ASSUME NEW h, HostShape(h), NEW x, NEW names, NEW rows, Apart(names, rows, "hidden")
    PROVE  HostShape(Project(h, x, names, rows))
  <1>1. "hidden" \in HostBuffers /\ "hidden" # "prismAct"
    BY DEF HostBuffers
  <1> QED
    BY <1>1, ProjectKeeps DEF HostKept

LEMMA QkvShape ==
    ASSUME NEW h, HostShape(h), NEW t
    PROVE  HostShape(QkvRow(h, t))
  <1> DEFINE names == <<"attnQ", "attnK", "attnV">>
             rows == <<<<"qGate", t>>, <<"k", t>>, <<"v", t>>>>
  <1>1. Apart(names, rows, "hidden")
    BY DEF Apart
  <1>2. QkvRow(h, t) = Project(h, Row(h, "attnNorm", t), names, rows)
    BY DEF QkvRow
  <1> HIDE DEF names, rows
  <1> QED
    BY <1>1, <1>2, ProjectShape
LEMMA OutShape ==
    ASSUME NEW h, HostShape(h), NEW t
    PROVE  HostShape(OutRow(h, t))
  <1> DEFINE names == <<"attnO">>
             rows == <<<<"attnProj", t>>>>
  <1>1. Apart(names, rows, "hidden")
    BY DEF Apart
  <1>2. OutRow(h, t) = Project(h, Row(h, "attnOut", t), names, rows)
    BY DEF OutRow
  <1> HIDE DEF names, rows
  <1> QED
    BY <1>1, <1>2, ProjectShape
LEMMA FfnShape ==
    ASSUME NEW h, HostShape(h), NEW t
    PROVE  HostShape(FfnRow(h, t))
  <1> DEFINE names == <<"ffnGate", "ffnUp">>
             rows == <<<<"gate", t>>, <<"up", t>>>>
             downs == <<"ffnDown">>
             outs == <<<<"ffnOut", t>>>>
             p == Project(h, Row(h, "ffnNorm", t), names, rows)
             y == Times(Silu(Row(p, "gate", t)), Row(p, "up", t))
             q == Put(p, "gate", t, y)
  <1>1. Apart(names, rows, "hidden")
    BY DEF Apart
  <1>2. Apart(downs, outs, "hidden")
    BY DEF Apart
  <1>3. FfnRow(h, t) = Project(q, y, downs, outs)
    BY DEF FfnRow
  <1> HIDE DEF names, rows, downs, outs
  <1>4. HostShape(p)
    BY <1>1, ProjectShape
  <1> HIDE DEF p
  <1>5. HostShape(q)
    BY <1>4, PutHost
  <1> HIDE DEF q, y
  <1> QED
    BY <1>2, <1>3, <1>5, ProjectShape

\* The loops of the host over the tokens of the pass.
LEMMA QkvRowsShape ==
    ASSUME Sized, NEW h, HostShape(h)
    PROVE  HostShape(EachToken(QkvRow, h))
  <1> DEFINE f == [t \in Tokens |-> t]
             A == {i \in 0..pass.T : HostShape(Qkving!Fold({}, h, f, 1..i))}
  <1>1. EachToken(QkvRow, h) = Qkving!Fold({}, h, f, 1..pass.T)
    BY DEF EachToken, FoldLeft, MapThenFoldSet, Max, Qkving!Fold, Qkving!MapThenFoldSet, Largest, qkvOp, Tokens
  <1>2. 0 \in A
    <2>1. 1..0 = {} /\ 0 \in 0..pass.T
      BY DEF Sized
    <2> QED
      BY <2>1, LargestPickedHost, Qkving!FoldEmpty
  <1>3. ASSUME NEW i \in 1..pass.T, i - 1 \in A
        PROVE  i \in A
    <2>1. Qkving!Fold({}, h, f, 1..i) = QkvRow(Qkving!Fold({}, h, f, 1..(i - 1)), f[i])
      BY LargestPickedHost, Qkving!FoldNext DEF qkvOp, Sized
    <2> QED
      BY <1>3, <2>1, QkvShape
  <1>4. pass.T \in A
    <2>1. pass.T \in Nat
      BY DEF Sized
    <2> HIDE DEF A
    <2> QED
      BY <1>2, <1>3, <2>1, LargestPickedHost, Qkving!EveryIndex
  <1> HIDE DEF f
  <1>5. HostShape(Qkving!Fold({}, h, f, 1..pass.T))
    BY <1>4
  <1> QED
    BY <1>1, <1>5

LEMMA OutRowsShape ==
    ASSUME Sized, NEW h, HostShape(h)
    PROVE  HostShape(EachToken(OutRow, h))
  <1> DEFINE f == [t \in Tokens |-> t]
             A == {i \in 0..pass.T : HostShape(Outing!Fold({}, h, f, 1..i))}
  <1>1. EachToken(OutRow, h) = Outing!Fold({}, h, f, 1..pass.T)
    BY DEF EachToken, FoldLeft, MapThenFoldSet, Max, Outing!Fold, Outing!MapThenFoldSet, Largest, outOp, Tokens
  <1>2. 0 \in A
    <2>1. 1..0 = {} /\ 0 \in 0..pass.T
      BY DEF Sized
    <2> QED
      BY <2>1, LargestPickedHost, Outing!FoldEmpty
  <1>3. ASSUME NEW i \in 1..pass.T, i - 1 \in A
        PROVE  i \in A
    <2>1. Outing!Fold({}, h, f, 1..i) = OutRow(Outing!Fold({}, h, f, 1..(i - 1)), f[i])
      BY LargestPickedHost, Outing!FoldNext DEF outOp, Sized
    <2> QED
      BY <1>3, <2>1, OutShape
  <1>4. pass.T \in A
    <2>1. pass.T \in Nat
      BY DEF Sized
    <2> HIDE DEF A
    <2> QED
      BY <1>2, <1>3, <2>1, LargestPickedHost, Outing!EveryIndex
  <1> HIDE DEF f
  <1>5. HostShape(Outing!Fold({}, h, f, 1..pass.T))
    BY <1>4
  <1> QED
    BY <1>1, <1>5

LEMMA FfnRowsShape ==
    ASSUME Sized, NEW h, HostShape(h)
    PROVE  HostShape(EachToken(FfnRow, h))
  <1> DEFINE f == [t \in Tokens |-> t]
             A == {i \in 0..pass.T : HostShape(Ffning!Fold({}, h, f, 1..i))}
  <1>1. EachToken(FfnRow, h) = Ffning!Fold({}, h, f, 1..pass.T)
    BY DEF EachToken, FoldLeft, MapThenFoldSet, Max, Ffning!Fold, Ffning!MapThenFoldSet, Largest, ffnOp, Tokens
  <1>2. 0 \in A
    <2>1. 1..0 = {} /\ 0 \in 0..pass.T
      BY DEF Sized
    <2> QED
      BY <2>1, LargestPickedHost, Ffning!FoldEmpty
  <1>3. ASSUME NEW i \in 1..pass.T, i - 1 \in A
        PROVE  i \in A
    <2>1. Ffning!Fold({}, h, f, 1..i) = FfnRow(Ffning!Fold({}, h, f, 1..(i - 1)), f[i])
      BY LargestPickedHost, Ffning!FoldNext DEF ffnOp, Sized
    <2> QED
      BY <1>3, <2>1, FfnShape
  <1>4. pass.T \in A
    <2>1. pass.T \in Nat
      BY DEF Sized
    <2> HIDE DEF A
    <2> QED
      BY <1>2, <1>3, <2>1, LargestPickedHost, Ffning!EveryIndex
  <1> HIDE DEF f
  <1>5. HostShape(Ffning!Fold({}, h, f, 1..pass.T))
    BY <1>4
  <1> QED
    BY <1>1, <1>5

-----------------------------------------------------------------------------
(* What the launches of the recurrent layers put in their rows.            *)

\* e has the shape of d and the same rows of buffer b.
DevKept(d, e, b) == DevShape(e) /\ \A t \in Slots : Row(e, b, t) = Row(d, b, t)

LEMMA PutKeepsDev ==
    ASSUME NEW d, NEW e, NEW b \in DevBuffers, DevKept(d, e, b), NEW b2, b2 # b, NEW t, NEW x
    PROVE  DevKept(d, Put(e, b2, t, x), b)
  <1>1. DevShape(Put(e, b2, t, x))
    BY PutDev DEF DevKept
  <1>2. \A s \in Slots : Row(Put(e, b2, t, x), b, s) = Row(e, b, s)
    BY DEF DevKept, DevShape, RowsShape, Put, Row
  <1> QED
    BY <1>1, <1>2 DEF DevKept
LEMMA EachKeepsDev ==
    ASSUME NEW d, NEW e, NEW b \in DevBuffers, DevKept(d, e, b), NEW b2, b2 # b, NEW f
    PROVE  DevKept(d, PutAll(e, b2, f), b)
  <1>1. DevShape(PutAll(e, b2, f))
    BY PutAllDev DEF DevKept
  <1>2. \A s \in Slots : Row(PutAll(e, b2, f), b, s) = Row(e, b, s)
    BY DEF DevKept, DevShape, RowsShape, PutAll, Row
  <1> QED
    BY <1>1, <1>2 DEF DevKept

\* A launch with a matrix of a known type writes the product to its row.
Plain(type) == type \in KnownTypes /\ ~(c.prism /\ type = "PQ2_0")
LEMMA LaunchRow ==
    ASSUME NEW d, DevShape(d), NEW w, NEW type, Plain(type), NEW blocks \in Nat, NEW x,
           NEW b \in DevBuffers, NEW t \in Slots
    PROVE  Row(launchQGemv(d, w, type, blocks, x, b, t), b, t) = Mul(w, x)
  <1> DEFINE f == Wants(type)
             e == Quantize(d, f, x, blocks)
  <1>1. DevShape(e) /\ e.q8k.row = Coded(f, x)
    BY QuantizeShape
  <1>2. Product(w, type, x) = Mul(w, x)
    BY DEF Product, Plain
  <1>3. Dot(w, f, e.q8k.row) = Mul(w, x)
    BY <1>1 DEF Dot, Coded
  <1> HIDE DEF e, f
  <1>4. Row(Put(d, b, t, Mul(w, x)), b, t) = Mul(w, x) /\ Row(Put(e, b, t, Mul(w, x)), b, t) = Mul(w, x)
    BY <1>1, PutRow DEF DevShape
  <1> QED
    BY <1>2, <1>3, <1>4 DEF launchQGemv, e, f
\* A launch leaves the other buffers alone.
LEMMA LaunchKeeps ==
    ASSUME NEW d, NEW e, NEW b \in DevBuffers, DevKept(d, e, b), NEW w, NEW type, NEW blocks \in Nat, NEW x,
           NEW b2, NEW t, b2 # b
    PROVE  DevKept(d, launchQGemv(e, w, type, blocks, x, b2, t), b)
  <1> DEFINE f == Wants(type)
             q == Quantize(e, f, x, blocks)
  <1>1. DevKept(d, q, b)
    BY QuantizeShape DEF DevKept, Row
  <1> HIDE DEF q, f
  <1>2. ASSUME NEW y PROVE DevKept(d, Put(e, b2, t, y), b) /\ DevKept(d, Put(q, b2, t, y), b)
    BY <1>1, PutKeepsDev
  <1> QED
    BY <1>2 DEF launchQGemv, q, f

\* A launch leaves the other rows of its buffer alone.
LEMMA LaunchElse ==
    ASSUME NEW d, DevShape(d), NEW w, NEW type, NEW blocks \in Nat, NEW x, NEW b \in DevBuffers,
           NEW t, NEW s \in Slots, s # t
    PROVE  Row(launchQGemv(d, w, type, blocks, x, b, t), b, s) = Row(d, b, s)
  <1> DEFINE f == Wants(type)
             e == Quantize(d, f, x, blocks)
  <1>1. e.rows = d.rows
    BY QuantizeShape
  <1> HIDE DEF e, f
  <1>2. ASSUME NEW y
        PROVE  Row(Put(d, b, t, y), b, s) = Row(d, b, s) /\ Row(Put(e, b, t, y), b, s) = Row(d, b, s)
    <2>1. DevShape(e)
      BY QuantizeShape DEF e
    <2> QED
      BY <1>1, <2>1 DEF DevShape, RowsShape, Put, Row
  <1> QED
    BY <1>2 DEF launchQGemv, e, f

\* The two buffers of a projection.
Between(m) ==
    /\ m.from \in DevBuffers /\ m.to \in DevBuffers /\ m.from # m.to
    /\ "fold" \notin {m.from, m.to}

\* One launch of a projection writes the product to its row, whether the matrix
\* is stored rotated and its operand folded, or neither, and no other row.
LEMMA GemvRowWrites ==
    ASSUME Sized, NEW d, DevShape(d), NEW m, Between(m), Type(m.name) \in KnownTypes, NEW t \in Slots
    PROVE  /\ Row(gemvRow(d, t, m), m.to, t) = Mul(Weight(pass.L, m.name), Row(d, m.from, t))
           /\ \A s \in Slots : s # t => Row(gemvRow(d, t, m), m.to, s) = Row(d, m.to, s)
  <1> DEFINE w == Weight(pass.L, m.name)
             x == Row(d, m.from, t)
             y == Fold(m.name = "ssmOut", x)
             f == Put(d, "fold", 1, y)
             folded == launchQGemv(f, w, Type(m.name), Width(m.name), Row(f, "fold", 1), m.to, t)
             plain == launchQGemv(d, w, Type(m.name), Width(m.name), x, m.to, t)
  <1>1. "fold" \in DevBuffers /\ 1 \in Slots
    BY SizesAssumption DEF DevBuffers, Slots
  <1>2. DevShape(f) /\ Row(f, "fold", 1) = y /\ \A s \in Slots : Row(f, m.to, s) = Row(d, m.to, s)
    BY <1>1, PutDev, PutRow DEF DevShape, Between
  <1>3. gemvRow(d, t, m) = IF c.prism /\ Type(m.name) = "PQ2_0" THEN folded ELSE plain
    BY DEF gemvRow, prismFoldForward
  <1>4. m.to \in DevBuffers /\ Width(m.name) \in Nat
    BY WidthNat DEF Between
  <1>5. \A s \in Slots : s # t => Row(folded, m.to, s) = Row(d, m.to, s) /\ Row(plain, m.to, s) = Row(d, m.to, s)
    <2> HIDE DEF f
    <2> QED
      BY <1>2, <1>4, LaunchElse
  <1>6. ASSUME c.prism /\ Type(m.name) = "PQ2_0"
        PROVE  Row(folded, m.to, t) = Mul(w, x)
    <2>1. RotatedMul(w, y) = Mul(w, x)
      BY DEF RotatedMul, Fold, Weight
    <2>2. Product(w, "PQ2_0", y) = Mul(w, x)
      BY <1>6, <2>1 DEF Product
    <2>3. Wants("PQ2_0") = "float"
      BY DEF Wants, Q8KFamily
    <2> HIDE DEF f, w, x
    <2>4. folded = Put(f, m.to, t, Mul(w, x))
      BY <1>2, <1>6, <2>2, <2>3 DEF launchQGemv
    <2> QED
      BY <1>2, <1>4, <2>4, PutRow DEF DevShape
  <1>7. ASSUME ~(c.prism /\ Type(m.name) = "PQ2_0")
        PROVE  Row(plain, m.to, t) = Mul(w, x)
    BY <1>4, <1>7, LaunchRow DEF Plain
  <1> HIDE DEF w, x, folded, plain
  <1>8. /\ Row(gemvRow(d, t, m), m.to, t) = Mul(w, x)
        /\ \A s \in Slots : s # t => Row(gemvRow(d, t, m), m.to, s) = Row(d, m.to, s)
    BY <1>3, <1>5, <1>6, <1>7
  <1> QED
    BY <1>8 DEF w, x

\* It leaves every buffer alone but its own and the fold.
LEMMA GemvRowKeeps ==
    ASSUME Sized, NEW d, NEW e, NEW b \in DevBuffers, DevKept(d, e, b), NEW t, NEW m, b # m.to, b # "fold"
    PROVE  DevKept(d, gemvRow(e, t, m), b)
  <1> DEFINE f == prismFoldForward(e, Row(e, m.from, t), m.name = "ssmOut")
  <1>1. DevKept(d, f, b)
    BY PutKeepsDev DEF prismFoldForward
  <1> HIDE DEF f
  <1>2. ASSUME NEW g, DevKept(d, g, b), NEW x
        PROVE  DevKept(d, launchQGemv(g, Weight(pass.L, m.name), Type(m.name), Width(m.name), x, m.to, t), b)
    BY <1>2, LaunchKeeps, WidthNat
  <1> QED
    BY <1>1, <1>2 DEF f, gemvRow

\* A projection writes the product of every row of the pass to its buffer.
Projects(d, e, m) ==
    \A t \in Tokens : Row(e, m.to, t) = Mul(Weight(pass.L, m.name), Row(d, m.from, t))
ProjectsTo(d, e, m, n) ==
    \A t \in 1..n : Row(e, m.to, t) = Mul(Weight(pass.L, m.name), Row(d, m.from, t))

LEMMA GemvFold ==
    ASSUME NEW d, NEW name, NEW from, NEW to
    PROVE  \/ gemv(d, name, from, to)
              = Projecting!Fold([name |-> name, from |-> from, to |-> to], d, [t \in Tokens |-> t], 1..pass.T)
           \/ gemv(d, name, from, to)
              = PutAll(d, to, [t \in Tokens |-> Mul(Weight(pass.L, name), Row(d, from, t))])
  <1> DEFINE m == [name |-> name, from |-> from, to |-> to]
             e == FoldLeft(LAMBDA g, t : gemvRow(g, t, m), d, [t \in Tokens |-> t])
             b == PutAll(d, to, [t \in Tokens |-> Mul(Weight(pass.L, name), Row(d, from, t))])
  <1>1. gemv(d, name, from, to) \in {e, b}
    BY Zenon DEF gemv, Each
  <1>2. e = Projecting!Fold(m, d, [t \in Tokens |-> t], 1..pass.T)
    BY GemvIsFold
  <1> HIDE DEF e, m, b
  <1>3. gemv(d, name, from, to) = Projecting!Fold(m, d, [t \in Tokens |-> t], 1..pass.T) \/ gemv(d, name, from, to) = b
    BY <1>1, <1>2
  <1> QED
    BY <1>3 DEF m, b

\* After the loop every row of the pass holds the product of the row it came
\* from: no launch has touched the rows still to be read.
LEMMA GemvFoldRows ==
    ASSUME Sized, NEW m, Between(m), Type(m.name) \in KnownTypes, NEW d, DevShape(d)
    PROVE  Projects(d, Projecting!Fold(m, d, [t \in Tokens |-> t], 1..pass.T), m)
  <1> DEFINE f == [t \in Tokens |-> t]
             Upto(i) == Projecting!Fold(m, d, f, 1..i)
             A == {i \in 0..pass.T : DevKept(d, Upto(i), m.from) /\ ProjectsTo(d, Upto(i), m, i)}
  <1>0. pass.T \in Nat /\ (\A i \in 1..pass.T : f[i] = i /\ i \in Slots) /\ m.from \in DevBuffers
    BY SizesAssumption DEF Sized, Tokens, Slots, Between
  <1> HIDE DEF f
  <1>1. 0 \in A
    <2>1. 1..0 = {} /\ 0 \in 0..pass.T
      BY <1>0
    <2>2. Upto(0) = d
      BY <2>1, LargestPicked, Projecting!FoldEmpty
    <2> QED
      BY <2>1, <2>2 DEF DevKept, ProjectsTo
  <1>2. ASSUME NEW i \in 1..pass.T, i - 1 \in A
        PROVE  i \in A
    <2>1. Upto(i) = gemvRow(Upto(i - 1), f[i], m)
      BY <1>0, LargestPicked, Projecting!FoldNext DEF gemvOp
    <2>2. i \in Nat /\ f[i] = i /\ i \in Slots /\ DevKept(d, Upto(i - 1), m.from) /\ ProjectsTo(d, Upto(i - 1), m, i - 1)
      BY <1>0, <1>2
    <2> DEFINE g == Upto(i - 1)
               e == Upto(i)
    <2>3. e = gemvRow(g, i, m) /\ DevKept(d, g, m.from) /\ ProjectsTo(d, g, m, i - 1)
      BY <2>1, <2>2
    <2> HIDE DEF g, e, Upto
    <2>4. DevKept(d, e, m.from)
      BY <1>0, <2>2, <2>3, GemvRowKeeps DEF Between
    <2>5. /\ Row(e, m.to, i) = Mul(Weight(pass.L, m.name), Row(g, m.from, i))
          /\ \A s \in Slots : s # i => Row(e, m.to, s) = Row(g, m.to, s)
      BY <2>2, <2>3, GemvRowWrites DEF DevKept
    <2>6. ASSUME NEW t \in 1..i
          PROVE  Row(e, m.to, t) = Mul(Weight(pass.L, m.name), Row(d, m.from, t))
      <3>1. CASE t = i
        BY <2>2, <2>3, <2>5, <3>1 DEF DevKept
      <3>2. CASE t # i
        <4>1. t \in 1..(i - 1) /\ t \in 1..pass.T
          BY <1>0, <1>2, <3>2
        <4> QED
          BY <1>0, <2>3, <2>5, <3>2, <4>1 DEF ProjectsTo
      <3> QED
        BY <3>1, <3>2
    <2> QED
      BY <2>4, <2>6 DEF ProjectsTo, e
  <1>3. pass.T \in A
    <2> HIDE DEF A
    <2> QED
      BY <1>0, <1>1, <1>2, LargestPicked, Projecting!EveryIndex
  <1> QED
    BY <1>3 DEF Projects, ProjectsTo, Tokens, f

LEMMA GemvFoldKeeps ==
    ASSUME Sized, NEW m, NEW d, DevShape(d), NEW b \in DevBuffers, b # m.to, b # "fold"
    PROVE  DevKept(d, Projecting!Fold(m, d, [t \in Tokens |-> t], 1..pass.T), b)
  <1> DEFINE f == [t \in Tokens |-> t]
             A == {i \in 0..pass.T : DevKept(d, Projecting!Fold(m, d, f, 1..i), b)}
  <1>0. pass.T \in Nat
    BY DEF Sized
  <1> HIDE DEF f
  <1>1. 0 \in A
    <2>1. 1..0 = {} /\ 0 \in 0..pass.T
      BY <1>0
    <2> QED
      BY <2>1, LargestPicked, Projecting!FoldEmpty DEF DevKept
  <1>2. ASSUME NEW i \in 1..pass.T, i - 1 \in A
        PROVE  i \in A
    <2>1. Projecting!Fold(m, d, f, 1..i) = gemvRow(Projecting!Fold(m, d, f, 1..(i - 1)), f[i], m)
      BY <1>0, LargestPicked, Projecting!FoldNext DEF gemvOp
    <2> QED
      BY <1>0, <1>2, <2>1, GemvRowKeeps
  <1>3. pass.T \in A
    <2> HIDE DEF A
    <2> QED
      BY <1>0, <1>1, <1>2, LargestPicked, Projecting!EveryIndex
  <1> QED
    BY <1>3 DEF f

\* A projection leaves every buffer alone but its own and the fold.
LEMMA GemvKeeps ==
    ASSUME Sized, NEW d, NEW e, NEW b \in DevBuffers, DevKept(d, e, b), NEW name, NEW from, NEW to,
           b # to, b # "fold"
    PROVE  DevKept(d, gemv(e, name, from, to), b)
  <1> DEFINE m == [name |-> name, from |-> from, to |-> to]
             p == Projecting!Fold(m, e, [t \in Tokens |-> t], 1..pass.T)
             q == PutAll(e, to, [t \in Tokens |-> Mul(Weight(pass.L, name), Row(e, from, t))])
  <1>1. DevKept(e, p, b)
    <2>1. DevShape(e) /\ b # m.to
      BY DEF DevKept
    <2> HIDE DEF m
    <2> QED
      BY <2>1, GemvFoldKeeps
  <1>2. DevKept(d, q, b)
    BY EachKeepsDev
  <1>3. gemv(e, name, from, to) = p \/ gemv(e, name, from, to) = q
    BY GemvFold
  <1> HIDE DEF p, q
  <1> QED
    BY <1>1, <1>2, <1>3 DEF DevKept
\* A projection of a matrix of a known type writes the products.
LEMMA GemvRows ==
    ASSUME Sized, NEW d, DevShape(d), NEW name, Type(name) \in KnownTypes, NEW from, NEW to,
           Between([name |-> name, from |-> from, to |-> to])
    PROVE  \A t \in Tokens : Row(gemv(d, name, from, to), to, t) = Mul(Weight(pass.L, name), Row(d, from, t))
  <1> DEFINE m == [name |-> name, from |-> from, to |-> to]
             p == Projecting!Fold(m, d, [t \in Tokens |-> t], 1..pass.T)
             y == [t \in Tokens |-> Mul(Weight(pass.L, name), Row(d, from, t))]
             q == PutAll(d, to, y)
  <1>1. m.to = to /\ m.from = from /\ m.name = name /\ Between(m)
    OBVIOUS
  <1>2. gemv(d, name, from, to) = p \/ gemv(d, name, from, to) = q
    BY GemvFold
  <1>3. \A t \in Tokens : t \in Slots /\ y[t] = Mul(Weight(pass.L, name), Row(d, from, t))
    BY SizesAssumption DEF Tokens, Slots, Sized
  <1> HIDE DEF m, y
  <1>4. Projects(d, p, m)
    BY <1>1, GemvFoldRows
  <1>5. to \in DevBuffers
    BY <1>1 DEF Between
  <1>6. \A t \in Tokens : Row(q, to, t) = y[t]
    BY <1>3, <1>5, PutAllRow DEF DevShape
  <1> HIDE DEF p, q
  <1> QED
    BY <1>1, <1>2, <1>3, <1>4, <1>6 DEF Projects

-----------------------------------------------------------------------------
(* The recurrence.  RecAt(m, L, n): the window and the state m of layer L  *)
(* have seen the first n tokens.  Moved: what a token's row x, with its    *)
(* beta and gate, makes of them, on either engine.                         *)

RecAt(m, L, n) == m.conv = Window(c, L, n) /\ m.gdn = StateAt(c, L, n)
Moved(m, r, L, x, beta, gate) ==
    LET y == Silu(Conv(Weight(L, "ssmConv1d"), m.conv, x))
    IN  /\ r.conv = Append(Tail(m.conv), x)
        /\ r.gdn = Delta(m.gdn, Unit("k", y), Unit("v", y), beta, gate)
IsWindow(v) == \E S : v \in Seq(S) /\ Len(v) = c.convK - 1
Kernel == c.convK \in Nat \ {0, 1}

\* The element i of a window that has moved on by x.
LEMMA AppendTail ==
    ASSUME NEW S, NEW s \in Seq(S), s # <<>>, NEW x
    PROVE  /\ Append(Tail(s), x) \in Seq(S \cup {x}) /\ Len(Append(Tail(s), x)) = Len(s)
           /\ \A i \in 1..Len(s) : Append(Tail(s), x)[i] = IF i < Len(s) THEN s[i + 1] ELSE x
  <1>1. PICK n \in Nat : n = Len(s) /\ n > 0
    OBVIOUS
  <1> DEFINE u == Tail(s)
             T == S \cup {x}
  <1>2. u \in Seq(T) /\ Len(u) = n - 1 /\ \A i \in 1..(n - 1) : u[i] = s[i + 1]
    BY <1>1
  <1> HIDE DEF u
  <1>3. /\ Append(u, x) \in Seq(T) /\ Len(Append(u, x)) = n
        /\ \A i \in 1..n : Append(u, x)[i] = IF i < n THEN u[i] ELSE x
    BY <1>1, <1>2
  <1> QED
    BY <1>1, <1>2, <1>3 DEF u

\* A window that has moved on has the same length.
LEMMA WindowMoves ==
    ASSUME Kernel, NEW v, IsWindow(v), NEW x
    PROVE  IsWindow(Append(Tail(v), x))
  <1>1. PICK S : v \in Seq(S) /\ Len(v) = c.convK - 1
    BY DEF IsWindow
  <1>2. v # <<>>
    BY <1>1 DEF Kernel
  <1> QED
    BY <1>1, <1>2, AppendTail DEF IsWindow

\* The window after n + 1 tokens is the one after n moved on by the next row.
LEMMA WindowNext ==
    ASSUME Kernel, NEW L, NEW p \in Nat
    PROVE  Append(Tail(Window(c, L, p)), QKVOf(L, p)) = Window(c, L, p + 1)
  <1> DEFINE e(i) == IF p - c.convK + i >= 0 THEN QKVOf(L, p - c.convK + i) ELSE Zeros
             s == [i \in 1..(c.convK - 1) |-> e(i)]
             S == {e(i) : i \in 1..(c.convK - 1)}
             w == Window(c, L, p + 1)
             z == QKVOf(L, p)
  <1>1. PICK n \in Nat : n = c.convK - 1 /\ n > 0
    BY DEF Kernel
  <1>2. s = Window(c, L, p) /\ s \in Seq(S) /\ Len(s) = n /\ s # <<>>
    <2>1. s = Window(c, L, p)
      BY DEF Window
    <2>2. s \in Seq(S) /\ Len(s) = n
      BY <1>1
    <2> QED
      BY <1>1, <2>1, <2>2
  <1>3. \A i \in 1..n : w[i] = IF i < n THEN s[i + 1] ELSE z
    <2> SUFFICES ASSUME NEW i \in 1..n
                 PROVE  w[i] = IF i < n THEN s[i + 1] ELSE z
      OBVIOUS
    <2>1. w[i] = IF (p + 1) - c.convK + i >= 0 THEN QKVOf(L, (p + 1) - c.convK + i) ELSE Zeros
      <3>1. w = [j \in 1..(c.convK - 1) |-> IF (p + 1) - c.convK + j >= 0
                                            THEN QKVOf(L, (p + 1) - c.convK + j) ELSE Zeros]
        BY DEF Window
      <3>2. i \in 1..(c.convK - 1)
        BY <1>1
      <3> QED
        BY <3>1, <3>2
    <2>2. CASE i < n
      <3>1. i + 1 \in 1..(c.convK - 1) /\ (p + 1) - c.convK + i = p - c.convK + (i + 1)
        BY <1>1, <2>2 DEF Kernel
      <3>2. s[i + 1] = IF p - c.convK + (i + 1) >= 0 THEN QKVOf(L, p - c.convK + (i + 1)) ELSE Zeros
        BY <3>1
      <3> QED
        BY <2>1, <2>2, <3>1, <3>2
    <2>3. CASE i = n
      <3>1. (p + 1) - c.convK + i = p
        BY <1>1, <2>3 DEF Kernel
      <3> QED
        BY <2>1, <2>3, <3>1
    <2> QED
      BY <1>1, <2>2, <2>3
  <1>4. DOMAIN w = 1..n /\ w = [i \in 1..n |-> w[i]]
    BY <1>1 DEF Window
  <1> HIDE DEF s, S, w, z
  <1> DEFINE a == Append(Tail(s), z)
  <1>5. a \in Seq(S \cup {z}) /\ Len(a) = n /\ \A i \in 1..n : a[i] = IF i < n THEN s[i + 1] ELSE z
    BY <1>2, AppendTail
  <1> HIDE DEF a
  <1>6. a = [i \in 1..n |-> a[i]]
    <2>1. PICK k \in Nat : a \in [1..k -> S \cup {z}]
      BY <1>5, SeqDef
    <2>2. k = n
      BY <1>1, <1>5, <2>1
    <2> QED
      BY <2>1, <2>2
  <1>7. \A i \in 1..n : a[i] = w[i]
    BY <1>3, <1>5
  <1>8. a = w
    BY <1>4, <1>6, <1>7
  <1> QED
    BY <1>2, <1>8 DEF a, w, z

stepOp(S, p, at) == StateStep(S, p, at)
LOCAL Advancing == INSTANCE FoldTheorems WITH Op <- stepOp, Pick <- Largest
LEMMA LargestAdvancing ==
    Advancing!WellOrdered /\ Advancing!PicksLargest
  BY Least DEF Advancing!WellOrdered, Advancing!PicksLargest, Max, Largest

LEMMA StateAtIsFold ==
    ASSUME NEW d, NEW L, NEW n
    PROVE  StateAt(d, L, n)
           = Advancing!Fold([config |-> d, layer |-> L], Zeros, [m \in 1..n |-> m - 1], 1..n)
  BY DEF StateAt, FoldLeft, MapThenFoldSet, Max, Advancing!Fold, Advancing!MapThenFoldSet, Largest, stepOp

\* The state after n + 1 tokens is the delta rule applied to the one after n.
LEMMA StateNext ==
    ASSUME NEW d, NEW L, NEW n \in Nat
    PROVE  StateAt(d, L, n + 1) = StateStep(StateAt(d, L, n), n, [config |-> d, layer |-> L])
  <1> DEFINE at == [config |-> d, layer |-> L]
             f == [m \in 1..n |-> m - 1]
             g == [m \in 1..(n + 1) |-> m - 1]
  <1>1. StateAt(d, L, n) = Advancing!Fold(at, Zeros, f, 1..n)
    BY StateAtIsFold
  <1>2. StateAt(d, L, n + 1) = Advancing!Fold(at, Zeros, g, 1..(n + 1))
    BY StateAtIsFold
  <1>3. n + 1 \in Nat /\ n + 1 # 0 /\ (n + 1) - 1 = n /\ g[n + 1] = n /\ \A i \in 1..n : g[i] = f[i]
    OBVIOUS
  <1> HIDE DEF at, f, g
  <1>4. Advancing!Fold(at, Zeros, g, 1..(n + 1)) = StateStep(Advancing!Fold(at, Zeros, g, 1..n), n, at)
    <2>1. Advancing!Fold(at, Zeros, g, 1..(n + 1))
          = stepOp(Advancing!Fold(at, Zeros, g, 1..((n + 1) - 1)), g[n + 1], at)
      BY <1>3, LargestAdvancing, Advancing!FoldNext
    <2> QED
      BY <1>3, <2>1 DEF stepOp
  <1>5. Advancing!Fold(at, Zeros, g, 1..n) = Advancing!Fold(at, Zeros, f, 1..n)
    <2>1. Advancing!Ranked(1..n) /\ Advancing!Picks(1..n)
      BY LargestAdvancing, Advancing!LargestOf
    <2> QED
      BY <1>3, <2>1, LargestAdvancing, Advancing!FoldSame
  <1> QED
    BY <1>1, <1>2, <1>4, <1>5 DEF at

\* A token's step on its own row, beta and gate goes from n tokens to n + 1.
LEMMA RecNext ==
    ASSUME Kernel, NEW L, NEW n \in Nat, NEW m, NEW r, RecAt(m, L, n),
           Moved(m, r, L, QKVOf(L, n), BetaOf(L, n), GateOf(L, n))
    PROVE  RecAt(r, L, n + 1)
  <1> DEFINE at == [config |-> c, layer |-> L]
             y == Silu(Conv(Weight(L, "ssmConv1d"), Window(c, L, n), QKVOf(L, n)))
             S == StateAt(c, L, n)
  <1>1. r.conv = Window(c, L, n + 1)
    BY WindowNext DEF RecAt, Moved
  <1>2. r.gdn = Delta(S, Unit("k", y), Unit("v", y), BetaOf(L, n), GateOf(L, n))
    BY DEF RecAt, Moved
  <1>3. StateStep(S, n, at) = Delta(S, Unit("k", y), Unit("v", y), BetaOf(L, n), GateOf(L, n))
    BY DEF StateStep, Convolved
  <1>4. StateAt(c, L, n + 1) = StateStep(S, n, at)
    BY StateNext
  <1> QED
    BY <1>1, <1>2, <1>3, <1>4 DEF RecAt

\* A fresh window and a zero state have seen no tokens.
LEMMA RecStart ==
    ASSUME Kernel, NEW L
    PROVE  RecAt([conv |-> [i \in 1..(c.convK - 1) |-> Zeros], gdn |-> Zeros], L, 0)
  <1>1. Window(c, L, 0) = [i \in 1..(c.convK - 1) |-> Zeros]
    BY DEF Window, Kernel
  <1>2. StateAt(c, L, 0) = Zeros
    <2>1. StateAt(c, L, 0) = Advancing!Fold([config |-> c, layer |-> L], Zeros, [m \in 1..0 |-> m - 1], 1..0)
      BY StateAtIsFold
    <2>2. 1..0 = {}
      OBVIOUS
    <2> QED
      BY <2>1, <2>2, LargestAdvancing, Advancing!FoldEmpty
  <1> QED
    BY <1>1, <1>2 DEF RecAt

-----------------------------------------------------------------------------
(* The recurrence on the device.                                           *)

Carries(m, body) == {body, "conv", "gdn"} \subseteq DOMAIN m /\ IsWindow(m.conv)
Inputs == {"qkv", "q35Beta", "q35GateV"}

\* A token's step on the device reads its own rows and moves window and state on.
LEMMA TokenStepFacts ==
    ASSUME NEW m, Carries(m, "d"), DevShape(m.d), NEW t
    PROVE  /\ {"d", "conv", "gdn"} \subseteq DOMAIN TokenStep(m, t)
           /\ Moved(m, TokenStep(m, t), pass.L, Row(m.d, "qkv", t), Row(m.d, "q35Beta", t), Row(m.d, "q35GateV", t))
           /\ \A b \in Inputs : DevKept(m.d, TokenStep(m, t).d, b)
  <1> DEFINE x == Row(m.d, "qkv", t)
             y == Silu(Conv(Weight(pass.L, "ssmConv1d"), m.conv, x))
             e == Put(m.d, "convOut", 1, y)
             z == kQ35L2NormRepeat(Row(e, "convOut", 1))
             S == Delta(m.gdn, z.k, z.v, Row(e, "q35Beta", t), Row(e, "q35GateV", t))
             v == [m EXCEPT !.d = e, !.conv = Append(Tail(m.conv), x)]
             r == TokenStep(m, t)
  <1>1. 1 \in Slots /\ "convOut" \in DevBuffers /\ Inputs \subseteq DevBuffers /\ "convOut" \notin Inputs
        /\ "gdnOut" \notin Inputs
    BY SizesAssumption DEF Slots, DevBuffers, Inputs
  <1>2. DevShape(e) /\ Row(e, "convOut", 1) = y
    BY <1>1, PutDev, PutRow DEF DevShape
  <1>3. ASSUME NEW b \in Inputs
        PROVE  Row(e, b, t) = Row(m.d, b, t) /\ DevKept(m.d, e, b)
    <2>1. b # "convOut" /\ b \in DevBuffers /\ DevKept(m.d, m.d, b)
      BY <1>1 DEF DevKept
    <2> QED
      BY <2>1, PutKeepsDev DEF DevShape, RowsShape, Put, Row
  <1>4. kQ35ConvStep(m, t) = v
    BY DEF kQ35ConvStep
  <1>5. v.d = e /\ v.conv = Append(Tail(m.conv), x) /\ v.gdn = m.gdn /\ {"d", "conv", "gdn"} \subseteq DOMAIN v
    BY DEF Carries
  <1> HIDE DEF e, v
  <1>6. r = [v EXCEPT !.gdn = S, !.d = Put(e, "gdnOut", t, Read(S, z.q))]
    BY <1>4, <1>5 DEF TokenStep, kQ35GdnStepBatch
  <1>7. z.k = Unit("k", y) /\ z.v = Unit("v", y)
    BY <1>2 DEF kQ35L2NormRepeat
  <1>8. S = Delta(m.gdn, Unit("k", y), Unit("v", y), Row(m.d, "q35Beta", t), Row(m.d, "q35GateV", t))
    BY <1>3, <1>7 DEF Inputs
  <1> HIDE DEF z, S
  <1>9. /\ r.gdn = S /\ r.d = Put(e, "gdnOut", t, Read(S, z.q)) /\ r.conv = Append(Tail(m.conv), x)
        /\ {"d", "conv", "gdn"} \subseteq DOMAIN r
    BY <1>5, <1>6
  <1> HIDE DEF r
  <1>10. Moved(m, r, pass.L, Row(m.d, "qkv", t), Row(m.d, "q35Beta", t), Row(m.d, "q35GateV", t))
    BY <1>8, <1>9 DEF Moved
  <1>11. \A b \in Inputs : DevKept(m.d, r.d, b)
    BY <1>1, <1>3, <1>9, PutKeepsDev
  <1> QED
    BY <1>9, <1>10, <1>11 DEF r

tokenOp(m, t, at) == TokenStep(m, t)
LOCAL Scanning == INSTANCE FoldTheorems WITH Op <- tokenOp, Pick <- Largest
LEMMA LargestScanning ==
    Scanning!WellOrdered /\ Scanning!PicksLargest
  BY Least DEF Scanning!WellOrdered, Scanning!PicksLargest, Max, Largest

\* The rows of the pass, their beta and gate are those of its tokens, and the
\* layer has seen the tokens before.
DevFed ==
    /\ RecAt(rec[pass.L], pass.L, kvPos)
    /\ \A t \in Tokens : /\ Row(dev, "qkv", t) = QKVOf(pass.L, PosOf(t))
                         /\ Row(dev, "q35Beta", t) = BetaOf(pass.L, PosOf(t))
                         /\ Row(dev, "q35GateV", t) = GateOf(pass.L, PosOf(t))
DevScan(n) ==
    Scanning!Fold({}, [d |-> dev, conv |-> rec[pass.L].conv, gdn |-> rec[pass.L].gdn], [t \in Tokens |-> t], 1..n)
DevGood(m, n) ==
    /\ Carries(m, "d") /\ DevShape(m.d) /\ \A b \in Inputs : DevKept(dev, m.d, b)
    /\ DevFed => RecAt(m, pass.L, kvPos + n)

\* After n steps of the loop the layer has seen n tokens more.
LEMMA DevScanFacts ==
    ASSUME Sized, Kernel, kvPos \in Nat, DevShape(dev), IsWindow(rec[pass.L].conv)
    PROVE  DevGood(DevScan(pass.T), pass.T)
  <1> DEFINE base == [d |-> dev, conv |-> rec[pass.L].conv, gdn |-> rec[pass.L].gdn]
             f == [t \in Tokens |-> t]
             A == {i \in 0..pass.T : DevGood(DevScan(i), i)}
  <1>0. pass.T \in Nat /\ \A i \in 1..pass.T : f[i] = i /\ i \in Tokens /\ i \in Slots
    BY SizesAssumption DEF Sized, Tokens, Slots
  <1>1. 0 \in A
    <2>1. 1..0 = {} /\ 0 \in 0..pass.T /\ kvPos + 0 = kvPos
      BY <1>0
    <2>2. DevScan(0) = base
      BY <2>1, LargestScanning, Scanning!FoldEmpty DEF DevScan
    <2>3. DevGood(base, 0)
      BY <2>1 DEF DevGood, Carries, DevKept, DevFed, RecAt
    <2> QED
      BY <2>1, <2>2, <2>3
  <1>2. ASSUME NEW i \in 1..pass.T, i - 1 \in A
        PROVE  i \in A
    <2> DEFINE m == DevScan(i - 1)
               r == DevScan(i)
    <2>1. r = TokenStep(m, i)
      <3> HIDE DEF base
      <3>1. DevScan(i) = tokenOp(DevScan(i - 1), f[i], {})
        BY <1>0, LargestScanning, Scanning!FoldNext DEF DevScan
      <3> QED
        BY <1>0, <3>1 DEF tokenOp
    <2>2. DevGood(m, i - 1)
      BY <1>2
    <2> HIDE DEF m, r
    <2>3. /\ {"d", "conv", "gdn"} \subseteq DOMAIN r
          /\ Moved(m, r, pass.L, Row(m.d, "qkv", i), Row(m.d, "q35Beta", i), Row(m.d, "q35GateV", i))
          /\ \A b \in Inputs : DevKept(m.d, r.d, b)
      BY <2>1, <2>2, TokenStepFacts DEF DevGood
    <2>4. IsWindow(r.conv)
      BY <2>2, <2>3, WindowMoves DEF DevGood, Carries, Moved
    <2>5. DevShape(r.d) /\ \A b \in Inputs : DevKept(dev, r.d, b)
      BY <2>2, <2>3 DEF DevGood, DevKept, Inputs
    <2>6. ASSUME DevFed
          PROVE  RecAt(r, pass.L, kvPos + i)
      <3>1. PICK n \in Nat : n = kvPos + (i - 1) /\ n = PosOf(i) /\ n + 1 = kvPos + i
        BY <1>0 DEF PosOf
      <3>2. /\ Row(m.d, "qkv", i) = QKVOf(pass.L, n) /\ Row(m.d, "q35Beta", i) = BetaOf(pass.L, n)
            /\ Row(m.d, "q35GateV", i) = GateOf(pass.L, n)
        <4>1. \A b \in Inputs : Row(m.d, b, i) = Row(dev, b, i)
          BY <1>0, <2>2 DEF DevGood, DevKept
        <4> QED
          BY <1>0, <2>6, <3>1, <4>1 DEF DevFed, Inputs
      <3>3. RecAt(m, pass.L, n)
        BY <2>2, <2>6, <3>1 DEF DevGood
      <3>4. RecAt(r, pass.L, n + 1)
        BY <2>3, <3>2, <3>3, RecNext
      <3> QED
        BY <3>1, <3>4
    <2>7. DevGood(r, i)
      BY <2>3, <2>4, <2>5, <2>6 DEF DevGood, Carries
    <2> QED
      BY <2>7 DEF r
  <1>3. pass.T \in A
    <2> HIDE DEF A, f
    <2> QED
      BY <1>0, <1>1, <1>2, LargestScanning, Scanning!EveryIndex
  <1> QED
    BY <1>3

\* The loop of the model is that fold.
LEMMA RecurrenceScan ==
    FoldLeft(TokenStep, [d |-> dev, conv |-> rec[pass.L].conv, gdn |-> rec[pass.L].gdn], [t \in Tokens |-> t])
      = DevScan(pass.T)
  BY DEF DevScan, FoldLeft, MapThenFoldSet, Max, Scanning!Fold, Scanning!MapThenFoldSet, Largest, tokenOp, Tokens

\* The projections of a recurrent layer.
LEMMA ProjectionRows ==
    ASSUME Sized, Knows(c), NEW d, DevShape(d), NEW x,
           \A t \in Tokens : Row(d, "norm", t) = x[t]
    PROVE  LET qkvz == gemv(gemv(d, "attnQKV", "norm", "qkv"), "attnGate", "norm", "q35z")
               e == kQ35BetaGate(gemv(gemv(qkvz, "ssmBeta", "norm", "q35Beta"), "ssmAlpha", "norm", "q35GateV"))
           IN  \A t \in Tokens :
                  /\ Row(e, "qkv", t) = Mul(Weight(pass.L, "attnQKV"), x[t])
                  /\ Row(e, "q35Beta", t) = Sigmoid(Mul(Weight(pass.L, "ssmBeta"), x[t]))
                  /\ Row(e, "q35GateV", t) = Softplus(Weight(pass.L, "ssmA"), Mul(Weight(pass.L, "ssmAlpha"), x[t]))
  <1> DEFINE p == gemv(d, "attnQKV", "norm", "qkv")
             q == gemv(p, "attnGate", "norm", "q35z")
             u == gemv(q, "ssmBeta", "norm", "q35Beta")
             v == gemv(u, "ssmAlpha", "norm", "q35GateV")
             bs == [t \in Tokens |-> Sigmoid(Row(v, "q35Beta", t))]
             w == PutAll(v, "q35Beta", bs)
             gs == [t \in Tokens |-> Softplus(Weight(pass.L, "ssmA"), Row(v, "q35GateV", t))]
             e == PutAll(w, "q35GateV", gs)
             NormKept(g) == DevKept(d, g, "norm")
  <1>1. {"norm", "qkv", "q35Beta", "q35GateV", "q35z"} \subseteq DevBuffers /\ \A t \in Tokens : t \in Slots
    BY SizesAssumption DEF DevBuffers, Sized, Tokens, Slots
  <1>2. /\ Between([name |-> "attnQKV", from |-> "norm", to |-> "qkv"])
        /\ Between([name |-> "ssmBeta", from |-> "norm", to |-> "q35Beta"])
        /\ Between([name |-> "ssmAlpha", from |-> "norm", to |-> "q35GateV"])
    BY <1>1 DEF Between
  <1>3. Type("attnQKV") \in KnownTypes /\ Type("ssmBeta") \in KnownTypes /\ Type("ssmAlpha") \in KnownTypes
    BY DEF Knows, Type
  <1>4. NormKept(d)
    BY DEF DevKept
  <1>5. NormKept(p) /\ \A t \in Tokens : Row(p, "qkv", t) = Mul(Weight(pass.L, "attnQKV"), x[t])
    BY <1>1, <1>2, <1>3, <1>4, GemvKeeps, GemvRows
  <1> HIDE DEF p
  <1>6. NormKept(q) /\ DevKept(p, q, "qkv")
    BY <1>1, <1>5, GemvKeeps DEF DevKept
  <1> HIDE DEF q
  <1>7. /\ NormKept(u) /\ DevKept(p, u, "qkv")
        /\ \A t \in Tokens : Row(u, "q35Beta", t) = Mul(Weight(pass.L, "ssmBeta"), x[t])
    <2>1. DevShape(q) /\ \A t \in Tokens : Row(q, "norm", t) = x[t]
      BY <1>1, <1>6 DEF DevKept
    <2>2. \A t \in Tokens : Row(u, "q35Beta", t) = Mul(Weight(pass.L, "ssmBeta"), Row(q, "norm", t))
      BY <1>2, <1>3, <2>1, GemvRows
    <2> QED
      BY <1>1, <1>6, <2>1, <2>2, GemvKeeps
  <1> HIDE DEF u
  <1>8. /\ DevKept(p, v, "qkv") /\ DevKept(u, v, "q35Beta")
        /\ \A t \in Tokens : Row(v, "q35GateV", t) = Mul(Weight(pass.L, "ssmAlpha"), x[t])
    <2>1. DevShape(u) /\ (\A t \in Tokens : Row(u, "norm", t) = x[t]) /\ DevKept(u, u, "q35Beta")
      BY <1>1, <1>7 DEF DevKept
    <2>2. \A t \in Tokens : Row(v, "q35GateV", t) = Mul(Weight(pass.L, "ssmAlpha"), Row(u, "norm", t))
      BY <1>2, <1>3, <2>1, GemvRows
    <2> QED
      BY <1>1, <1>7, <2>1, <2>2, GemvKeeps
  <1> HIDE DEF v
  <1>9. DevShape(v) /\ DevShape(w)
    BY <1>8, PutAllDev DEF DevKept
  <1>10. /\ \A t \in Tokens : Row(w, "q35Beta", t) = bs[t]
         /\ \A t \in Tokens : Row(w, "qkv", t) = Row(v, "qkv", t)
    BY <1>1, <1>9, PutAllRow DEF DevShape
  <1> HIDE DEF w
  <1>11. /\ \A t \in Tokens : Row(e, "q35GateV", t) = gs[t]
         /\ \A t \in Tokens : Row(e, "qkv", t) = Row(w, "qkv", t)
         /\ \A t \in Tokens : Row(e, "q35Beta", t) = Row(w, "q35Beta", t)
    BY <1>1, <1>9, PutAllRow DEF DevShape
  <1>12. e = kQ35BetaGate(v)
    BY DEF kQ35BetaGate, Each, w
  <1>13. \A t \in Tokens :
           /\ Row(e, "qkv", t) = Mul(Weight(pass.L, "attnQKV"), x[t])
           /\ Row(e, "q35Beta", t) = Sigmoid(Mul(Weight(pass.L, "ssmBeta"), x[t]))
           /\ Row(e, "q35GateV", t) = Softplus(Weight(pass.L, "ssmA"), Mul(Weight(pass.L, "ssmAlpha"), x[t]))
    <2> SUFFICES ASSUME NEW t \in Tokens
                 PROVE  /\ Row(e, "qkv", t) = Mul(Weight(pass.L, "attnQKV"), x[t])
                        /\ Row(e, "q35Beta", t) = Sigmoid(Mul(Weight(pass.L, "ssmBeta"), x[t]))
                        /\ Row(e, "q35GateV", t) = Softplus(Weight(pass.L, "ssmA"), Mul(Weight(pass.L, "ssmAlpha"), x[t]))
      OBVIOUS
    <2>1. bs[t] = Sigmoid(Row(v, "q35Beta", t)) /\ gs[t] = Softplus(Weight(pass.L, "ssmA"), Row(v, "q35GateV", t))
      OBVIOUS
    <2> HIDE DEF e, bs, gs
    <2> QED
      BY <1>1, <1>5, <1>7, <1>8, <1>10, <1>11, <2>1 DEF DevKept
  <1> QED
    BY <1>12, <1>13 DEF p, q, u, v

-----------------------------------------------------------------------------
(* The recurrence on the host.                                             *)

\* One projection more.
LEMMA ProjectNext ==
    ASSUME NEW m, NEW e, NEW f, NEW n \in Nat, n # 0
    PROVE  Many!Fold(m, e, f, 1..n) = projectRow(Many!Fold(m, e, f, 1..(n - 1)), f[n], m)
  BY LargestPickedHost, Many!FoldNext DEF projectOp

\* The operand of a Prism model is the folded row.
LEMMA OperandRow ==
    ASSUME NEW h, HostShape(h), NEW x, NEW perm
    PROVE  Operand(applyPrismTransform(h, x, perm), x) = IF c.prism THEN Fold(perm, x) ELSE x
  <1>1. "prismAct" \in HostBuffers /\ 1 \in Slots
    BY SizesAssumption DEF HostBuffers, Slots
  <1>2. Row(Put(h, "prismAct", 1, Fold(perm, x)), "prismAct", 1) = Fold(perm, x)
    <2>1. PICK y : y = Fold(perm, x)
      OBVIOUS
    <2>2. Row(Put(h, "prismAct", 1, y), "prismAct", 1) = y
      BY <1>1, PutRow DEF HostShape
    <2> QED
      BY <2>1, <2>2
  <1> QED
    BY <1>2 DEF Operand, applyPrismTransform
\* A matrix stored rotated times the row folded the same way is the product.
LEMMA FoldedProduct ==
    ASSUME NEW w, NEW x, NEW perm, perm <=> (w[3] = "ssmOut"), perm \in BOOLEAN
    PROVE  RotatedMul(w, Fold(perm, x)) = Mul(w, x)
  <1>1. perm = (w[3] = "ssmOut")
    BY Zenon
  <1>2. PICK y : y = Fold(perm, x)
    OBVIOUS
  <1>3. y[1] = "fold" /\ y[2] = perm /\ y[3] = x
    BY <1>2 DEF Fold
  <1>4. y[2] = (w[3] = "ssmOut")
    BY Zenon, <1>1, <1>3
  <1>5. RotatedMul(w, y) = Mul(w, x)
    BY <1>3, <1>4 DEF RotatedMul
  <1> QED
    BY <1>2, <1>5

\* The first of two projections of a folded row.
LEMMA ProjectedQkv ==
    ASSUME NEW h, HostShape(h), NEW x
    PROVE  LET p == Project(h, x, <<"attnQKV", "attnGate">>, <<<<"qkv", 1>>, <<"z", 1>>>>)
           IN  /\ HostKept(h, p, "attnNorm")
               /\ Knows(c) => Row(p, "qkv", 1) = Mul(W("attnQKV"), x)
  <1> DEFINE names == <<"attnQKV", "attnGate">>
             rows == <<<<"qkv", 1>>, <<"z", 1>>>>
             p == Project(h, x, names, rows)
             perm == names = <<"ssmOut">>
             e == applyPrismTransform(h, x, perm)
             y == Operand(e, x)
             m == [names |-> names, rows |-> rows, x |-> y]
             f == [i \in 1..Len(m.names) |-> i]
             g1 == Put(e, "qkv", 1, matMulVec("attnQKV", y))
             g2 == Put(g1, "z", 1, matMulVec("attnGate", y))
  <1>1. {"qkv", "z", "attnNorm", "prismAct"} \subseteq HostBuffers /\ 1 \in Slots
    BY SizesAssumption DEF HostBuffers, Slots
  <1>2. HostKept(h, p, "attnNorm")
    <2>1. Apart(names, rows, "attnNorm")
      BY DEF Apart
    <2> HIDE DEF names, rows
    <2> QED
      BY <1>1, <2>1, ProjectKeeps
  <1>3. p = g2
    <2>1. p = FoldLeft(LAMBDA g, i : projectRow(g, i, m), e, [i \in 1..Len(m.names) |-> i])
      BY Zenon DEF Project
    <2>2. /\ Len(m.names) = 2 /\ f[1] = 1 /\ f[2] = 2 /\ m.x = y
          /\ m.names[1] = "attnQKV" /\ m.names[2] = "attnGate"
          /\ m.rows[1] = <<"qkv", 1>> /\ m.rows[2] = <<"z", 1>>
      OBVIOUS
    <2> HIDE DEF m, e, y
    <2>3. p = Many!Fold(m, e, f, 1..2)
      <3>1. FoldLeft(LAMBDA g, i : projectRow(g, i, m), e, [i \in 1..Len(m.names) |-> i])
            = Many!Fold(m, e, f, 1..Len(m.names))
        BY ProjectIsFold
      <3> HIDE DEF f
      <3> QED
        BY <2>1, <2>2, <3>1
    <2> HIDE DEF f, p
    <2>4. Many!Fold(m, e, f, 1..2) = projectRow(Many!Fold(m, e, f, 1..1), 2, m)
      <3>1. PICK n \in Nat : n = 2 /\ n # 0 /\ n - 1 = 1
        OBVIOUS
      <3>2. Many!Fold(m, e, f, 1..n) = projectRow(Many!Fold(m, e, f, 1..(n - 1)), f[n], m)
        BY <3>1, ProjectNext
      <3> QED
        BY <2>2, <3>1, <3>2
    <2>5. Many!Fold(m, e, f, 1..1) = projectRow(e, 1, m)
      <3>1. PICK n \in Nat : n = 1 /\ n # 0 /\ 1..(n - 1) = {}
        OBVIOUS
      <3>2. Many!Fold(m, e, f, 1..n) = projectRow(Many!Fold(m, e, f, 1..(n - 1)), f[n], m)
        BY <3>1, ProjectNext
      <3>4. Many!Fold(m, e, f, {}) = e
        BY LargestPickedHost, Many!FoldEmpty
      <3> QED
        BY <2>2, <3>1, <3>2, <3>4
    <2>6. projectRow(e, 1, m) = g1
      BY <2>2 DEF projectRow
    <2>7. projectRow(g1, 2, m) = g2
      <3> HIDE DEF g1
      <3> QED
        BY <2>2 DEF projectRow
    <2> QED
      BY <2>3, <2>4, <2>5, <2>6, <2>7
  <1>4. ~perm
    OBVIOUS
  <1>5. HostShape(e)
    BY PutHost DEF applyPrismTransform
  <1>6. ASSUME Knows(c)
        PROVE  matMulVec("attnQKV", y) = Mul(W("attnQKV"), x)
    <2>1. CASE c.prism
      <3>1. y = Fold(perm, x)
        <4> HIDE DEF perm
        <4> QED
          BY <2>1, OperandRow
      <3>2. Type("attnQKV") = "PQ2_0"
        BY <1>6, <2>1 DEF Knows, Type
      <3> HIDE DEF y
      <3>3. matMulVec("attnQKV", y) = RotatedMul(W("attnQKV"), y)
        BY <2>1, <3>2 DEF matMulVec
      <3>4. W("attnQKV")[3] # "ssmOut"
        BY DEF W, Weight
      <3>5. perm \in BOOLEAN
        BY Zenon
      <3> HIDE DEF perm
      <3>6. RotatedMul(W("attnQKV"), Fold(perm, x)) = Mul(W("attnQKV"), x)
        BY <1>4, <3>4, <3>5, FoldedProduct
      <3> QED
        BY <3>1, <3>3, <3>6
    <2>2. CASE ~c.prism
      BY <2>2 DEF Operand, matMulVec
    <2> QED
      BY <2>1, <2>2
  <1> HIDE DEF e, y
  <1>7. Row(g1, "qkv", 1) = matMulVec("attnQKV", y) /\ HostShape(g1)
    BY <1>1, <1>5, PutRow, PutHost DEF HostShape
  <1> HIDE DEF g1
  <1>8. Row(g2, "qkv", 1) = Row(g1, "qkv", 1)
    BY <1>1, <1>7, PutRow DEF HostShape
  <1> QED
    BY <1>2, <1>3, <1>6, <1>7, <1>8

\* The rows that a token's step feeds the convolution and the delta rule.
Feeds(m, r, x) ==
    \E q, beta, gate :
       /\ Moved(m, r, pass.L, q, beta, gate)
       /\ Knows(c) => /\ q = Mul(W("attnQKV"), x)
                      /\ beta = Sigmoid(Mul(W("ssmBeta"), x))
                      /\ gate = Softplus(W("ssmA"), Mul(W("ssmAlpha"), x))

\* A token's step on the host feeds the recurrence its projections.
LEMMA HostStepFacts ==
    ASSUME NEW m, Carries(m, "h"), HostShape(m.h), NEW t
    PROVE  /\ {"h", "conv", "gdn"} \subseteq DOMAIN RecurrentStep(m, t)
           /\ Feeds(m, RecurrentStep(m, t), Row(m.h, "attnNorm", t))
           /\ HostKept(m.h, RecurrentStep(m, t).h, "attnNorm")
  <1> DEFINE x == Row(m.h, "attnNorm", t)
             p == Project(m.h, x, <<"attnQKV", "attnGate">>, <<<<"qkv", 1>>, <<"z", 1>>>>)
             beta == Sigmoid(matMulVec("ssmBeta", x))
             gate == Softplus(W("ssmA"), matMulVec("ssmAlpha", x))
             b == Put(p, "beta", 1, beta)
             g == Put(b, "gateV", 1, gate)
             q == Row(g, "qkv", 1)
             y == Silu(Conv(W("ssmConv1d"), m.conv, q))
             e == Put(g, "convOut", 1, y)
             v == [m EXCEPT !.h = e, !.conv = Append(Tail(m.conv), q)]
             S == Delta(m.gdn, Unit("k", y), Unit("v", y), beta, gate)
             r == RecurrentStep(m, t)
  <1>1. {"qkv", "beta", "gateV", "convOut", "attnNorm", "normOut"} \subseteq HostBuffers /\ 1 \in Slots
    BY SizesAssumption DEF HostBuffers, Slots
  <1>2. HostKept(m.h, p, "attnNorm") /\ (Knows(c) => Row(p, "qkv", 1) = Mul(W("attnQKV"), x))
    <2> HIDE DEF x
    <2> QED
      BY ProjectedQkv
  <1>3. v = ConvStep(m, t)
    BY Zenon DEF ConvStep
  <1> HIDE DEF p, beta, gate, x
  <1>4. HostKept(m.h, b, "attnNorm") /\ Row(b, "beta", 1) = beta /\ Row(b, "qkv", 1) = Row(p, "qkv", 1)
    BY <1>1, <1>2, PutKeeps, PutRow DEF HostKept, HostShape
  <1> HIDE DEF b
  <1>5. /\ HostKept(m.h, g, "attnNorm") /\ Row(g, "beta", 1) = beta /\ Row(g, "gateV", 1) = gate
        /\ Row(g, "qkv", 1) = Row(p, "qkv", 1)
    BY <1>1, <1>4, PutKeeps, PutRow DEF HostKept, HostShape
  <1> HIDE DEF g
  <1>6. /\ HostKept(m.h, e, "attnNorm") /\ Row(e, "beta", 1) = beta /\ Row(e, "gateV", 1) = gate
        /\ Row(e, "convOut", 1) = y
    BY <1>1, <1>5, PutKeeps, PutRow DEF HostKept, HostShape
  <1>7. v.h = e /\ v.conv = Append(Tail(m.conv), q) /\ v.gdn = m.gdn /\ {"h", "conv", "gdn"} \subseteq DOMAIN v
    BY DEF Carries
  <1> HIDE DEF e, v, q
  <1> DEFINE n == Times(Norm(W("ssmNorm"), Read(S, Unit("q", y))), Silu(Row(e, "z", 1)))
             k == Put(e, "normOut", 1, n)
             o == Project(k, n, <<"ssmOut">>, <<<<"attnProj", t>>>>)
  <1>8. r = [v EXCEPT !.gdn = S, !.h = o]
    <2>1. r = GdnStep(v, t)
      BY <1>3 DEF RecurrentStep
    <2> HIDE DEF r
    <2> QED
      BY <1>6, <1>7, <2>1 DEF GdnStep
  <1>9. HostKept(m.h, o, "attnNorm")
    <2>1. HostKept(m.h, k, "attnNorm")
      BY <1>1, <1>6, PutKeeps
    <2> DEFINE names == <<"ssmOut">>
               rows == <<<<"attnProj", t>>>>
    <2>2. Apart(names, rows, "attnNorm")
      BY DEF Apart
    <2> HIDE DEF names, rows, k, n
    <2>3. HostKept(k, Project(k, n, names, rows), "attnNorm")
      BY <1>1, <2>1, <2>2, ProjectKeeps DEF HostKept
    <2> QED
      BY <2>1, <2>3 DEF HostKept, names, rows
  <1> HIDE DEF o, S, y
  <1>10. r.gdn = S /\ r.h = o /\ r.conv = Append(Tail(m.conv), q) /\ {"h", "conv", "gdn"} \subseteq DOMAIN r
    BY <1>7, <1>8
  <1> HIDE DEF r
  <1>11. Moved(m, r, pass.L, q, beta, gate)
    BY <1>10 DEF Moved, S, y, W
  <1>12. ASSUME Knows(c)
         PROVE  /\ q = Mul(W("attnQKV"), x) /\ beta = Sigmoid(Mul(W("ssmBeta"), x))
                /\ gate = Softplus(W("ssmA"), Mul(W("ssmAlpha"), x))
    <2>1. matMulVec("ssmBeta", x) = Mul(W("ssmBeta"), x) /\ matMulVec("ssmAlpha", x) = Mul(W("ssmAlpha"), x)
      BY <1>12 DEF Knows, Type, matMulVec
    <2> QED
      BY <1>2, <1>5, <1>12, <2>1 DEF q, beta, gate
  <1>13. Feeds(m, r, x)
    BY <1>11, <1>12 DEF Feeds
  <1> QED
    BY <1>9, <1>10, <1>13 DEF r, x

\* The rows of the pass are those of its tokens, and the layer has seen the
\* tokens before.
HostFed ==
    /\ Knows(c) /\ RecAt(rec[pass.L], pass.L, kvPos)
    /\ \A t \in Tokens : Row(host, "attnNorm", t) = AttnIn(pass.L, PosOf(t))
HostScan(n) ==
    Recurring!Fold({}, [h |-> host, conv |-> rec[pass.L].conv, gdn |-> rec[pass.L].gdn], [t \in Tokens |-> t], 1..n)
HostGood(m, n) ==
    /\ Carries(m, "h") /\ HostKept(host, m.h, "attnNorm")
    /\ HostFed => RecAt(m, pass.L, kvPos + n)

\* After n steps of the loop the layer has seen n tokens more.
LEMMA HostScanFacts ==
    ASSUME Sized, Kernel, kvPos \in Nat, HostShape(host), IsWindow(rec[pass.L].conv)
    PROVE  HostGood(HostScan(pass.T), pass.T)
  <1> DEFINE base == [h |-> host, conv |-> rec[pass.L].conv, gdn |-> rec[pass.L].gdn]
             f == [t \in Tokens |-> t]
             A == {i \in 0..pass.T : HostGood(HostScan(i), i)}
  <1>0. pass.T \in Nat /\ \A i \in 1..pass.T : f[i] = i /\ i \in Tokens /\ i \in Slots
    BY SizesAssumption DEF Sized, Tokens, Slots
  <1>1. 0 \in A
    <2>1. 1..0 = {} /\ 0 \in 0..pass.T /\ kvPos + 0 = kvPos
      BY <1>0
    <2>2. HostScan(0) = base
      BY <2>1, LargestPickedHost, Recurring!FoldEmpty DEF HostScan
    <2>3. HostGood(base, 0)
      BY <2>1 DEF HostGood, Carries, HostKept, HostFed, RecAt
    <2> QED
      BY <2>1, <2>2, <2>3
  <1>2. ASSUME NEW i \in 1..pass.T, i - 1 \in A
        PROVE  i \in A
    <2> DEFINE m == HostScan(i - 1)
               r == HostScan(i)
    <2>1. r = RecurrentStep(m, i)
      <3> HIDE DEF base
      <3>1. HostScan(i) = recurOp(HostScan(i - 1), f[i], {})
        BY <1>0, LargestPickedHost, Recurring!FoldNext DEF HostScan
      <3> QED
        BY <1>0, <3>1 DEF recurOp
    <2>2. HostGood(m, i - 1)
      BY <1>2
    <2> HIDE DEF m, r
    <2>3. /\ {"h", "conv", "gdn"} \subseteq DOMAIN r /\ Feeds(m, r, Row(m.h, "attnNorm", i))
          /\ HostKept(m.h, r.h, "attnNorm")
      BY <2>1, <2>2, HostStepFacts DEF HostGood, HostKept
    <2>4. PICK q, beta, gate :
             /\ Moved(m, r, pass.L, q, beta, gate)
             /\ Knows(c) => /\ q = Mul(W("attnQKV"), Row(m.h, "attnNorm", i))
                            /\ beta = Sigmoid(Mul(W("ssmBeta"), Row(m.h, "attnNorm", i)))
                            /\ gate = Softplus(W("ssmA"), Mul(W("ssmAlpha"), Row(m.h, "attnNorm", i)))
      BY <2>3 DEF Feeds
    <2>5. IsWindow(r.conv)
      BY <2>2, <2>4, WindowMoves DEF HostGood, Carries, Moved
    <2>6. HostKept(host, r.h, "attnNorm")
      BY <2>2, <2>3 DEF HostGood, HostKept
    <2>7. ASSUME HostFed
          PROVE  RecAt(r, pass.L, kvPos + i)
      <3>1. PICK n \in Nat : n = kvPos + (i - 1) /\ n = PosOf(i) /\ n + 1 = kvPos + i
        BY <1>0 DEF PosOf
      <3>2. Row(m.h, "attnNorm", i) = AttnIn(pass.L, n)
        BY <1>0, <2>2, <2>7, <3>1 DEF HostGood, HostKept, HostFed
      <3>3. q = QKVOf(pass.L, n) /\ beta = BetaOf(pass.L, n) /\ gate = GateOf(pass.L, n)
        BY <2>4, <2>7, <3>2 DEF HostFed, QKVOf, BetaOf, GateOf, W
      <3>4. RecAt(m, pass.L, n)
        BY <2>2, <2>7, <3>1 DEF HostGood
      <3>5. RecAt(r, pass.L, n + 1)
        BY <2>4, <3>3, <3>4, RecNext
      <3> QED
        BY <3>1, <3>5
    <2>8. HostGood(r, i)
      BY <2>3, <2>5, <2>6, <2>7 DEF HostGood, Carries
    <2> QED
      BY <2>8 DEF r
  <1>3. pass.T \in A
    <2> HIDE DEF A, f
    <2> QED
      BY <1>0, <1>1, <1>2, LargestPickedHost, Recurring!EveryIndex
  <1> QED
    BY <1>3

\* The loop of the model is that fold.
LEMMA RecurrentScan ==
    EachToken(RecurrentStep, [h |-> host, conv |-> rec[pass.L].conv, gdn |-> rec[pass.L].gdn])
      = HostScan(pass.T)
  BY DEF EachToken, HostScan, FoldLeft, MapThenFoldSet, Max, Recurring!Fold, Recurring!MapThenFoldSet,
         Largest, recurOp, Tokens
-----------------------------------------------------------------------------
(* The head.                                                               *)

\* The head's launch for a row that the caller may read, folded or not, writes
\* the product to it.
LEMMA HeadProduct ==
    ASSUME Sized, NEW d, DevShape(d), Type("lmHead") \in KnownTypes, NEW t \in Slots, t \in LogitRows
    PROVE  Row(headRow(d, t), "logits", t) = Mul(Weight(0, "lmHead"), Row(d, "hidden", t))
  <1> DEFINE w == Weight(0, "lmHead")
             x == Row(d, "hidden", t)
             folded == launchQGemv(d, w, Type("lmHead"), c.hidden, Fold(FALSE, x), "logits", t)
             plain == launchQGemv(d, w, Type("lmHead"), c.hidden, x, "logits", t)
  <1>1. headRow(d, t) = IF c.prism /\ Type("lmHead") = "PQ2_0" THEN folded ELSE plain
    BY DEF headRow
  <1>2. "logits" \in DevBuffers /\ c.hidden \in Nat
    BY DEF DevBuffers, Sized
  <1>3. ASSUME c.prism /\ Type("lmHead") = "PQ2_0"
        PROVE  Row(folded, "logits", t) = Mul(w, x)
    <2>1. PICK y : y = Fold(FALSE, x)
      OBVIOUS
    <2>2. RotatedMul(w, y) = Mul(w, x)
      <3>1. w[3] # "ssmOut" /\ y[1] = "fold" /\ y[2] = FALSE /\ y[3] = x
        BY <2>1 DEF Weight, Fold
      <3>2. y[2] = (w[3] = "ssmOut")
        BY Zenon, <3>1
      <3> HIDE DEF w, x
      <3> QED
        BY <3>1, <3>2 DEF RotatedMul
    <2>3. Product(w, "PQ2_0", y) = Mul(w, x)
      BY <1>3, <2>2 DEF Product
    <2>4. Wants("PQ2_0") = "float"
      BY DEF Wants, Q8KFamily
    <2>6. folded = launchQGemv(d, w, Type("lmHead"), c.hidden, y, "logits", t)
      BY <2>1
    <2> HIDE DEF w, x, folded
    <2>5. folded = Put(d, "logits", t, Mul(w, x))
      BY <1>3, <2>3, <2>4, <2>6 DEF launchQGemv
    <2> QED
      BY <1>2, <2>5, PutRow DEF DevShape
  <1>4. ASSUME ~(c.prism /\ Type("lmHead") = "PQ2_0")
        PROVE  Row(plain, "logits", t) = Mul(w, x)
    BY <1>2, <1>4, LaunchRow DEF Plain
  <1> HIDE DEF w, x, folded, plain
  <1>5. Row(headRow(d, t), "logits", t) = Mul(w, x)
    BY <1>1, <1>3, <1>4
  <1> QED
    BY <1>5 DEF w, x

\* It leaves the rows of hidden and the other rows of logits alone.
LEMMA HeadRowKeeps ==
    ASSUME Sized, NEW d, NEW e, DevKept(d, e, "hidden"), NEW t
    PROVE  /\ DevKept(d, headRow(e, t), "hidden")
           /\ \A s \in Slots : s # t => Row(headRow(e, t), "logits", s) = Row(e, "logits", s)
  <1>1. "logits" \in DevBuffers /\ "hidden" \in DevBuffers /\ c.hidden \in Nat /\ DevShape(e)
    BY DEF DevBuffers, Sized, DevKept
  <1>2. PICK x : headRow(e, t) \in {launchQGemv(e, Weight(0, "lmHead"), Type("lmHead"), c.hidden, x, "logits", t), e}
    BY Zenon DEF headRow
  <1>3. DevKept(d, launchQGemv(e, Weight(0, "lmHead"), Type("lmHead"), c.hidden, x, "logits", t), "hidden")
    BY <1>1, LaunchKeeps
  <1>4. \A s \in Slots : s # t =>
            Row(launchQGemv(e, Weight(0, "lmHead"), Type("lmHead"), c.hidden, x, "logits", t), "logits", s) = Row(e, "logits", s)
    BY <1>1, LaunchElse
  <1> QED
    BY <1>2, <1>3, <1>4

\* The head writes the product of every row that it is asked for.
HeadTo(d, e, n) ==
    \A t \in 1..n : t \in LogitRows => Row(e, "logits", t) = Mul(Weight(0, "lmHead"), Row(d, "hidden", t))
\* So the loop over the tokens writes every row that the caller may read.
LEMMA HeadFoldRows ==
    ASSUME Sized, Type("lmHead") \in KnownTypes, NEW d, DevShape(d)
    PROVE  HeadTo(d, FoldLeft(headRow, d, [t \in Tokens |-> t]), pass.T)
  <1> DEFINE f == [t \in Tokens |-> t]
             Upto(i) == Heading!Fold({}, d, f, 1..i)
             A == {i \in 0..pass.T : DevKept(d, Upto(i), "hidden") /\ HeadTo(d, Upto(i), i)}
  <1>0. pass.T \in Nat /\ (\A i \in 1..pass.T : f[i] = i /\ i \in Slots)
    BY SizesAssumption DEF Sized, Tokens, Slots
  <1> HIDE DEF f
  <1>1. 0 \in A
    <2>1. 1..0 = {} /\ 0 \in 0..pass.T
      BY <1>0
    <2>2. Upto(0) = d
      BY <2>1, LargestPicked, Heading!FoldEmpty
    <2> QED
      BY <2>1, <2>2 DEF DevKept, HeadTo
  <1>2. ASSUME NEW i \in 1..pass.T, i - 1 \in A
        PROVE  i \in A
    <2>1. Upto(i) = headRow(Upto(i - 1), f[i])
      BY <1>0, LargestPicked, Heading!FoldNext DEF headOp
    <2>2. i \in Nat /\ f[i] = i /\ i \in Slots /\ DevKept(d, Upto(i - 1), "hidden") /\ HeadTo(d, Upto(i - 1), i - 1)
      BY <1>0, <1>2
    <2> DEFINE g == Upto(i - 1)
               e == Upto(i)
    <2>3. e = headRow(g, i) /\ DevKept(d, g, "hidden") /\ HeadTo(d, g, i - 1)
      BY <2>1, <2>2
    <2> HIDE DEF g, e, Upto
    <2>4. DevKept(d, e, "hidden") /\ \A s \in Slots : s # i => Row(e, "logits", s) = Row(g, "logits", s)
      BY <2>3, HeadRowKeeps
    <2>5. i \in LogitRows => Row(e, "logits", i) = Mul(Weight(0, "lmHead"), Row(g, "hidden", i))
      BY <2>2, <2>3, HeadProduct DEF DevKept
    <2>6. ASSUME NEW t \in 1..i, t \in LogitRows
          PROVE  Row(e, "logits", t) = Mul(Weight(0, "lmHead"), Row(d, "hidden", t))
      <3>1. CASE t = i
        BY <2>2, <2>3, <2>5, <2>6, <3>1 DEF DevKept
      <3>2. CASE t # i
        <4>1. t \in 1..(i - 1) /\ t \in 1..pass.T
          BY <1>0, <1>2, <3>2
        <4> QED
          BY <1>0, <2>3, <2>4, <2>6, <3>2, <4>1 DEF HeadTo
      <3> QED
        BY <3>1, <3>2
    <2> QED
      BY <2>4, <2>6 DEF HeadTo, e
  <1>3. pass.T \in A
    <2> HIDE DEF A
    <2> QED
      BY <1>0, <1>1, <1>2, LargestPicked, Heading!EveryIndex
  <1>4. HeadTo(d, Upto(pass.T), pass.T)
    BY <1>3
  <1> QED
    BY <1>4, HeadIsFold DEF f

\* The final norm and the head of named rows.
Headed(t) == Mul(Weight(0, "lmHead"), Norm(Weight(0, "finalNorm"), X(LastLayer + 1, PosOf(t))))
\* The final norm of the rows that left the last layer.
LEMMA NormedRows ==
    ASSUME NEW B, NEW d, RowsShape(d, B), "hidden" \in B, NEW w, NEW t \in Slots, t \in Tokens
    PROVE  Row(PutAll(NamedRows(d), "hidden", [s \in Tokens |-> Norm(w, Row(NamedRows(d), "hidden", s))]), "hidden", t)
           = Norm(w, X(LastLayer + 1, PosOf(t)))
  <1> DEFINE f == [s \in Tokens |-> X(LastLayer + 1, PosOf(s))]
             n == PutAll(d, "hidden", f)
             g == [s \in Tokens |-> Norm(w, Row(n, "hidden", s))]
  <1>1. NamedRows(d) = n /\ f[t] = X(LastLayer + 1, PosOf(t)) /\ g[t] = Norm(w, Row(n, "hidden", t))
    BY DEF NamedRows, Each
  <1>2. PutAll(NamedRows(d), "hidden", [s \in Tokens |-> Norm(w, Row(NamedRows(d), "hidden", s))]) = PutAll(n, "hidden", g)
    BY <1>1
  <1> HIDE DEF f, g
  <1>3. RowsShape(n, B) /\ Row(n, "hidden", t) = f[t]
    BY PutAllRows, PutAllRow
  <1> HIDE DEF n
  <1>4. Row(PutAll(n, "hidden", g), "hidden", t) = g[t]
    BY <1>3, PutAllRow
  <1> QED
    BY <1>1, <1>2, <1>3, <1>4

\* The logits of a token on the device.
LEMMA DeviceHead ==
    ASSUME Sized, DevShape(dev), Type("lmHead") \in KnownTypes, NEW t \in Tokens, t \in LogitRows
    PROVE  Row(HeadOf(NamedRows(dev)), "logits", t) = Headed(t)
  <1> DEFINE w == Weight(0, "finalNorm")
             n == PutAll(NamedRows(dev), "hidden", [s \in Tokens |-> Norm(w, Row(NamedRows(dev), "hidden", s))])
             e == FoldLeft(headRow, n, [s \in Tokens |-> s])
  <1>1. HeadOf(NamedRows(dev)) = e
    BY DEF HeadOf, Each
  <1>2. t \in Slots /\ t \in 1..pass.T
    BY SizesAssumption DEF Sized, Tokens, Slots
  <1>3. Row(n, "hidden", t) = Norm(w, X(LastLayer + 1, PosOf(t)))
    BY <1>2, NormedRows DEF DevShape, DevBuffers
  <1>4. DevShape(n)
    BY PutAllDev DEF NamedRows, Each
  <1> HIDE DEF n, w
  <1>5. HeadTo(n, e, pass.T)
    BY <1>4, HeadFoldRows
  <1>6. Row(e, "logits", t) = Mul(Weight(0, "lmHead"), Row(n, "hidden", t))
    BY <1>2, <1>5 DEF HeadTo
  <1> HIDE DEF e
  <1> QED
    BY <1>1, <1>3, <1>6 DEF Headed, w

\* The logits of a token on the host, capped for Gemma 4.
LEMMA HostHeadRow ==
    ASSUME Sized, HostShape(host), NEW t \in Tokens, t >= logitStart
    PROVE  Row(HostHead(NamedRows(host)), "logits", t)
           = IF c.arch = "gemma4" /\ Has(c, "softcap") THEN Cap(Headed(t)) ELSE Headed(t)
  <1> DEFINE w == Weight(0, "finalNorm")
             n == PutAll(NamedRows(host), "hidden", [s \in Tokens |-> Norm(w, Row(NamedRows(host), "hidden", s))])
             f == [s \in Tokens |-> IF s >= logitStart THEN logitOf(n, s) ELSE Row(n, "logits", s)]
  <1>1. HostHead(NamedRows(host)) = PutAll(n, "logits", f) /\ f[t] = logitOf(n, t)
    BY DEF HostHead, finalNorm, Each
  <1>2. t \in Slots
    BY SizesAssumption DEF Sized, Tokens, Slots
  <1>3. Row(n, "hidden", t) = Norm(w, X(LastLayer + 1, PosOf(t)))
    BY <1>2, NormedRows DEF HostShape, HostBuffers
  <1>4. HostShape(n) /\ "logits" \in HostBuffers
    BY EachHost DEF NamedRows, Each, HostBuffers
  <1> HIDE DEF n, f, w
  <1>5. Row(PutAll(n, "logits", f), "logits", t) = f[t]
    BY <1>2, <1>4, PutAllRow DEF HostShape
  <1>6. logitOf(n, t) = IF c.arch = "gemma4" /\ Has(c, "softcap") THEN Cap(Headed(t)) ELSE Headed(t)
    <2> DEFINE v == Weight(0, "lmHead")
               x == Row(n, "hidden", t)
    <2>1. RotatedMul(v, Fold(FALSE, x)) = Mul(v, x)
      <3>1. (FALSE <=> (v[3] = "ssmOut")) /\ FALSE \in BOOLEAN
        BY DEF Weight
      <3> HIDE DEF v, x
      <3> QED
        BY <3>1, FoldedProduct
    <2>2. Headed(t) = Mul(v, x)
      BY <1>3 DEF Headed, w
    <2> HIDE DEF v, x
    <2> QED
      BY <2>1, <2>2 DEF logitOf, v, x
  <1> QED
    BY <1>1, <1>5, <1>6

-----------------------------------------------------------------------------
(* Shape of the state, action by action.                                    *)

NotYet == {"norm", "recurrent", "recurrence"}
PassOK(p) ==
    /\ {"T", "L", "stage", "engine", "fold"} \subseteq DOMAIN p
    /\ p.T \in 0..MaxBatch /\ p.L \in 0..LastLayer
    /\ p.stage = "idle" => p = Idle
    /\ p.stage \notin {"idle", "embed", "out"} => p.L # 0
    /\ p.stage # "idle" => p.engine \in {DeviceEngine, HostEngine}
CountOK(n, p) == n \in Nat /\ n + p.T <= MaxPos
KvOK(cache) == DOMAIN cache = Layers /\ \A L \in Layers : DOMAIN cache[L] = Positions
RecOK(r) ==
    /\ DOMAIN r = Layers
    /\ \A L \in Layers : r[L] = [conv |-> r[L].conv, gdn |-> r[L].gdn] /\ IsWindow(r[L].conv)
TypeInv ==
    /\ c \in Configs /\ DevShape(dev) /\ HostShape(host) /\ PassOK(pass) /\ CountOK(kvPos, pass)
    /\ KvOK(kv) /\ RecOK(rec)

\* A step within a layer that leaves the recurrent state alone.
Within(p, q) ==
    /\ {"T", "L", "stage", "engine", "fold"} \subseteq DOMAIN q
    /\ q.T = p.T /\ q.L = p.L /\ q.engine = p.engine
    /\ p.stage \notin {"idle", "embed", "out"} /\ q.stage \notin {"idle", "embed"}
Calm == pass'.stage \notin NotYet /\ (pass.stage \in NotYet => ~Recurrent(c, pass.L))
Framed == c' = c /\ kvPos' = kvPos /\ logits' = logits /\ Within(pass, pass')
Shaped == DevShape(dev') /\ HostShape(host') /\ KvOK(kv')
Quiet == Framed /\ Shaped /\ rec' = rec /\ Calm

\* The invariant gives the launches their sizes.
LEMMA SizedByType ==
    ASSUME TypeInv
    PROVE  Sized /\ Kernel /\ LastLayer \in 0..NumLayers /\ pass.T \in Nat /\ kvPos \in Nat
  BY SizesAssumption DEF TypeInv, Sized, Kernel, PassOK, CountOK, LastLayer

\* A step within a layer moves to the next stage of the same pass.
LEMMA StageMoves ==
    ASSUME TypeInv, NEW s, s \notin {"idle", "embed"}, pass.stage \notin {"idle", "embed", "out"},
           pass' = [pass EXCEPT !.stage = s]
    PROVE  Within(pass, pass') /\ pass'.stage = s
  BY DEF TypeInv, PassOK, Within

\* Only the hybrid engines work on layers with a recurrent state.
LEMMA DenseHasNoState ==
    ASSUME TypeInv, pass.stage # "idle", pass.engine \in {"dense", "cpu"}
    PROVE  ~Recurrent(c, pass.L)
  BY DEF TypeInv, PassOK, DeviceEngine, HostEngine, Recurrent

\* What the steps within a layer leave alone: the configuration, the position,
\* the logits, the pass but for its stage, and the recurrent state but for the
\* two recurrences.
LEMMA DenseFrame ==
    ASSUME TypeInv, DenseGPU
    PROVE  Framed /\ rec' = rec /\ Calm /\ host' = host
  <1>1. CASE AttnNorm
    <2>1. pass' = [pass EXCEPT !.stage = "qkv", !.fold = FoldsNorm /\ On("QKV_DP4A")] /\ pass.stage = "norm"
          /\ pass.engine = "dense"
      BY <1>1 DEF AttnNorm, Stage
    <2>2. Within(pass, pass') /\ pass'.stage = "qkv"
      BY <2>1 DEF TypeInv, PassOK, Within
    <2> QED
      BY <1>1, <2>1, <2>2, DenseHasNoState DEF AttnNorm, Framed, Calm, NotYet
  <1>2. CASE DenseAttention
    <2>1. pass' = [pass EXCEPT !.stage = "attnO", !.combine = combineQ81] /\ pass.stage = "attention"
      BY <1>2 DEF DenseAttention, Stage
    <2>2. Within(pass, pass') /\ pass'.stage = "attnO"
      BY <2>1 DEF TypeInv, PassOK, Within
    <2> QED
      BY <1>2, <2>1, <2>2 DEF DenseAttention, Framed, Calm, NotYet
  <1>3. CASE FfnNormRow
    <2>1. pass' = [pass EXCEPT !.stage = "gateUp", !.fold = FoldsNorm] /\ pass.stage = "ffn"
      BY <1>3 DEF FfnNormRow, Stage
    <2>2. Within(pass, pass') /\ pass'.stage = "gateUp"
      BY <2>1 DEF TypeInv, PassOK, Within
    <2> QED
      BY <1>3, <2>1, <2>2 DEF FfnNormRow, Framed, Calm, NotYet
  <1>4. CASE DecodeQKV
    <2>1. pass.stage = "qkv" /\ pass' = [pass EXCEPT !.stage = "attention"]
      BY <1>4 DEF DecodeQKV, Stage, Goto
    <2> QED
      BY <1>4, <2>1, StageMoves DEF DecodeQKV, Framed, Calm, NotYet
  <1>5. CASE PrefillQKV
    <2>1. pass.stage = "qkv" /\ pass' = [pass EXCEPT !.stage = "attention"]
      BY <1>5 DEF PrefillQKV, Stage, Goto
    <2> QED
      BY <1>5, <2>1, StageMoves DEF PrefillQKV, Framed, Calm, NotYet
  <1>6. CASE DecodeAttnO
    <2>1. pass.stage = "attnO" /\ pass' = [pass EXCEPT !.stage = "ffn"]
      BY <1>6 DEF DecodeAttnO, Stage, Goto
    <2> QED
      BY <1>6, <2>1, StageMoves DEF DecodeAttnO, Framed, Calm, NotYet
  <1>7. CASE PrefillAttnO
    <2>1. pass.stage = "attnO" /\ pass' = [pass EXCEPT !.stage = "ffn"]
      BY <1>7 DEF PrefillAttnO, Stage, Goto
    <2> QED
      BY <1>7, <2>1, StageMoves DEF PrefillAttnO, Framed, Calm, NotYet
  <1>8. CASE PersistentFFN
    <2>1. pass.stage = "ffn" /\ pass' = [pass EXCEPT !.stage = "out"]
      BY <1>8 DEF PersistentFFN, Stage, Goto
    <2> QED
      BY <1>8, <2>1, StageMoves DEF PersistentFFN, Framed, Calm, NotYet
  <1>9. CASE GateUp
    <2>1. pass.stage = "gateUp" /\ pass' = [pass EXCEPT !.stage = "down"]
      BY <1>9 DEF GateUp, Stage, Goto
    <2> QED
      BY <1>9, <2>1, StageMoves DEF GateUp, Framed, Calm, NotYet
  <1>10. CASE Down
    <2>1. pass.stage = "down" /\ pass' = [pass EXCEPT !.stage = "out"]
      BY <1>10 DEF Down, Stage, Goto
    <2> QED
      BY <1>10, <2>1, StageMoves DEF Down, Framed, Calm, NotYet
  <1> QED
    BY <1>1, <1>2, <1>3, <1>4, <1>5, <1>6, <1>7, <1>8, <1>9, <1>10 DEF DenseGPU

LEMMA HybridFrame ==
    ASSUME TypeInv, HybridGPU
    PROVE  /\ Framed /\ host' = host
           /\ HybridAttention \/ HybridFFN => rec' = rec /\ Calm
  <1>1. CASE HybridNorm
    <2>1. /\ pass.stage = "norm"
          /\ pass' = [pass EXCEPT !.stage = IF Recurrent(c, pass.L) THEN "recurrent" ELSE "attention"]
      BY <1>1 DEF HybridNorm, Stage, Goto
    <2>2. Within(pass, pass')
      BY <2>1, StageMoves
    <2> QED
      BY <1>1, <2>1, <2>2 DEF HybridNorm, HybridAttention, HybridFFN, Stage, Framed
  <1>2. CASE RecurrentProjections
    <2>1. pass.stage = "recurrent" /\ pass' = [pass EXCEPT !.stage = "recurrence"]
      BY <1>2 DEF RecurrentProjections, Stage, Goto
    <2> QED
      BY <1>2, <2>1, StageMoves DEF RecurrentProjections, HybridAttention, HybridFFN, Stage, Framed, Calm, NotYet
  <1>3. CASE Recurrence
    <2>1. pass.stage = "recurrence" /\ pass' = [pass EXCEPT !.stage = "ffn"]
      BY <1>3 DEF Recurrence, Stage, Goto
    <2> QED
      BY <1>3, <2>1, StageMoves DEF Recurrence, HybridAttention, HybridFFN, Stage, Framed, Calm, NotYet
  <1>4. CASE HybridAttention
    <2>1. pass.stage = "attention" /\ pass' = [pass EXCEPT !.stage = "ffn"]
      BY <1>4 DEF HybridAttention, Stage, Goto
    <2> QED
      BY <1>4, <2>1, StageMoves DEF HybridAttention, HybridAttention, HybridFFN, Stage, Framed, Calm, NotYet
  <1>5. CASE HybridFFN
    <2>1. pass.stage = "ffn" /\ pass' = [pass EXCEPT !.stage = "out"]
      BY <1>5 DEF HybridFFN, Stage, Goto
    <2> QED
      BY <1>5, <2>1, StageMoves DEF HybridFFN, HybridAttention, HybridFFN, Stage, Framed, Calm, NotYet
  <1> QED
    BY <1>1, <1>2, <1>3, <1>4, <1>5 DEF HybridGPU

LEMMA ExpertsFrame ==
    ASSUME TypeInv, ExpertsNext
    PROVE  Framed /\ rec' = rec /\ Calm /\ kv' = kv
  <1>1. CASE ExpertsOnDevice
    <2>1. /\ pass.stage = "ffn" /\ pass' = [pass EXCEPT !.stage = "out"]
          /\ UNCHANGED <<c, kv, rec, kvPos, logits>>
      BY <1>1 DEF ExpertsOnDevice, Stage, Goto
    <2> QED
      BY <2>1, StageMoves DEF Framed, Calm, NotYet
  <1>2. CASE HandOff
    <2>1. /\ pass.stage = "ffn" /\ pass' = [pass EXCEPT !.stage = "callback"]
          /\ UNCHANGED <<c, kv, rec, kvPos, logits>>
      BY <1>2 DEF HandOff, Stage, Goto
    <2> QED
      BY <2>1, StageMoves DEF Framed, Calm, NotYet
  <1>3. CASE moeCpuFn
    <2>1. /\ pass.stage = "callback" /\ pass' = [pass EXCEPT !.stage = "ranks"]
          /\ UNCHANGED <<c, kv, rec, kvPos, logits>>
      BY <1>3 DEF moeCpuFn, Stage, Goto
    <2> QED
      BY <2>1, StageMoves DEF Framed, Calm, NotYet
  <1>4. CASE ResidentRanks
    <2>1. /\ pass.stage = "ranks" /\ pass' = [pass EXCEPT !.stage = "out"]
          /\ UNCHANGED <<c, kv, rec, kvPos, logits>>
      BY <1>4 DEF ResidentRanks, Stage, Goto, AddShared
    <2> QED
      BY <2>1, StageMoves DEF Framed, Calm, NotYet
  <1>5. CASE CachedRanks
    <2>1. /\ pass.stage = "ranks" /\ pass' = [pass EXCEPT !.stage = "out"]
          /\ UNCHANGED <<c, kv, rec, kvPos, logits>>
      BY <1>5 DEF CachedRanks, Stage, Goto, AddShared
    <2> QED
      BY <2>1, StageMoves DEF Framed, Calm, NotYet
  <1>6. CASE HostRanks
    <2>1. /\ pass.stage = "ranks" /\ pass' = [pass EXCEPT !.stage = "out"]
          /\ UNCHANGED <<c, kv, rec, kvPos, logits>>
      BY <1>6 DEF HostRanks, Stage, Goto, AddShared
    <2> QED
      BY <2>1, StageMoves DEF Framed, Calm, NotYet
  <1> QED
    BY <1>1, <1>2, <1>3, <1>4, <1>5, <1>6 DEF ExpertsNext

LEMMA HostFrame ==
    ASSUME TypeInv, HostLayers
    PROVE  /\ Framed /\ dev' = dev
           /\ ~Q35Norm /\ ~forwardQwen35Recurrent => rec' = rec /\ Calm
  <1>1. CASE HostNorm
    <2>1. pass.stage = "norm" /\ pass' = [pass EXCEPT !.stage = "qkv"] /\ pass.engine = "cpu"
      BY <1>1 DEF HostNorm, Stage, Goto
    <2> QED
      BY <1>1, <2>1, StageMoves, DenseHasNoState DEF HostNorm, Framed, Calm, NotYet
  <1>2. CASE Q35Norm
    <2>1. /\ pass.stage = "norm"
          /\ pass' = [pass EXCEPT !.stage = IF Recurrent(c, pass.L) THEN "recurrent" ELSE "attention"]
      BY <1>2 DEF Q35Norm, Stage, Goto
    <2>2. Within(pass, pass')
      BY <2>1, StageMoves
    <2> QED
      BY <1>2, <2>1, <2>2 DEF Q35Norm, Framed
  <1>3. CASE HostFfnNorm
    <2>1. /\ pass.stage = "ffn"
          /\ \E s \in {"experts", "prefillFfn", "decodeFfn"} : pass' = [pass EXCEPT !.stage = s]
      BY <1>3 DEF HostFfnNorm, Stage, Goto
    <2> QED
      BY <1>3, <2>1, StageMoves DEF HostFfnNorm, Framed, Calm, NotYet
  <1>4. CASE HostQKV
    <2>1. pass.stage = "qkv" /\ pass' = [pass EXCEPT !.stage = "attention"]
      BY <1>4 DEF HostQKV, Stage, Goto
    <2> QED
      BY <1>4, <2>1, StageMoves DEF HostQKV, Framed, Calm, NotYet
  <1>5. CASE HostAttention
    <2>1. pass.stage = "attention" /\ pass' = [pass EXCEPT !.stage = "attnO"]
      BY <1>5 DEF HostAttention, Stage, Goto
    <2> QED
      BY <1>5, <2>1, StageMoves DEF HostAttention, Framed, Calm, NotYet
  <1>6. CASE HostAttnO
    <2>1. pass.stage = "attnO" /\ pass' = [pass EXCEPT !.stage = "ffn"]
      BY <1>6 DEF HostAttnO, Stage, Goto
    <2> QED
      BY <1>6, <2>1, StageMoves DEF HostAttnO, Framed, Calm, NotYet
  <1>7. CASE HostExperts
    <2>1. pass.stage = "experts" /\ pass' = [pass EXCEPT !.stage = "out"]
      BY <1>7 DEF HostExperts, Stage, Goto
    <2> QED
      BY <1>7, <2>1, StageMoves DEF HostExperts, Framed, Calm, NotYet
  <1>8. CASE HostPrefillFfn
    <2>1. pass.stage = "prefillFfn" /\ pass' = [pass EXCEPT !.stage = "out"]
      BY <1>8 DEF HostPrefillFfn, Stage, Goto
    <2> QED
      BY <1>8, <2>1, StageMoves DEF HostPrefillFfn, Framed, Calm, NotYet
  <1>9. CASE HostDecodeFfn
    <2>1. pass.stage = "decodeFfn" /\ pass' = [pass EXCEPT !.stage = "out"]
      BY <1>9 DEF HostDecodeFfn, Stage, Goto
    <2> QED
      BY <1>9, <2>1, StageMoves DEF HostDecodeFfn, Framed, Calm, NotYet
  <1>10. CASE forwardQwen35Recurrent
    <2>1. pass.stage = "recurrent" /\ pass' = [pass EXCEPT !.stage = "ffn"]
      BY <1>10 DEF forwardQwen35Recurrent, Stage, Goto
    <2> QED
      BY <1>10, <2>1, StageMoves DEF forwardQwen35Recurrent, Framed, Calm, NotYet
  <1>11. CASE forwardQwen35FullAttention
    <2>1. pass.stage = "attention" /\ pass' = [pass EXCEPT !.stage = "ffn"]
      BY <1>11 DEF forwardQwen35FullAttention, Stage, Goto
    <2> QED
      BY <1>11, <2>1, StageMoves DEF forwardQwen35FullAttention, Framed, Calm, NotYet
  <1>12. CASE Q35Ffn
    <2>1. pass.stage = "ffn" /\ pass' = [pass EXCEPT !.stage = "out"]
      BY <1>12 DEF Q35Ffn, Stage, Goto
    <2> QED
      BY <1>12, <2>1, StageMoves DEF Q35Ffn, Framed, Calm, NotYet
  <1> QED
    BY <1>1, <1>2, <1>3, <1>4, <1>5, <1>6, <1>7, <1>8, <1>9, <1>10, <1>11, <1>12 DEF HostLayers

LEMMA GrownShape ==
    ASSUME NEW d, DevShape(d), NEW bytes \in Nat
    PROVE  DevShape(Grown(d, bytes))
  BY DEF Grown, DevShape, RowsShape, QuantShape
LEMMA OperandShape ==
    ASSUME NEW d, DevShape(d), NEW x
    PROVE  DevShape([d EXCEPT !.q8k.row = x])
  BY DEF DevShape, RowsShape, QuantShape
LEMMA NormQ81Shape ==
    ASSUME NEW d, DevShape(d), NEW weight, NEW fold
    PROVE  DevShape(kRMSNormRowQ81(d, weight, fold))
  <1> DEFINE e == kRMSNormRow(d, weight)
             q == [e EXCEPT !.q8k.row = Coded("q81", Row(e, "norm", 1))]
  <1>1. DevShape(e)
    BY KernelShapes
  <1> HIDE DEF e
  <1>2. DevShape(q)
    BY <1>1, OperandShape
  <1>3. kRMSNormRowQ81(d, weight, fold) \in {e, q}
    BY Zenon DEF kRMSNormRowQ81, e
  <1> QED
    BY <1>1, <1>2, <1>3
LEMMA ThreePuts ==
    ASSUME NEW d, DevShape(d), NEW b1, NEW b2, NEW b3, NEW x, NEW y, NEW z
    PROVE  DevShape(Put(Put(Put(d, b1, 1, x), b2, 1, y), b3, 1, z))
  BY PutDev
LEMMA FusedQKVShape ==
    ASSUME NEW d, DevShape(d)
    PROVE  DevShape(kQGemvFusedQKV(d)) /\ DevShape(kQGemvFusedQK_Q2K(d))
  <1>1. DevShape(kQGemvFusedQKV(d))
    BY ThreePuts DEF kQGemvFusedQKV
  <1>2. DevShape(kQGemvFusedQK_Q2K(d))
    BY PutDev DEF kQGemvFusedQK_Q2K
  <1> QED
    BY <1>1, <1>2
LEMMA BiasesShape ==
    ASSUME NEW d, DevShape(d)
    PROVE  DevShape(AddBiases(d))
  BY KernelShapes DEF AddBiases

LEMMA StoredKv ==
    ASSUME NEW cache, KvOK(cache), NEW L, NEW f, DOMAIN f = Positions
    PROVE  KvOK([cache EXCEPT ![L] = f])
  BY DEF KvOK
LEMMA StoredDomain ==
    ASSUME NEW cache, NEW k, NEW v
    PROVE  DOMAIN Stored(cache, k, v) = Positions
  BY DEF Stored

LEMMA QKVShaped ==
    ASSUME TypeInv, DecodeQKV \/ PrefillQKV
    PROVE  DevShape(dev')
  <1>1. Sized /\ DevShape(dev)
    BY SizedByType DEF TypeInv
  <1>2. CASE DecodeQKV
    <2> DEFINE g == Gemv(Gemv(dev, "attnQ", "norm", "q", 1), "attnK", "norm", "k", 1)
    <2>1. DevShape(g)
      BY <1>1, GemvShape1
    <2>2. DevShape(kQGemvFusedQKV(dev)) /\ DevShape(kQGemvFusedQK_Q2K(dev))
      BY <1>1, FusedQKVShape
    <2>3. PICK d : d \in {kQGemvFusedQK_Q2K(dev), g}
                   /\ dev' \in {kQGemvFusedQKV(dev), AddBiases(Gemv(d, "attnV", "norm", "v", 1))}
      <3>1. dev' = IF FuseQKV THEN kQGemvFusedQKV(dev)
                   ELSE LET d == IF FuseQK THEN kQGemvFusedQK_Q2K(dev) ELSE g
                        IN  AddBiases(Gemv(d, "attnV", "norm", "v", 1))
        BY Zenon, <1>2 DEF DecodeQKV
      <3> HIDE DEF g
      <3> QED
        BY <3>1
    <2> HIDE DEF g
    <2>4. DevShape(AddBiases(Gemv(d, "attnV", "norm", "v", 1)))
      BY <1>1, <2>1, <2>2, <2>3, GemvShape1, BiasesShape
    <2> QED
      BY <2>2, <2>3, <2>4
  <1>3. CASE PrefillQKV
    <2> DEFINE d == ToF16(dev, "norm", "hiddenF16")
               g == Gemm(Gemm(Gemm(d, "attnQ", "hiddenF16", "q"), "attnK", "hiddenF16", "k"), "attnV", "hiddenF16", "v")
    <2>1. DevShape(d)
      BY <1>1, KernelShapes
    <2> HIDE DEF d
    <2>2. DevShape(g)
      BY <2>1, GemmShape
    <2>3. dev' = AddBiases(g)
      BY Zenon, <1>3 DEF PrefillQKV, d
    <2> QED
      BY <2>2, <2>3, BiasesShape
  <1> QED
    BY <1>2, <1>3

LEMMA DenseAttentionShaped ==
    ASSUME TypeInv, DenseAttention
    PROVE  DevShape(dev') /\ KvOK(kv')
  <1> DEFINE q(t) == Rope(PosOf(t), Row(dev, "q", t))
             k == [t \in Tokens |-> Rope(PosOf(t), Row(dev, "k", t))]
             v == [t \in Tokens |-> Row(dev, "v", t)]
             cache == Stored(kv[kvLayerOffset(pass.L)], k, v)
             d == IF combineQ81 THEN Grown(dev, c.hidden * 320) ELSE dev
             qs == PutAll(d, "q", [t \in Tokens |-> q(t)])
             as == [t \in Tokens |-> Attention(q(t), KeysTo(cache, PosOf(t)), ValuesTo(cache, PosOf(t)))]
             e == PutAll(qs, "attnOut", as)
             x == Coded("q81", Row(e, "attnOut", 1))
  <1>1. kv' = [kv EXCEPT ![kvLayerOffset(pass.L)] = cache]
    BY Zenon DEF DenseAttention
  <1>2. dev' = IF WrittenByCombine THEN [e EXCEPT !.q8k.row = x] ELSE e
    BY Zenon DEF DenseAttention, Each
  <1>3. KvOK(kv')
    <2>1. DOMAIN cache = Positions
      BY StoredDomain
    <2> HIDE DEF cache
    <2> QED
      BY <1>1, <2>1, StoredKv DEF TypeInv
  <1>4. DevShape(d)
    <2>1. PICK n \in Nat : n = c.hidden * 320
      BY SizedByType DEF Sized
    <2>2. DevShape(dev)
      BY DEF TypeInv
    <2> QED
      BY <2>1, <2>2, GrownShape
  <1> HIDE DEF d, as
  <1>5. DevShape(e)
    BY <1>4, PutAllDev
  <1> HIDE DEF e, x
  <1>6. DevShape([e EXCEPT !.q8k.row = x])
    BY <1>5, OperandShape
  <1> QED
    BY <1>2, <1>3, <1>5, <1>6

LEMMA AttnOShaped ==
    ASSUME TypeInv, DecodeAttnO \/ PrefillAttnO
    PROVE  DevShape(dev')
  <1>1. Sized /\ DevShape(dev) /\ c.hidden \in Nat
    BY SizedByType DEF TypeInv, Sized
  <1>2. CASE DecodeAttnO
    <2> DEFINE l == launchQGemvResid(dev, Weight(pass.L, "attnO"), Type("attnO"), c.hidden,
                                     Row(dev, "attnOut", 1), "hidden", 1, pass.combine)
               n == [done |-> FALSE, d |-> dev]
    <2>1. DevShape(l.d) /\ DevShape(n.d)
      BY <1>1, ResidShape
    <2>2. PICK r : r \in {l, n} /\ dev' \in {r.d, kAddResidual(Gemv(r.d, "attnO", "attnOut", "attnProj", 1), "attnProj")}
      <3>1. LET r == IF On("FUSE_ATTNO_RESID") THEN l ELSE n
            IN  dev' = IF r.done THEN r.d ELSE kAddResidual(Gemv(r.d, "attnO", "attnOut", "attnProj", 1), "attnProj")
        BY Zenon, <1>2 DEF DecodeAttnO
      <3> HIDE DEF l, n
      <3> QED
        BY <3>1
    <2> HIDE DEF l, n
    <2>3. DevShape(r.d)
      BY <2>1, <2>2
    <2>4. DevShape(kAddResidual(Gemv(r.d, "attnO", "attnOut", "attnProj", 1), "attnProj"))
      BY <1>1, <2>3, GemvShape1, KernelShapes
    <2> QED
      BY <2>2, <2>3, <2>4
  <1>3. CASE PrefillAttnO
    <2>1. DevShape(kAddResidual(Gemm(ToF16(dev, "attnOut", "attnOutF16"), "attnO", "attnOutF16", "attnProj"), "attnProj"))
      BY <1>1, GemmShape, KernelShapes
    <2> QED
      BY <1>3, <2>1 DEF PrefillAttnO
  <1> QED
    BY <1>2, <1>3

LEMMA PersistentShaped ==
    ASSUME TypeInv, PersistentFFN
    PROVE  DevShape(dev')
  <1>1. DevShape(dev)
    BY DEF TypeInv
  <1> DEFINE x == Norm(Weight(pass.L, "rmsNormFFN"), Row(dev, "hidden", 1))
             g == Times(Silu(Mul(Weight(pass.L, "ffnGate"), x)), Mul(Weight(pass.L, "ffnUp"), x))
             y == Plus(Row(dev, "hidden", 1), Mul(Weight(pass.L, "ffnDown"), g))
  <1>2. dev' = Put(Put(dev, "gate", 1, g), "hidden", 1, y)
    BY Zenon DEF PersistentFFN
  <1> HIDE DEF g, y
  <1> QED
    BY <1>1, <1>2, PutDev

LEMMA GateUpShaped ==
    ASSUME TypeInv, GateUp
    PROVE  DevShape(dev')
  <1>1. Sized /\ DevShape(dev) /\ c.hidden \in Nat
    BY SizedByType DEF TypeInv, Sized
  <1> DEFINE h == ToF16(dev, "norm", "hiddenF16")
             gemms == Gemm(Gemm(h, "ffnGate", "hiddenF16", "gate"), "ffnUp", "hiddenF16", "up")
             fused == launchQGemvFusedGU(dev, Weight(pass.L, "ffnGate"), Weight(pass.L, "ffnUp"),
                                         Type("ffnGate"), c.hidden, Row(dev, "norm", 1), "gate", 1, pass.fold)
             two == Gemv(Gemv(dev, "ffnGate", "norm", "gate", 1), "ffnUp", "norm", "up", 1)
             d == CASE TcFFN \/ pass.T > 1 -> gemms
                    [] FuseGU /\ ~TcFFN -> fused
                    [] OTHER -> two
  <1>2. dev' = IF FuseGU THEN d ELSE kSiluMul(d)
    BY Zenon DEF GateUp
  <1>3. DevShape(gemms)
    <2>1. DevShape(h)
      BY <1>1, KernelShapes
    <2> HIDE DEF h
    <2> QED
      BY <2>1, GemmShape
  <1>4. DevShape(fused)
    <2>1. PICK pre : pre = pass.fold
      OBVIOUS
    <2> QED
      BY <1>1, <2>1, FusedGUShape
  <1>5. DevShape(two)
    BY <1>1, GemvShape1
  <1> HIDE DEF gemms, fused, two
  <1>6. FuseGU => pass.T = 1
    BY DEF FuseGU
  <1>7. d \in {gemms, fused, two}
    <2>1. CASE TcFFN \/ pass.T > 1
      <3>1. pass.T > 1 => ~FuseGU
        BY <1>6
      <3> QED
        BY <2>1, <3>1
    <2>2. CASE ~(TcFFN \/ pass.T > 1)
      BY <2>2
    <2> QED
      BY <2>1, <2>2
  <1> HIDE DEF d
  <1>8. DevShape(d)
    BY <1>3, <1>4, <1>5, <1>7
  <1> QED
    BY <1>2, <1>8, KernelShapes

LEMMA DownShaped ==
    ASSUME TypeInv, Down
    PROVE  DevShape(dev')
  <1>1. Sized /\ DevShape(dev) /\ c.inter \in Nat
    BY SizedByType DEF TypeInv, Sized
  <1> DEFINE l == launchQGemvResid(dev, Weight(pass.L, "ffnDown"), Type("ffnDown"), c.inter,
                                   Row(dev, "gate", 1), "hidden", 1, FALSE)
             n == [done |-> FALSE, d |-> dev]
             r == IF On("FUSE_DOWN_RESID") /\ ~TcDown THEN l ELSE n
             plain == kAddResidual(Gemv(r.d, "ffnDown", "gate", "ffnOut", 1), "ffnOut")
  <1>2. dev' = CASE pass.T > 1 \/ TcDown -> DownGemm(dev)
                 [] pass.T = 1 /\ ~TcDown /\ r.done -> r.d
                 [] OTHER -> plain
    BY Zenon DEF Down
  <1>3. DevShape(l.d) /\ DevShape(n.d)
    <2>1. \A pre : DevShape(launchQGemvResid(dev, Weight(pass.L, "ffnDown"), Type("ffnDown"), c.inter,
                                             Row(dev, "gate", 1), "hidden", 1, pre).d)
      BY <1>1, ResidShape
    <2> QED
      BY <1>1, <2>1
  <1> HIDE DEF l, n
  <1>4. DevShape(r.d)
    BY <1>3
  <1> HIDE DEF r
  <1>5. DevShape(plain)
    BY <1>1, <1>4, GemvShape1, KernelShapes
  <1>6. DevShape(DownGemm(dev))
    BY <1>1, GemmShape, KernelShapes DEF DownGemm
  <1> HIDE DEF plain
  <1>7. dev' \in {DownGemm(dev), r.d, plain}
    <2>1. pass.T > 1 => pass.T # 1
      BY <1>1 DEF Sized
    <2> QED
      BY <1>2, <2>1
  <1> QED
    BY <1>4, <1>5, <1>6, <1>7

\* The dense layers on the device keep all shapes and the recurrent state.
LEMMA DenseQuiet ==
    ASSUME TypeInv, DenseGPU
    PROVE  Quiet
  <1>1. Framed /\ rec' = rec /\ Calm /\ host' = host
    BY DenseFrame
  <1>2. DevShape(dev) /\ HostShape(host) /\ KvOK(kv)
    BY DEF TypeInv
  <1>3. CASE AttnNorm
    <2>1. \E fold : dev' = kRMSNormRowQ81(dev, "rmsNormAttn", fold)
      BY <1>3 DEF AttnNorm
    <2> QED
      BY <1>1, <1>2, <1>3, <2>1, NormQ81Shape DEF AttnNorm, Quiet, Shaped
  <1>4. CASE FfnNormRow
    <2>1. \E fold : dev' = kRMSNormRowQ81(dev, "rmsNormFFN", fold)
      BY <1>4 DEF FfnNormRow
    <2> QED
      BY <1>1, <1>2, <1>4, <2>1, NormQ81Shape DEF FfnNormRow, Quiet, Shaped
  <1>5. CASE DecodeQKV \/ PrefillQKV
    BY <1>1, <1>2, <1>5, QKVShaped DEF DecodeQKV, PrefillQKV, Quiet, Shaped
  <1>6. CASE DenseAttention
    BY <1>1, <1>2, <1>6, DenseAttentionShaped DEF Quiet, Shaped
  <1>7. CASE DecodeAttnO \/ PrefillAttnO
    BY <1>1, <1>2, <1>7, AttnOShaped DEF DecodeAttnO, PrefillAttnO, Quiet, Shaped
  <1>8. CASE PersistentFFN
    BY <1>1, <1>2, <1>8, PersistentShaped DEF PersistentFFN, Quiet, Shaped
  <1>9. CASE GateUp
    BY <1>1, <1>2, <1>9, GateUpShaped DEF GateUp, Quiet, Shaped
  <1>10. CASE Down
    BY <1>1, <1>2, <1>10, DownShaped DEF Down, Quiet, Shaped
  <1> QED
    BY <1>3, <1>4, <1>5, <1>6, <1>7, <1>8, <1>9, <1>10 DEF DenseGPU

\* So do the hybrid layers, but for the recurrence.
LEMMA HybridShaped ==
    ASSUME TypeInv, HybridGPU
    PROVE  DevShape(dev') /\ KvOK(kv') /\ RecOK(rec')
  <1>1. Sized /\ DevShape(dev) /\ KvOK(kv) /\ RecOK(rec)
    BY SizedByType DEF TypeInv
  <1>2. CASE HybridNorm
    BY <1>1, <1>2, KernelShapes DEF HybridNorm
  <1>3. CASE RecurrentProjections
    <2> DEFINE qkvz == gemv(gemv(dev, "attnQKV", "norm", "qkv"), "attnGate", "norm", "q35z")
               g == gemv(gemv(qkvz, "ssmBeta", "norm", "q35Beta"), "ssmAlpha", "norm", "q35GateV")
    <2>1. dev' = kQ35BetaGate(g)
      BY Zenon, <1>3 DEF RecurrentProjections
    <2>2. DevShape(qkvz)
      BY <1>1, GemvShape
    <2> HIDE DEF qkvz
    <2>3. DevShape(g)
      BY <1>1, <2>2, GemvShape
    <2> HIDE DEF g
    <2> QED
      BY <1>1, <1>3, <2>1, <2>3, KernelShapesQ35 DEF RecurrentProjections
  <1>4. CASE Recurrence
    <2> DEFINE m == DevScan(pass.T)
    <2>1. /\ dev' = gemv(kQ35GatedRmsNorm(m.d), "ssmOut", "gdnOut", "attnProj")
          /\ rec' = [rec EXCEPT ![pass.L] = [conv |-> m.conv, gdn |-> m.gdn]]
      BY <1>4, RecurrenceScan DEF Recurrence
    <2>2. pass.L \in Layers
      BY <1>4, SizedByType, SizesAssumption DEF Recurrence, Stage, TypeInv, PassOK, Layers
    <2>3. DevGood(m, pass.T)
      BY <1>1, <2>2, SizedByType, DevScanFacts DEF RecOK
    <2> HIDE DEF m
    <2>4. DevShape(m.d) /\ IsWindow(m.conv)
      BY <2>3 DEF DevGood, Carries
    <2>5. DevShape(dev')
      BY <1>1, <2>1, <2>4, KernelShapesQ35, GemvShape
    <2>6. RecOK(rec')
      BY <1>1, <2>1, <2>2, <2>4 DEF RecOK
    <2> QED
      BY <1>1, <1>4, <2>5, <2>6 DEF Recurrence
  <1>5. CASE HybridAttention
    <2> DEFINE p == QueryKeyValue(dev)
               n == kQ35HeadRmsNorm(kQ35HeadRmsNorm2(p))
               d == kQ35MRoPE(kQ35MRoPE(n, "q"), "k")
               cache == kQ35StoreKV(d, kv[kvLayerOffset(pass.L)])
               out(t) == Attention(Row(d, "q", t), KeysTo(cache, PosOf(t)), ValuesTo(cache, PosOf(t)))
               a == PutAll(d, "attnOut", [t \in Tokens |-> out(t)])
    <2>1. /\ kv' = [kv EXCEPT ![kvLayerOffset(pass.L)] = cache]
          /\ dev' = gemv(kQ35SigmoidGate(a), "attnO", "attnOut", "attnProj")
      BY Zenon, <1>5 DEF HybridAttention, Each
    <2>2. DOMAIN cache = Positions
      BY StoredDomain DEF kQ35StoreKV
    <2>3. DevShape(d)
      <3>1. DevShape(p)
        BY <1>1, GemvShape DEF QueryKeyValue
      <3> HIDE DEF p
      <3>2. DevShape(n)
        BY <3>1, KernelShapesQ35
      <3> HIDE DEF n
      <3> QED
        BY <3>2, KernelShapesQ35
    <2> HIDE DEF d, cache
    <2>4. DevShape(a)
      BY <2>3, PutAllDev
    <2> HIDE DEF a
    <2>5. DevShape(dev')
      BY <1>1, <2>1, <2>4, KernelShapesQ35, GemvShape
    <2>6. KvOK(kv')
      BY <1>1, <2>1, <2>2, StoredKv
    <2> QED
      BY <1>1, <1>5, <2>5, <2>6 DEF HybridAttention
  <1>6. CASE HybridFFN
    <2> DEFINE d == kRMSNormRow(kAddResidual(dev, "attnProj"), "postAttnNorm")
               g == kSiluMul(gemv(gemv(d, "ffnGate", "norm", "gate"), "ffnUp", "norm", "up"))
    <2>1. dev' = kAddResidual(gemv(g, "ffnDown", "gate", "ffnOut"), "ffnOut")
      BY Zenon, <1>6 DEF HybridFFN
    <2>2. DevShape(d)
      BY <1>1, KernelShapes
    <2> HIDE DEF d
    <2>3. DevShape(g)
      BY <1>1, <2>2, KernelShapes, GemvShape
    <2> HIDE DEF g
    <2> QED
      BY <1>1, <1>6, <2>1, <2>3, KernelShapes, GemvShape DEF HybridFFN
  <1> QED
    BY <1>2, <1>3, <1>4, <1>5, <1>6 DEF HybridGPU

-----------------------------------------------------------------------------
LEMMA ClearedTables ==
    ASSUME NEW d, DevShape(d), NEW wgt, NEW table
    PROVE  /\ DevShape([d EXCEPT !.moeWgt = wgt])
           /\ DevShape([d EXCEPT !.moeDownTable = table, !.moeWgt = wgt])
           /\ DevShape([d EXCEPT !.q8kN = wgt])
  BY DEF DevShape, RowsShape, QuantShape
LEMMA MirrorShapes ==
    ASSUME NEW h, HostShape(h), NEW i, NEW x
    PROVE  /\ HostShape([h EXCEPT !.moeNorm[i] = x]) /\ HostShape([h EXCEPT !.moeDownTable[i] = x])
           /\ HostShape([h EXCEPT !.moeFfnOut[i] = x]) /\ HostShape([h EXCEPT !.moeBufFlip = x])
  BY DEF HostShape, RowsShape
LEMMA RouterShape ==
    ASSUME NEW h, HostShape(h), NEW x
    PROVE  HostShape(computeQwen35MoERouterOnly(h, x))
  BY DEF HostShape, RowsShape, computeQwen35MoERouterOnly

\* The routed experts, on the device, by callback, cached, resident or on the host.
LEMMA ExpertsOnDeviceShaped ==
    ASSUME TypeInv, ExpertsOnDevice
    PROVE  DevShape(dev')
  <1>1. Sized /\ DevShape(dev) /\ c.hidden \in Nat
    BY SizedByType DEF TypeInv, Sized
  <1> DEFINE n == Rows(FfnInput(dev), W("ffnGateInp"), "F32", c.hidden, "norm", "moeLogits")
             idx == [t \in Tokens |-> Route(c, PosOf(t))]
             wgt == [t \in Tokens |-> [r \in Ranks |-> RouteWeight(r, Row(n, "moeLogits", t))]]
             w == [n EXCEPT !.moeWgt = wgt]
             d == perRank(Cleared(w), idx, wgt)
  <1>2. dev' = kAddResidual(kAddScaled(sharedExpert(d)), "moeExpertOut")
    BY Zenon DEF ExpertsOnDevice
  <1>3. DevShape(n)
    BY <1>1, KernelShapesMoe, RowsOfShape
  <1> HIDE DEF n
  <1>4. DevShape(w)
    BY <1>3, ClearedTables
  <1> HIDE DEF w, idx, wgt
  <1>5. DevShape(d)
    BY <1>1, <1>4, KernelShapesMoe, PerRankShape
  <1> HIDE DEF d
  <1> QED
    BY <1>1, <1>2, <1>5, KernelShapes, KernelShapesMoe, SharedExpertShape

LEMMA HandOffShaped ==
    ASSUME TypeInv, HandOff
    PROVE  DevShape(dev') /\ HostShape(host')
  <1>1. Sized /\ DevShape(dev) /\ HostShape(host)
    BY SizedByType DEF TypeInv
  <1>2. dev' = sharedExpert(FfnInput(dev))
    BY DEF HandOff
  <1>3. HostShape(host')
    BY <1>1 DEF HandOff, HostShape, RowsShape
  <1> QED
    BY <1>1, <1>2, <1>3, KernelShapesMoe, SharedExpertShape

LEMMA CallbackShaped ==
    ASSUME TypeInv, moeCpuFn
    PROVE  HostShape(host')
  <1>1. HostShape(host)
    BY DEF TypeInv
  <1> DEFINE x == host.moeNorm[host.moeBufFlip]
             h == computeQwen35MoERouterOnly(host, x)
             table == computeQwen35MoENonResident(x, h.moeRouterIdx, c.resident)
             y == computeQwen35MoEFromLogits(x)
             part == [h EXCEPT !.moeDownTable[host.moeBufFlip] = table]
             full == [host EXCEPT !.moeFfnOut[host.moeBufFlip] = y]
  <1>2. host' = CASE residentOn -> part [] ~residentOn /\ cacheOn -> h [] OTHER -> full
    BY Zenon DEF moeCpuFn
  <1>3. HostShape(h)
    BY <1>1, RouterShape
  <1> HIDE DEF h, y
  <1>4. HostShape(full)
    BY <1>1, MirrorShapes
  <1> HIDE DEF table
  <1>5. HostShape(part)
    BY <1>3, MirrorShapes
  <1> HIDE DEF part, full
  <1> QED
    BY <1>2, <1>3, <1>4, <1>5

LEMMA AddSharedShaped ==
    ASSUME TypeInv, NEW d, DevShape(d), AddShared(d)
    PROVE  DevShape(dev') /\ HostShape(host')
  <1>1. dev' = kAddResidual(kAddScaled(d), "moeExpertOut") /\ host' = [host EXCEPT !.moeBufFlip = 1 - host.moeBufFlip]
    BY DEF AddShared
  <1>2. PICK i : i = 1 - host.moeBufFlip
    OBVIOUS
  <1> QED
    BY <1>1, <1>2, KernelShapes, KernelShapesMoe, MirrorShapes DEF TypeInv

LEMMA ResidentRanksShaped ==
    ASSUME TypeInv, ResidentRanks
    PROVE  DevShape(dev') /\ HostShape(host')
  <1>1. Sized /\ DevShape(dev)
    BY SizedByType DEF TypeInv
  <1> DEFINE b == Cleared(dev)
             table == host.moeDownTable[host.moeBufFlip]
             wgt == host.moeRouterWgt
             idx == host.moeRouterIdx[1]
             d == [b EXCEPT !.moeDownTable = table, !.moeWgt = wgt]
             e == scheduleResidentExperts(d, idx)
             r == FoldLeft(residentRank, e, [k \in Ranks |-> k])
  <1>2. AddShared(r)
    BY Zenon DEF ResidentRanks
  <1>3. DevShape(b)
    BY <1>1, KernelShapesMoe
  <1> HIDE DEF b, table, wgt, idx
  <1>4. DevShape(d)
    BY <1>3, ClearedTables
  <1> HIDE DEF d
  <1>5. DevShape(e)
    BY <1>1, <1>4, ScheduleShape
  <1> HIDE DEF e
  <1>6. DevShape(r)
    BY <1>1, <1>5, ResidentShape
  <1> HIDE DEF r
  <1> QED
    BY <1>2, <1>6, AddSharedShaped

LEMMA CachedRanksShaped ==
    ASSUME TypeInv, CachedRanks
    PROVE  DevShape(dev') /\ HostShape(host')
  <1>1. Sized /\ DevShape(dev)
    BY SizedByType DEF TypeInv
  <1> DEFINE b == Cleared(dev)
             wgt == host.moeRouterWgt
             d == [b EXCEPT !.moeWgt = wgt]
             x == launchQuantQ8_0x32(Row(d, "norm", 1))
             q == [d EXCEPT !.q8kN = x]
             idx == host.moeRouterIdx
             idx1 == idx[1]
             all == fastBatch(q, idx1)
             one == FoldLeft(LAMBDA e, r : fastRank(e, r, idx1), q, [r \in Ranks |-> r])
             slow == perRank(d, idx, wgt)
  <1>2. PICK moeSlotConflict \in BOOLEAN :
            AddShared(CASE FastPath /\ ~moeSlotConflict -> all
                        [] FastPath /\ moeSlotConflict -> one
                        [] OTHER -> slow)
    BY Zenon DEF CachedRanks
  <1>3. DevShape(b)
    BY <1>1, KernelShapesMoe
  <1> HIDE DEF b, wgt
  <1>4. DevShape(d)
    BY <1>3, ClearedTables
  <1> HIDE DEF d, x, idx
  <1>5. DevShape(q)
    BY <1>4, ClearedTables
  <1> HIDE DEF q, idx1
  <1>6. DevShape(all) /\ DevShape(slow)
    BY <1>1, <1>4, <1>5, FastBatchShape, PerRankShape
  <1>7. DevShape(one)
    <2>1. one = fastRanks(q, idx1)
      BY FastRanksAre
    <2> QED
      BY <1>1, <1>5, <2>1, FastRanksDone
  <1> HIDE DEF all, one, slow
  <1>8. PICK e : e \in {all, one, slow} /\ AddShared(e)
    BY <1>2
  <1> QED
    BY <1>6, <1>7, <1>8, AddSharedShaped

LEMMA HostRanksShaped ==
    ASSUME TypeInv, HostRanks
    PROVE  DevShape(dev') /\ HostShape(host')
  <1>1. DevShape(PutAll(dev, "moeExpertOut", host.moeFfnOut[host.moeBufFlip]))
    BY PutAllDev DEF TypeInv
  <1>2. AddShared(PutAll(dev, "moeExpertOut", host.moeFfnOut[host.moeBufFlip]))
    BY DEF HostRanks
  <1> QED
    BY <1>1, <1>2, AddSharedShaped

LEMMA ExpertsQuiet ==
    ASSUME TypeInv, ExpertsNext
    PROVE  Quiet
  <1>1. Framed /\ rec' = rec /\ Calm /\ kv' = kv
    BY ExpertsFrame
  <1>2. DevShape(dev) /\ HostShape(host) /\ KvOK(kv)
    BY DEF TypeInv
  <1>3. DevShape(dev') /\ HostShape(host')
    <2>1. CASE ExpertsOnDevice
      BY <1>2, <2>1, ExpertsOnDeviceShaped DEF ExpertsOnDevice
    <2>2. CASE moeCpuFn
      BY <1>2, <2>2, CallbackShaped DEF moeCpuFn
    <2> QED
      BY <2>1, <2>2, HandOffShaped, ResidentRanksShaped, CachedRanksShaped, HostRanksShaped DEF ExpertsNext
  <1> QED
    BY <1>1, <1>2, <1>3 DEF Quiet, Shaped

-----------------------------------------------------------------------------
LEMMA HostDenseShaped ==
    ASSUME TypeInv, HostNorm \/ HostQKV \/ HostAttention \/ HostAttnO \/ HostFfnNorm
    PROVE  HostShape(host') /\ KvOK(kv')
  <1>1. HostShape(host) /\ KvOK(kv)
    BY DEF TypeInv
  <1>2. CASE HostNorm
    BY <1>1, <1>2, KernelShapesHost DEF HostNorm
  <1>3. CASE HostQKV
    <2> DEFINE h == matMulVecBatch(matMulVecBatch(matMulVecBatch(host, "attnQ", "attnNorm", "q"),
                                                  "attnK", "attnNorm", "k"), "attnV", "attnNorm", "v")
               b == addBias(addBias(addBias(h, "q", "attnQBias"), "k", "attnKBias"), "v", "attnVBias")
    <2>1. host' \in {h, b}
      BY Zenon, <1>3 DEF HostQKV
    <2>2. HostShape(h)
      BY <1>1, KernelShapesHost
    <2> HIDE DEF h
    <2>3. HostShape(b)
      BY <2>2, KernelShapesHost
    <2> HIDE DEF b
    <2> QED
      BY <1>1, <1>3, <2>1, <2>2, <2>3 DEF HostQKV
  <1>4. CASE HostAttention
    <2>1. PICK f : DOMAIN f = Positions /\ kv' = [kv EXCEPT ![pass.L] = f]
      BY <1>4, StoredDomain DEF HostAttention
    <2>2. KvOK(kv')
      <3>1. KvOK([kv EXCEPT ![pass.L] = f])
        BY <1>1, <2>1, StoredKv
      <3> QED
        BY <2>1, <3>1
    <2>3. \E g, h : host' = PutAll(PutAll(host, "q", g), "attnOut", h)
      BY <1>4 DEF HostAttention, Each
    <2>4. HostShape(host')
      BY <1>1, <2>3, EachHost
    <2> QED
      BY <2>2, <2>4
  <1>5. CASE HostAttnO
    <2> DEFINE x(t) == Product0("attnO", Row(host, "attnOut", t))
               h1 == PutAll(host, "hidden", [t \in Tokens |-> Plus(Row(host, "hidden", t), x(t))])
               h2 == PutAll(host, "attnProj", [t \in Tokens |-> x(t)])
               h == IF attnResidualFused THEN h1 ELSE h2
               s == add(h, "attnProj")
               y == [t \in Tokens |-> scaled(Norm(W("attnPostNorm"), Row(s, "hidden", t)))]
               post == PutAll(s, "hidden", y)
    <2>1. host' = CASE Has(c, "attnPostNorm") -> post
                    [] ~Has(c, "attnPostNorm") /\ attnResidualFused -> h
                    [] OTHER -> s
      BY Zenon, <1>5 DEF HostAttnO, Each
    <2>2. HostShape(h)
      BY <1>1, EachHost
    <2> HIDE DEF h
    <2>3. HostShape(s)
      BY <2>2, KernelShapesHost
    <2> HIDE DEF s, y
    <2>4. HostShape(post)
      BY <2>3, EachHost
    <2> HIDE DEF post
    <2> QED
      BY <1>1, <1>5, <2>1, <2>2, <2>3, <2>4 DEF HostAttnO
  <1>6. CASE HostFfnNorm
    BY <1>1, <1>6, KernelShapesHost DEF HostFfnNorm
  <1> QED
    BY <1>2, <1>3, <1>4, <1>5, <1>6

LEMMA HostFfnShaped ==
    ASSUME TypeInv, HostExperts \/ HostPrefillFfn \/ HostDecodeFfn
    PROVE  HostShape(host') /\ KvOK(kv')
  <1>1. HostShape(host) /\ KvOK(kv)
    BY DEF TypeInv
  <1>2. CASE HostExperts
    <2>1. \E f, g : host' = PutAll(add(PutAll(host, "ffnOut", f), "ffnOut"), "hidden", g)
      BY <1>2 DEF HostExperts, Each
    <2> QED
      BY <1>1, <1>2, <2>1, EachHost, KernelShapesHost DEF HostExperts
  <1>3. CASE HostPrefillFfn
    <2>1. host' = PostFFW(add(matMulVecBatch(GatedRows(host, matMulVecFusedGateUp_Batch), "ffnDown", "gate", "ffnOut"), "ffnOut"))
      BY <1>3 DEF HostPrefillFfn
    <2>2. HostShape(GatedRows(host, matMulVecFusedGateUp_Batch))
      BY <1>1, GatedShape
    <2> QED
      BY <1>1, <1>3, <2>1, <2>2, KernelShapesHost DEF HostPrefillFfn
  <1>4. CASE HostDecodeFfn
    <2> DEFINE glu == Times(Silu(Product0("ffnGate", Row(host, "ffnNorm", 1))),
                            Product0("ffnUp", Row(host, "ffnNorm", 1)))
               y == Plus(Row(host, "hidden", 1), Product0("ffnDown", glu))
               fused == Put(host, "hidden", 1, y)
               h == GatedRows(host, matMulVecFusedGateUp)
               post == PostFFW(h)
               sum == add(matMulVecBatch(h, "ffnDown", "gate", "ffnOut"), "ffnOut")
    <2>1. host' = CASE c.arch = "gemma4" -> post
                    [] c.arch # "gemma4" /\ FusedGateUpDown -> fused
                    [] OTHER -> sum
      BY Zenon, <1>4 DEF HostDecodeFfn
    <2>2. HostShape(h)
      BY <1>1, GatedShape
    <2> HIDE DEF h, y
    <2>3. HostShape(post) /\ HostShape(sum) /\ HostShape(fused)
      BY <1>1, <2>2, KernelShapesHost, PutHost
    <2> HIDE DEF post, sum, fused
    <2> QED
      BY <1>1, <1>4, <2>1, <2>3 DEF HostDecodeFfn
  <1> QED
    BY <1>2, <1>3, <1>4

LEMMA Q35Shaped ==
    ASSUME TypeInv, Q35Norm \/ forwardQwen35Recurrent \/ forwardQwen35FullAttention \/ Q35Ffn
    PROVE  HostShape(host') /\ KvOK(kv') /\ RecOK(rec')
  <1>1. Sized /\ HostShape(host) /\ KvOK(kv) /\ RecOK(rec)
    BY SizedByType DEF TypeInv
  <1>2. CASE Q35Norm
    BY <1>1, <1>2, KernelShapesHost DEF Q35Norm
  <1>3. CASE forwardQwen35Recurrent
    <2> DEFINE m == HostScan(pass.T)
    <2>1. /\ host' = add(m.h, "attnProj")
          /\ rec' = [rec EXCEPT ![pass.L] = [conv |-> m.conv, gdn |-> m.gdn]]
      BY <1>3, RecurrentScan DEF forwardQwen35Recurrent
    <2>2. pass.L \in Layers
      BY <1>3, SizedByType, SizesAssumption DEF forwardQwen35Recurrent, Stage, TypeInv, PassOK, Layers
    <2>3. HostGood(m, pass.T)
      BY <1>1, <2>2, SizedByType, HostScanFacts DEF RecOK
    <2> HIDE DEF m
    <2>4. HostShape(m.h) /\ IsWindow(m.conv)
      BY <2>3 DEF HostGood, HostKept, Carries
    <2>5. HostShape(host')
      BY <2>1, <2>4, KernelShapesHost
    <2>6. RecOK(rec')
      BY <1>1, <2>1, <2>2, <2>4 DEF RecOK
    <2> QED
      BY <1>1, <1>3, <2>5, <2>6 DEF forwardQwen35Recurrent
  <1>4. CASE forwardQwen35FullAttention
    <2> DEFINE p == EachToken(QkvRow, host)
               q(t) == Rope(PosOf(t), HeadNorm(c, pass.L, "attnQNorm", Part("query", Row(p, "qGate", t))))
               k == [t \in Tokens |-> Rope(PosOf(t), HeadNorm(c, pass.L, "attnKNorm", Row(p, "k", t)))]
               v == [t \in Tokens |-> Row(p, "v", t)]
               cache == Stored(kv[pass.L], k, v)
               gated(t) == Times(Attention(q(t), KeysTo(cache, PosOf(t)), ValuesTo(cache, PosOf(t))),
                                 Sigmoid(Part("gate", Row(p, "qGate", t))))
               qs == [t \in Tokens |-> q(t)]
               gs == [t \in Tokens |-> gated(t)]
               a == PutAll(PutAll(PutAll(p, "q", qs), "k", k), "attnOut", gs)
    <2>1. /\ kv' = [kv EXCEPT ![pass.L] = cache]
          /\ host' = add(EachToken(OutRow, a), "attnProj")
      BY Zenon, <1>4 DEF forwardQwen35FullAttention, Each
    <2>2. DOMAIN cache = Positions
      BY StoredDomain
    <2>3. HostShape(p)
      BY <1>1, QkvRowsShape
    <2> HIDE DEF p, qs, gs, cache, k
    <2>4. HostShape(a)
      BY <2>3, EachHost
    <2> HIDE DEF a
    <2>5. HostShape(host')
      BY <1>1, <2>1, <2>4, OutRowsShape, KernelShapesHost
    <2>6. KvOK(kv')
      BY <1>1, <2>1, <2>2, StoredKv
    <2> QED
      BY <1>1, <1>4, <2>5, <2>6 DEF forwardQwen35FullAttention
  <1>5. CASE Q35Ffn
    <2> DEFINE n == rmsNorm(host, "postAttnNorm", "hidden", "ffnNorm")
               f == [t \in Tokens |-> computeQwen35MoE(Row(n, "ffnNorm", t), t)]
               e == PutAll(n, "ffnOut", f)
               r == EachToken(FfnRow, n)
    <2>1. host' \in {add(e, "ffnOut"), add(r, "ffnOut")}
      BY Zenon, <1>5 DEF Q35Ffn, Each
    <2>2. HostShape(n)
      BY <1>1, KernelShapesHost
    <2> HIDE DEF n, f
    <2>3. HostShape(e) /\ HostShape(r)
      BY <1>1, <2>2, EachHost, FfnRowsShape
    <2> HIDE DEF e, r
    <2>4. HostShape(add(e, "ffnOut")) /\ HostShape(add(r, "ffnOut"))
      BY <2>3, KernelShapesHost
    <2> QED
      BY <1>1, <1>5, <2>1, <2>4 DEF Q35Ffn
  <1> QED
    BY <1>2, <1>3, <1>4, <1>5

\* The layers on the host.
LEMMA HostShaped ==
    ASSUME TypeInv, HostLayers
    PROVE  HostShape(host') /\ KvOK(kv') /\ RecOK(rec')
  <1>1. CASE Q35Norm \/ forwardQwen35Recurrent \/ forwardQwen35FullAttention \/ Q35Ffn
    BY <1>1, Q35Shaped
  <1>2. CASE ~(Q35Norm \/ forwardQwen35Recurrent \/ forwardQwen35FullAttention \/ Q35Ffn)
    <2>1. rec' = rec
      BY <1>2, HostFrame
    <2> QED
      BY <1>2, <2>1, HostDenseShaped, HostFfnShaped DEF HostLayers, TypeInv
  <1> QED
    BY <1>1, <1>2

-----------------------------------------------------------------------------
(* The type invariant.                                                      *)

\* A cleared window is a window.
LEMMA FreshWindow ==
    ASSUME c.convK \in Nat \ {0, 1}
    PROVE  IsWindow([i \in 1..(c.convK - 1) |-> Zeros])
  <1>1. PICK n \in Nat : n = c.convK - 1
    OBVIOUS
  <1>2. [i \in 1..n |-> Zeros] \in Seq({Zeros}) /\ Len([i \in 1..n |-> Zeros]) = n
    OBVIOUS
  <1> QED
    BY <1>1, <1>2 DEF IsWindow
\* A session starts with buffers of the right shape.
LEMMA InitType == ASSUME Init PROVE TypeInv
  <1>1. /\ c \in Configs /\ pass = Idle /\ kvPos = 0
        /\ dev = [rows |-> Fresh(DevBuffers), q8k |-> [cap |-> c.q8k, row |-> Junk], wF16 |-> Junk,
                  q8kN |-> Junk, moeWgt |-> NoTable, moeDownTable |-> NoTable]
        /\ kv = [L \in Layers |-> [p \in Positions |-> [k |-> Junk, v |-> Junk]]]
        /\ rec = [L \in Layers |-> [conv |-> [i \in 1..(c.convK - 1) |-> Zeros], gdn |-> Zeros]]
    BY DEF Init
  <1>2. c.q8k \in Nat /\ c.convK \in Nat \ {0, 1} /\ c.nextn \in 0..NumLayers /\ MaxPos \in Nat /\ MaxBatch \in Nat
        /\ NumLayers \in Nat
    BY <1>1, SizesAssumption
  <1>3. DevShape(dev)
    BY <1>1, <1>2 DEF DevShape, RowsShape, QuantShape, Fresh, FreshRows
  <1>4. HostShape(host)
    BY DEF Init, HostShape, RowsShape, Fresh, FreshRows
  <1>5. PassOK(pass) /\ CountOK(kvPos, pass)
    BY <1>1, <1>2 DEF PassOK, CountOK, Idle, LastLayer
  <1>6. KvOK(kv)
    BY <1>1 DEF KvOK
  <1>7. RecOK(rec)
    <2>1. IsWindow([i \in 1..(c.convK - 1) |-> Zeros])
      BY <1>2, FreshWindow
    <2> QED
      BY <1>1, <2>1 DEF RecOK
  <1> QED
    BY <1>1, <1>3, <1>4, <1>5, <1>6, <1>7 DEF TypeInv

\* A step within a layer keeps the invariant when the parts it writes do.
LEMMA WithinType ==
    ASSUME TypeInv, Framed, Shaped, RecOK(rec')
    PROVE  TypeInv'
  <1>1. c' = c /\ kvPos' = kvPos /\ Within(pass, pass')
    BY DEF Framed
  <1>2. PassOK(pass') /\ CountOK(kvPos', pass')
    BY <1>1 DEF TypeInv, PassOK, CountOK, Within
  <1>3. c' \in Configs /\ DevShape(dev') /\ HostShape(host') /\ KvOK(kv')
    BY <1>1 DEF TypeInv, Shaped
  <1>4. LastLayer' = LastLayer /\ DeviceEngine' = DeviceEngine /\ HostEngine' = HostEngine
    BY <1>1 DEF LastLayer, DeviceEngine, HostEngine
  <1>5. /\ PassOK(pass)' /\ CountOK(kvPos, pass)'
    BY <1>2, <1>4 DEF PassOK, CountOK
  <1>6. RecOK(rec)'
    BY <1>1 DEF RecOK, IsWindow, Layers
  <1>7. DevShape(dev)' /\ HostShape(host)' /\ KvOK(kv)'
    BY <1>3 DEF DevShape, HostShape, KvOK, RowsShape, QuantShape, Slots, Layers, Positions
  <1> QED
    BY <1>3, <1>5, <1>6, <1>7 DEF TypeInv

\* The steps within a layer keep the invariant.
LEMMA LayersType ==
    ASSUME TypeInv, DenseGPU \/ HybridGPU \/ ExpertsNext \/ HostLayers
    PROVE  TypeInv'
  <1>1. DevShape(dev) /\ HostShape(host) /\ KvOK(kv) /\ RecOK(rec)
    BY DEF TypeInv
  <1>2. CASE DenseGPU \/ ExpertsNext
    BY <1>1, <1>2, DenseQuiet, ExpertsQuiet, WithinType DEF Quiet
  <1>3. CASE HybridGPU
    BY <1>1, <1>3, HybridFrame, HybridShaped, WithinType DEF Shaped
  <1>4. CASE HostLayers
    BY <1>1, <1>4, HostFrame, HostShaped, WithinType DEF Shaped
  <1> QED
    BY <1>2, <1>3, <1>4

\* The steps between layers.
LEMMA BetweenType ==
    ASSUME TypeInv, NEW p, PassOK(p), CountOK(kvPos', p), pass' = p, c' = c,
           DevShape(dev'), HostShape(host'), kv' = kv, RecOK(rec')
    PROVE  TypeInv'
  <1>1. LastLayer' = LastLayer /\ DeviceEngine' = DeviceEngine /\ HostEngine' = HostEngine
    BY DEF LastLayer, DeviceEngine, HostEngine
  <1>2. PassOK(pass') /\ CountOK(kvPos', pass')
    OBVIOUS
  <1>3. PassOK(pass)' /\ CountOK(kvPos, pass)'
    BY <1>1, <1>2 DEF PassOK, CountOK
  <1>4. RecOK(rec)'
    BY DEF RecOK, IsWindow, Layers
  <1>5. DevShape(dev)' /\ HostShape(host)' /\ KvOK(kv)' /\ (c \in Configs)'
    BY DEF TypeInv, DevShape, HostShape, KvOK, RowsShape, QuantShape, Slots, Layers, Positions
  <1> QED
    BY <1>3, <1>4, <1>5 DEF TypeInv

\* The steps between layers, one by one.
LEMMA StartType ==
    ASSUME TypeInv, NEW T \in 1..MaxBatch, NEW all \in BOOLEAN, Start(T, all)
    PROVE  TypeInv'
  <1>1. /\ pass.stage = "idle" /\ kvPos + T <= MaxPos
        /\ \E e \in {DeviceEngine, HostEngine} :
              pass' = [Idle EXCEPT !.T = T, !.all = all, !.stage = "embed", !.engine = e]
        /\ UNCHANGED <<c, dev, host, kv, rec, kvPos, logits>>
    BY DEF Start
  <1>2. PICK e \in {DeviceEngine, HostEngine} :
              pass' = [Idle EXCEPT !.T = T, !.all = all, !.stage = "embed", !.engine = e]
    BY <1>1
  <1>3. /\ {"T", "L", "stage", "engine", "fold"} \subseteq DOMAIN pass'
        /\ pass'.T = T /\ pass'.L = 0 /\ pass'.stage = "embed" /\ pass'.engine = e
    BY <1>2 DEF Idle
  <1>4. PassOK(pass') /\ CountOK(kvPos', pass')
    BY <1>1, <1>3, SizedByType, SizesAssumption DEF PassOK, CountOK
  <1> QED
    BY <1>1, <1>4, BetweenType DEF TypeInv

LEMMA EmbedType ==
    ASSUME TypeInv, EmbedPass
    PROVE  TypeInv'
  <1>1. pass.stage = "embed" /\ pass' = [pass EXCEPT !.stage = "out"] /\ UNCHANGED <<c, kv, rec, kvPos, logits>>
    BY DEF EmbedPass, Goto
  <1>2. PassOK(pass') /\ CountOK(kvPos', pass')
    BY <1>1 DEF TypeInv, PassOK, CountOK
  <1>3. DevShape(dev')
    <2>1. dev' \in {EmbedTokens(dev), dev}
      BY DEF EmbedPass
    <2> QED
      BY <2>1, KernelShapesQ35 DEF TypeInv
  <1>4. HostShape(host')
    <2>1. \E f : host' \in {host, PutAll(host, "hidden", f)}
      BY DEF EmbedPass, Each
    <2> QED
      BY <2>1, EachHost DEF TypeInv
  <1> QED
    BY <1>1, <1>2, <1>3, <1>4, BetweenType DEF TypeInv

LEMMA CopyType ==
    ASSUME TypeInv, gpuCopyHiddenOut
    PROVE  TypeInv'
  <1>1. pass.stage = "out" /\ pass' = [pass EXCEPT !.engine = HostEngine] /\ UNCHANGED <<c, dev, kv, rec, kvPos, logits>>
    BY DEF gpuCopyHiddenOut
  <1>2. PassOK(pass') /\ CountOK(kvPos', pass')
    BY <1>1 DEF TypeInv, PassOK, CountOK
  <1>3. HostShape(host')
    BY EachHost DEF gpuCopyHiddenOut, Each, TypeInv
  <1> QED
    BY <1>1, <1>2, <1>3, BetweenType DEF TypeInv

LEMMA NextLayerType ==
    ASSUME TypeInv, NextLayer
    PROVE  TypeInv'
  <1>1. /\ pass.stage = "out" /\ pass.L < LastLayer
        /\ pass' = [pass EXCEPT !.L = pass.L + 1, !.stage = "norm"] /\ UNCHANGED <<c, kv, rec, kvPos, logits>>
    BY DEF NextLayer
  <1>2. /\ {"T", "L", "stage", "engine", "fold"} \subseteq DOMAIN pass'
        /\ pass'.T = pass.T /\ pass'.L = pass.L + 1 /\ pass'.stage = "norm" /\ pass'.engine = pass.engine
    BY <1>1 DEF TypeInv, PassOK
  <1>3. PassOK(pass') /\ CountOK(kvPos', pass')
    BY <1>1, <1>2, SizedByType DEF TypeInv, PassOK, CountOK
  <1>4. DevShape(dev') /\ HostShape(host')
    <2>1. \E f : dev' \in {dev, PutAll(dev, "hidden", f)} /\ host' \in {host, PutAll(host, "hidden", f)}
      BY DEF NextLayer, Each
    <2> QED
      BY <2>1, EachHost, PutAllDev DEF TypeInv
  <1> QED
    BY <1>1, <1>3, <1>4, BetweenType DEF TypeInv

LEMMA IdlePass ==
    ASSUME TypeInv, NEW n \in 0..MaxPos
    PROVE  PassOK(Idle) /\ CountOK(n, Idle) /\ Idle.T = 0 /\ Idle.L = 0 /\ Idle.stage = "idle"
  BY SizedByType, SizesAssumption DEF PassOK, CountOK, Idle

LEMMA LMHeadType ==
    ASSUME TypeInv, LMHead
    PROVE  TypeInv'
  <1>1. pass' = Idle /\ kvPos' = kvPos + pass.T /\ UNCHANGED <<c, kv, rec>>
    BY DEF LMHead, Advanced
  <1>2. kvPos' \in 0..MaxPos
    BY <1>1, SizedByType, SizesAssumption DEF TypeInv, CountOK
  <1>3. DevShape(dev')
    <2>1. dev' \in {HeadOf(NamedRows(dev)), dev}
      BY DEF LMHead
    <2>2. DevShape(NamedRows(dev))
      BY PutAllDev DEF NamedRows, Each, TypeInv
    <2> QED
      BY <2>1, <2>2, HeadShape, SizedByType DEF TypeInv
  <1>4. HostShape(host')
    <2>1. host' \in {HostHead(NamedRows(host)), host}
      BY DEF LMHead
    <2>2. HostShape(NamedRows(host))
      BY EachHost DEF NamedRows, Each, TypeInv
    <2> QED
      BY <2>1, <2>2, HostHeadShape DEF TypeInv
  <1>5. PassOK(Idle) /\ CountOK(kvPos', Idle)
    BY <1>2, IdlePass
  <1> QED
    BY <1>1, <1>3, <1>4, <1>5, BetweenType DEF TypeInv

LEMMA ClearType ==
    ASSUME TypeInv, clearKVCache
    PROVE  TypeInv'
  <1>1. /\ pass' = pass /\ pass.stage = "idle" /\ kvPos' = 0 /\ UNCHANGED <<c, dev, host, kv>>
        /\ rec' = [L \in Layers |-> [conv |-> [i \in 1..(c.convK - 1) |-> Zeros], gdn |-> Zeros]]
    BY DEF clearKVCache
  <1>2. pass = Idle
    BY <1>1 DEF TypeInv, PassOK
  <1>3. RecOK(rec')
    <2>1. IsWindow([i \in 1..(c.convK - 1) |-> Zeros])
      BY SizedByType, FreshWindow DEF Kernel
    <2> QED
      BY <1>1, <2>1 DEF RecOK
  <1>4. PassOK(Idle) /\ CountOK(0, Idle)
    BY IdlePass, SizesAssumption
  <1> QED
    BY <1>1, <1>2, <1>3, <1>4, BetweenType DEF TypeInv

\* Every step keeps the invariant.
LEMMA NextType == ASSUME TypeInv, [Next]_vars PROVE TypeInv'
  <1>1. CASE UNCHANGED vars
    BY <1>1 DEF vars, TypeInv, PassOK, CountOK, KvOK, RecOK, IsWindow, DevShape, HostShape, RowsShape, QuantShape,
               LastLayer, DeviceEngine, HostEngine
  <1>2. CASE Next
    BY <1>2, StartType, EmbedType, CopyType, NextLayerType, LMHeadType, ClearType, LayersType DEF Next
  <1> QED
    BY <1>1, <1>2

LEMMA TypeOKByType == ASSUME TypeInv PROVE TypeOK
  <1>1. pass.L \in 0..NumLayers /\ kvPos \in 0..MaxPos
    BY SizedByType, SizesAssumption DEF TypeInv, PassOK, CountOK
  <1>2. \A L \in Layers : Len(rec[L].conv) = c.convK - 1
    BY DEF TypeInv, RecOK, IsWindow
  <1> QED
    BY <1>1, <1>2 DEF TypeInv, TypeOK, PassOK, CountOK, DevShape, HostShape, RowsShape, QuantShape, KvOK

\* The shapes of all buffers, of a pass and of the position are invariant.
THEOREM Invariant == Spec => []TypeInv
  BY InitType, NextType, PTL DEF Spec

\* TypeOK, for every configuration: the position never leaves the cache, every
\* row that a launch writes exists, and no pass changes the shape of a buffer,
\* of a window or of the cache.
THEOREM TypeCorrect == Spec => []TypeOK
  BY Invariant, TypeOKByType, PTL

-----------------------------------------------------------------------------
(* The recurrent state.  Layer L has seen the tokens of the session, and   *)
(* those of the pass once its recurrence has run.                           *)

RecCount(p, n, L) ==
    IF L < p.L \/ (L = p.L /\ p.stage \notin NotYet) THEN n + p.T ELSE n
RecInv ==
    \A L \in 1..LastLayer : Recurrent(c, L) => RecAt(rec[L], L, RecCount(pass, kvPos, L))

\* What the steps before the recurrence have put in the buffers.
Normed(t) == IF OnGpu THEN Row(dev, "norm", t) ELSE Row(host, "attnNorm", t)
RowsInv ==
    /\ pass.stage = "norm" => \A t \in Tokens : HiddenOf(t) = X(pass.L, PosOf(t))
    /\ pass.stage = "recurrent" =>
          Recurrent(c, pass.L) /\ \A t \in Tokens : Normed(t) = AttnIn(pass.L, PosOf(t))
    /\ pass.stage = "recurrence" =>
          \A t \in Tokens : /\ Row(dev, "qkv", t) = QKVOf(pass.L, PosOf(t))
                            /\ Row(dev, "q35Beta", t) = BetaOf(pass.L, PosOf(t))
                            /\ Row(dev, "q35GateV", t) = GateOf(pass.L, PosOf(t))
StateInv == TypeInv /\ RecInv /\ RowsInv

\* A step that moves neither the state nor the count keeps the invariant.
LEMMA RecKept ==
    ASSUME TypeInv, RecInv, c' = c, rec' = rec,
           \A L \in 1..LastLayer : Recurrent(c, L) => RecCount(pass', kvPos', L) = RecCount(pass, kvPos, L)
    PROVE  RecInv'
  <1>1. LastLayer' = LastLayer
    BY DEF LastLayer
  <1>2. \A L \in 1..LastLayer : Recurrent(c', L) => RecAt(rec'[L], L, RecCount(pass', kvPos', L))
    BY DEF RecInv
  <1> QED
    BY <1>1, <1>2 DEF RecInv, RecAt, RecCount

\* A recurrence that advances its layer by the tokens of the pass keeps it.
LEMMA RecAdvanced ==
    ASSUME TypeInv, RecInv, c' = c, kvPos' = kvPos, Within(pass, pass'),
           pass.stage \in NotYet, pass'.stage \notin NotYet,
           NEW m, rec' = [rec EXCEPT ![pass.L] = [conv |-> m.conv, gdn |-> m.gdn]],
           Recurrent(c, pass.L) => RecAt(m, pass.L, kvPos + pass.T)
    PROVE  RecInv'
  <1>1. LastLayer' = LastLayer /\ LastLayer \in 0..NumLayers /\ pass.L \in 0..LastLayer
    BY SizedByType DEF LastLayer, TypeInv, PassOK
  <1>2. pass'.L = pass.L /\ pass'.T = pass.T
    BY DEF Within
  <1>3. \A L \in 1..LastLayer : Recurrent(c, L) => RecAt(rec'[L], L, RecCount(pass', kvPos', L))
    <2> SUFFICES ASSUME NEW L \in 1..LastLayer, Recurrent(c, L)
                 PROVE  RecAt(rec'[L], L, RecCount(pass', kvPos', L))
      OBVIOUS
    <2>1. L \in DOMAIN rec
      BY <1>1, SizesAssumption DEF TypeInv, RecOK, Layers
    <2>2. CASE L = pass.L
      <3>1. RecCount(pass', kvPos', L) = kvPos + pass.T
        BY <1>2, <2>2 DEF RecCount
      <3>2. rec'[L] = [conv |-> m.conv, gdn |-> m.gdn]
        BY <2>1, <2>2
      <3> QED
        BY <2>2, <3>1, <3>2 DEF RecAt
    <2>3. CASE L # pass.L
      <3>1. RecCount(pass', kvPos', L) = RecCount(pass, kvPos, L)
        BY <1>2, <2>3 DEF RecCount
      <3>2. rec'[L] = rec[L]
        BY <2>1, <2>3
      <3> QED
        BY <3>1, <3>2 DEF RecInv
    <2> QED
      BY <2>2, <2>3
  <1> QED
    BY <1>1, <1>3 DEF RecInv, RecAt, RecCount

\* The steps that leave the recurrent state alone.
LEMMA QuietState ==
    ASSUME TypeInv, RecInv, Quiet
    PROVE  RecInv' /\ RowsInv'
  <1>1. /\ c' = c /\ kvPos' = kvPos /\ Within(pass, pass') /\ rec' = rec /\ pass'.stage \notin NotYet
        /\ pass.stage \in NotYet => ~Recurrent(c, pass.L)
    BY DEF Quiet, Framed, Calm
  <1>2. \A L \in 1..LastLayer : Recurrent(c, L) => RecCount(pass', kvPos', L) = RecCount(pass, kvPos, L)
    BY <1>1 DEF RecCount, Within
  <1>3. RecInv'
    BY <1>1, <1>2, RecKept
  <1>4. RowsInv'
    BY <1>1 DEF RowsInv, NotYet
  <1> QED
    BY <1>3, <1>4

\* The norm that precedes the recurrence.
LEMMA NormState ==
    ASSUME StateInv, HybridNorm \/ Q35Norm
    PROVE  RecInv' /\ RowsInv'
  <1>1. TypeInv /\ RecInv /\ RowsInv
    BY DEF StateInv
  <1>2. /\ pass.stage = "norm" /\ UNCHANGED <<c, rec, kvPos>>
        /\ pass' = [pass EXCEPT !.stage = IF Recurrent(c, pass.L) THEN "recurrent" ELSE "attention"]
    BY DEF HybridNorm, Q35Norm, Stage, Goto
  <1>3. /\ pass'.T = pass.T /\ pass'.L = pass.L /\ pass'.engine = pass.engine
        /\ pass'.stage = IF Recurrent(c, pass.L) THEN "recurrent" ELSE "attention"
    BY <1>1, <1>2 DEF TypeInv, PassOK
  <1>4. RecInv'
    <2>1. \A L \in 1..LastLayer : Recurrent(c, L) => RecCount(pass', kvPos', L) = RecCount(pass, kvPos, L)
      BY <1>2, <1>3 DEF RecCount, NotYet
    <2> QED
      BY <1>1, <1>2, <2>1, RecKept
  <1>5. \A t \in Tokens : HiddenOf(t) = X(pass.L, PosOf(t))
    BY <1>1, <1>2 DEF RowsInv
  <1>6. \A t \in Tokens : t \in Slots
    BY <1>1, SizedByType, SizesAssumption DEF Sized, Tokens, Slots
  <1>7. Tokens' = Tokens /\ OnGpu' = OnGpu /\ \A t \in Tokens : PosOf(t)' = PosOf(t)
    BY <1>2, <1>3 DEF Tokens, OnGpu, PosOf
  <1>8. \A t \in Tokens : Normed(t)' = AttnIn(pass.L, PosOf(t))
    <2>1. CASE HybridNorm
      <3> DEFINE f == [t \in Tokens |-> Norm(Weight(pass.L, "rmsNormAttn"), Row(dev, "hidden", t))]
      <3>1. OnGpu
        BY <2>1 DEF HybridNorm, Stage, OnGpu
      <3>2. dev' = PutAll(dev, "norm", f)
        BY <2>1 DEF HybridNorm, kRMSNormRow, Each
      <3>3. \A t \in Tokens : f[t] = AttnIn(pass.L, PosOf(t))
        BY <1>5, <3>1 DEF HiddenOf, AttnIn
      <3> HIDE DEF f
      <3>4. \A t \in Tokens : Row(PutAll(dev, "norm", f), "norm", t) = f[t]
        <4>1. "norm" \in DevBuffers /\ RowsShape(dev, DevBuffers)
          BY <1>1 DEF DevBuffers, TypeInv, DevShape
        <4> QED
          BY <1>6, <4>1, PutAllRow
      <3>5. \A t \in Tokens : Row(dev', "norm", t) = f[t]
        BY <3>2, <3>4
      <3> QED
        BY <1>7, <3>1, <3>3, <3>5 DEF Normed, Row
    <2>2. CASE Q35Norm
      <3> DEFINE f == [t \in Tokens |-> Norm(W("rmsNormAttn"), Row(host, "hidden", t))]
      <3>1. ~OnGpu
        BY <2>2 DEF Q35Norm, Stage, OnGpu
      <3>2. host' = PutAll(host, "attnNorm", f)
        BY <2>2 DEF Q35Norm, rmsNorm, Each
      <3>3. \A t \in Tokens : f[t] = AttnIn(pass.L, PosOf(t))
        BY <1>5, <3>1 DEF HiddenOf, AttnIn, W
      <3> HIDE DEF f
      <3>4. \A t \in Tokens : Row(PutAll(host, "attnNorm", f), "attnNorm", t) = f[t]
        <4>1. "attnNorm" \in HostBuffers /\ RowsShape(host, HostBuffers)
          BY <1>1 DEF HostBuffers, TypeInv, HostShape
        <4> QED
          BY <1>6, <4>1, PutAllRow
      <3>5. \A t \in Tokens : Row(host', "attnNorm", t) = f[t]
        BY <3>2, <3>4
      <3> QED
        BY <1>7, <3>1, <3>3, <3>5 DEF Normed, Row
    <2> QED
      BY <2>1, <2>2
  <1>9. RowsInv'
    <2>1. pass'.stage # "norm" /\ pass'.stage # "recurrence"
      BY <1>3
    <2>2. \A t \in Tokens : Normed(t)' = AttnIn(pass'.L, PosOf(t)')
      BY <1>3, <1>7, <1>8
    <2>3. (\A t \in Tokens : Normed(t) = AttnIn(pass.L, PosOf(t)))'
      BY <1>7, <2>2
    <2>4. pass'.stage = "recurrent" => Recurrent(c', pass'.L)
      BY <1>2, <1>3
    <2> QED
      BY <2>1, <2>3, <2>4 DEF RowsInv
  <1> QED
    BY <1>4, <1>9

\* The projections on the device feed the recurrence.
LEMMA ProjectionState ==
    ASSUME StateInv, RecurrentProjections, Recurrent(c, pass.L) => Knows(c)
    PROVE  RecInv' /\ RowsInv'
  <1>1. TypeInv /\ RecInv /\ RowsInv
    BY DEF StateInv
  <1>2. /\ pass.stage = "recurrent" /\ pass' = [pass EXCEPT !.stage = "recurrence"] /\ UNCHANGED <<c, rec, kvPos>>
        /\ OnGpu
    BY DEF RecurrentProjections, Stage, Goto, OnGpu
  <1>3. pass'.T = pass.T /\ pass'.L = pass.L /\ pass'.stage = "recurrence"
    BY <1>1, <1>2 DEF TypeInv, PassOK
  <1>4. RecInv'
    <2>1. \A L \in 1..LastLayer : Recurrent(c, L) => RecCount(pass', kvPos', L) = RecCount(pass, kvPos, L)
      BY <1>2, <1>3 DEF RecCount, NotYet
    <2> QED
      BY <1>1, <1>2, <2>1, RecKept
  <1>5. RowsInv'
    <2>0. Knows(c)
      BY <1>1, <1>2 DEF RowsInv
    <2> DEFINE x == [t \in Tokens |-> AttnIn(pass.L, PosOf(t))]
    <2>1. \A t \in Tokens : x[t] = AttnIn(pass.L, PosOf(t)) /\ Row(dev, "norm", t) = x[t]
      BY <1>1, <1>2 DEF RowsInv, Normed
    <2> HIDE DEF x
    <2>2. \A t \in Tokens :
             /\ Row(dev', "qkv", t) = Mul(Weight(pass.L, "attnQKV"), x[t])
             /\ Row(dev', "q35Beta", t) = Sigmoid(Mul(Weight(pass.L, "ssmBeta"), x[t]))
             /\ Row(dev', "q35GateV", t) = Softplus(Weight(pass.L, "ssmA"), Mul(Weight(pass.L, "ssmAlpha"), x[t]))
      <3> DEFINE qkvz == gemv(gemv(dev, "attnQKV", "norm", "qkv"), "attnGate", "norm", "q35z")
                 e == kQ35BetaGate(gemv(gemv(qkvz, "ssmBeta", "norm", "q35Beta"), "ssmAlpha", "norm", "q35GateV"))
      <3>1. dev' = e
        BY Zenon DEF RecurrentProjections
      <3>2. Sized /\ DevShape(dev)
        BY <1>1, SizedByType DEF TypeInv
      <3>3. \A t \in Tokens :
             /\ Row(e, "qkv", t) = Mul(Weight(pass.L, "attnQKV"), x[t])
             /\ Row(e, "q35Beta", t) = Sigmoid(Mul(Weight(pass.L, "ssmBeta"), x[t]))
             /\ Row(e, "q35GateV", t) = Softplus(Weight(pass.L, "ssmA"), Mul(Weight(pass.L, "ssmAlpha"), x[t]))
        BY <2>0, <2>1, <3>2, ProjectionRows
      <3> HIDE DEF e
      <3> QED
        BY <3>1, <3>3
    <2>3. \A t \in Tokens : /\ Row(dev', "qkv", t) = QKVOf(pass.L, PosOf(t))
                            /\ Row(dev', "q35Beta", t) = BetaOf(pass.L, PosOf(t))
                            /\ Row(dev', "q35GateV", t) = GateOf(pass.L, PosOf(t))
      BY <2>1, <2>2 DEF QKVOf, BetaOf, GateOf
    <2>4. Tokens' = Tokens /\ \A t \in Tokens : PosOf(t)' = PosOf(t)
      BY <1>2, <1>3 DEF Tokens, PosOf
    <2>5. (\A t \in Tokens : /\ Row(dev, "qkv", t) = QKVOf(pass.L, PosOf(t))
                             /\ Row(dev, "q35Beta", t) = BetaOf(pass.L, PosOf(t))
                             /\ Row(dev, "q35GateV", t) = GateOf(pass.L, PosOf(t)))'
      BY <1>3, <2>3, <2>4 DEF Row
    <2> QED
      BY <1>3, <2>5 DEF RowsInv
  <1> QED
    BY <1>4, <1>5

\* The recurrence on the device advances its layer.
LEMMA RecurrenceState ==
    ASSUME StateInv, Recurrence
    PROVE  RecInv' /\ RowsInv'
  <1>1. TypeInv /\ RecInv /\ RowsInv
    BY DEF StateInv
  <1> DEFINE m == DevScan(pass.T)
  <1>2. /\ pass.stage = "recurrence" /\ pass' = [pass EXCEPT !.stage = "ffn"] /\ UNCHANGED <<c, kvPos>>
        /\ rec' = [rec EXCEPT ![pass.L] = [conv |-> m.conv, gdn |-> m.gdn]]
    BY RecurrenceScan DEF Recurrence, Stage, Goto
  <1>3. Within(pass, pass') /\ pass'.stage = "ffn"
    BY <1>1, <1>2, StageMoves
  <1>4. pass.L \in 1..LastLayer /\ pass.L \in Layers
    BY <1>1, <1>2, SizedByType, SizesAssumption DEF TypeInv, PassOK, Layers
  <1>5. DevGood(m, pass.T)
    BY <1>1, <1>4, SizedByType, DevScanFacts DEF TypeInv, RecOK
  <1> HIDE DEF m
  <1>6. ASSUME Recurrent(c, pass.L)
        PROVE  RecAt(m, pass.L, kvPos + pass.T)
    <2>1. RecAt(rec[pass.L], pass.L, kvPos)
      <3>1. RecCount(pass, kvPos, pass.L) = kvPos
        BY <1>2, <1>4 DEF RecCount, NotYet
      <3> QED
        BY <1>1, <1>4, <1>6, <3>1 DEF RecInv
    <2>2. DevFed
      BY <1>1, <1>2, <2>1 DEF DevFed, RowsInv
    <2> QED
      BY <1>5, <2>2 DEF DevGood
  <1>7. RecInv'
    BY <1>1, <1>2, <1>3, <1>6, RecAdvanced DEF NotYet
  <1>8. RowsInv'
    BY <1>3 DEF RowsInv
  <1> QED
    BY <1>7, <1>8

\* The recurrence on the host advances its layer.
LEMMA HostRecurrenceState ==
    ASSUME StateInv, forwardQwen35Recurrent, Recurrent(c, pass.L) => Knows(c)
    PROVE  RecInv' /\ RowsInv'
  <1>1. TypeInv /\ RecInv /\ RowsInv
    BY DEF StateInv
  <1> DEFINE m == HostScan(pass.T)
  <1>2. /\ pass.stage = "recurrent" /\ ~OnGpu /\ pass' = [pass EXCEPT !.stage = "ffn"] /\ UNCHANGED <<c, kvPos>>
        /\ rec' = [rec EXCEPT ![pass.L] = [conv |-> m.conv, gdn |-> m.gdn]]
    BY RecurrentScan DEF forwardQwen35Recurrent, Stage, Goto, OnGpu
  <1>3. Within(pass, pass') /\ pass'.stage = "ffn"
    BY <1>1, <1>2, StageMoves
  <1>4. pass.L \in 1..LastLayer /\ pass.L \in Layers
    BY <1>1, <1>2, SizedByType, SizesAssumption DEF TypeInv, PassOK, Layers
  <1>5. HostGood(m, pass.T)
    BY <1>1, <1>4, SizedByType, HostScanFacts DEF TypeInv, RecOK
  <1> HIDE DEF m
  <1>6. ASSUME Recurrent(c, pass.L)
        PROVE  RecAt(m, pass.L, kvPos + pass.T)
    <2>1. RecAt(rec[pass.L], pass.L, kvPos)
      <3>1. RecCount(pass, kvPos, pass.L) = kvPos
        BY <1>2, <1>4 DEF RecCount, NotYet
      <3> QED
        BY <1>1, <1>4, <1>6, <3>1 DEF RecInv
    <2>2. HostFed
      BY <1>1, <1>2, <1>6, <2>1 DEF HostFed, RowsInv, Normed
    <2> QED
      BY <1>5, <2>2 DEF HostGood
  <1>7. RecInv'
    BY <1>1, <1>2, <1>3, <1>6, RecAdvanced DEF NotYet
  <1>8. RowsInv'
    BY <1>3 DEF RowsInv
  <1> QED
    BY <1>7, <1>8

LEMMA StartFrame ==
    ASSUME NEW T \in 1..MaxBatch, NEW all \in BOOLEAN, Start(T, all)
    PROVE  /\ pass.stage = "idle" /\ UNCHANGED <<c, dev, host, kv, rec, kvPos, logits>>
           /\ pass'.L = 0 /\ pass'.stage = "embed"
  <1>1. /\ pass.stage = "idle" /\ UNCHANGED <<c, dev, host, kv, rec, kvPos, logits>>
        /\ \E e \in {DeviceEngine, HostEngine} :
              pass' = [Idle EXCEPT !.T = T, !.all = all, !.stage = "embed", !.engine = e]
    BY DEF Start
  <1> QED
    BY <1>1 DEF Idle

\* Between layers: the counts of the recurrent layers stay what they are.
LEMMA BetweenState ==
    ASSUME StateInv, \/ \E T \in 1..MaxBatch, all \in BOOLEAN : Start(T, all)
                     \/ EmbedPass \/ gpuCopyHiddenOut \/ LMHead
    PROVE  RecInv' /\ RowsInv'
  <1>1. TypeInv /\ RecInv /\ c' = c /\ rec' = rec
    <2>1. CASE \E T \in 1..MaxBatch, all \in BOOLEAN : Start(T, all)
      BY <2>1, StartFrame DEF StateInv
    <2> QED
      BY <2>1 DEF StateInv, EmbedPass, gpuCopyHiddenOut, LMHead
  <1>2. /\ pass'.stage \notin NotYet
        /\ \A L \in 1..LastLayer : RecCount(pass', kvPos', L) = RecCount(pass, kvPos, L)
    <2>0. LastLayer \in Nat /\ pass.L \in Nat /\ pass.L <= LastLayer
      BY <1>1, SizedByType, SizesAssumption DEF TypeInv, PassOK
    <2>1. CASE \E T \in 1..MaxBatch, all \in BOOLEAN : Start(T, all)
      <3>1. pass = Idle /\ kvPos' = kvPos /\ pass'.L = 0 /\ pass'.stage = "embed"
        BY <1>1, <2>1, StartFrame DEF TypeInv, PassOK, Idle
      <3> QED
        BY <2>0, <3>1 DEF RecCount, NotYet, Idle
    <2>2. CASE EmbedPass
      <3>1. pass.stage = "embed" /\ kvPos' = kvPos /\ pass' = [pass EXCEPT !.stage = "out"]
        BY <2>2 DEF EmbedPass, Goto
      <3>2. pass'.T = pass.T /\ pass'.L = pass.L /\ pass'.stage = "out"
        BY <1>1, <3>1 DEF TypeInv, PassOK
      <3> QED
        BY <3>1, <3>2 DEF RecCount, NotYet
    <2>3. CASE gpuCopyHiddenOut
      <3>1. pass.stage = "out" /\ kvPos' = kvPos /\ pass' = [pass EXCEPT !.engine = HostEngine]
        BY <2>3 DEF gpuCopyHiddenOut
      <3>2. pass'.T = pass.T /\ pass'.L = pass.L /\ pass'.stage = "out"
        BY <1>1, <3>1 DEF TypeInv, PassOK
      <3> QED
        BY <3>1, <3>2 DEF RecCount, NotYet
    <2>4. CASE LMHead
      <3>1. pass.stage = "out" /\ pass.L = LastLayer /\ pass' = Idle /\ kvPos' = kvPos + pass.T
        BY <2>4 DEF LMHead, HeadReached, Advanced
      <3> QED
        BY <2>0, <3>1 DEF RecCount, NotYet, Idle
    <2> QED
      BY <2>1, <2>2, <2>3, <2>4
  <1>3. RecInv'
    BY <1>1, <1>2, RecKept
  <1>4. RowsInv'
    BY <1>2 DEF RowsInv, NotYet
  <1> QED
    BY <1>3, <1>4

LEMMA NextLayerState ==
    ASSUME StateInv, NextLayer
    PROVE  RecInv' /\ RowsInv'
  <1>1. TypeInv /\ RecInv
    BY DEF StateInv
  <1>2. /\ pass.stage = "out" /\ pass.L < LastLayer /\ UNCHANGED <<c, rec, kvPos>>
        /\ pass' = [pass EXCEPT !.L = pass.L + 1, !.stage = "norm"]
    BY DEF NextLayer
  <1>3. /\ pass'.T = pass.T /\ pass'.L = pass.L + 1 /\ pass'.stage = "norm" /\ pass'.engine = pass.engine
    BY <1>1, <1>2 DEF TypeInv, PassOK
  <1>4. LastLayer \in Nat /\ pass.L \in Nat /\ \A t \in Tokens : t \in Slots
    BY <1>1, SizedByType, SizesAssumption DEF Sized, TypeInv, PassOK, Tokens, Slots
  <1>5. RecInv'
    <2>1. \A L \in 1..LastLayer : RecCount(pass', kvPos', L) = RecCount(pass, kvPos, L)
      BY <1>2, <1>3, <1>4 DEF RecCount, NotYet
    <2> QED
      BY <1>1, <1>2, <2>1, RecKept
  <1>6. Tokens' = Tokens /\ OnGpu' = OnGpu /\ \A t \in Tokens : PosOf(t)' = PosOf(t)
    BY <1>2, <1>3 DEF Tokens, OnGpu, PosOf
  <1>7. \A t \in Tokens : HiddenOf(t)' = X(pass.L + 1, PosOf(t))
    <2> DEFINE f == [t \in Tokens |-> X(pass.L + 1, PosOf(t))]
    <2>1. /\ dev' = IF OnGpu THEN PutAll(dev, "hidden", f) ELSE dev
          /\ host' = IF OnGpu THEN host ELSE PutAll(host, "hidden", f)
      BY DEF NextLayer, Each
    <2>2. \A t \in Tokens : f[t] = X(pass.L + 1, PosOf(t))
      OBVIOUS
    <2> HIDE DEF f
    <2>3. /\ \A t \in Tokens : Row(PutAll(dev, "hidden", f), "hidden", t) = f[t]
          /\ \A t \in Tokens : Row(PutAll(host, "hidden", f), "hidden", t) = f[t]
      <3>1. "hidden" \in DevBuffers /\ "hidden" \in HostBuffers /\ RowsShape(dev, DevBuffers) /\ RowsShape(host, HostBuffers)
        BY <1>1 DEF DevBuffers, HostBuffers, TypeInv, DevShape, HostShape
      <3> QED
        BY <1>4, <3>1, PutAllRow
    <2>4. \A t \in Tokens : IF OnGpu THEN Row(dev', "hidden", t) = f[t] ELSE Row(host', "hidden", t) = f[t]
      BY <2>1, <2>3
    <2> QED
      BY <1>6, <2>2, <2>4 DEF HiddenOf, Row
  <1>8. RowsInv'
    <2>1. (\A t \in Tokens : HiddenOf(t) = X(pass.L, PosOf(t)))'
      BY <1>3, <1>6, <1>7
    <2> QED
      BY <1>3, <2>1 DEF RowsInv
  <1> QED
    BY <1>5, <1>8

LEMMA ClearState ==
    ASSUME StateInv, clearKVCache
    PROVE  RecInv' /\ RowsInv'
  <1>1. /\ c' = c /\ kvPos' = 0 /\ pass' = pass /\ pass.stage = "idle"
        /\ rec' = [L \in Layers |-> [conv |-> [i \in 1..(c.convK - 1) |-> Zeros], gdn |-> Zeros]]
    BY DEF clearKVCache
  <1>2. pass = Idle /\ Kernel /\ LastLayer \in 0..NumLayers
    BY <1>1, SizedByType DEF StateInv, TypeInv, PassOK
  <1>3. LastLayer' = LastLayer
    BY <1>1 DEF LastLayer
  <1>4. \A L \in 1..LastLayer : RecAt(rec'[L], L, RecCount(pass', kvPos', L))
    <2> SUFFICES ASSUME NEW L \in 1..LastLayer
                 PROVE  RecAt(rec'[L], L, RecCount(pass', kvPos', L))
      OBVIOUS
    <2>1. RecCount(pass', kvPos', L) = 0
      BY <1>1, <1>2 DEF RecCount, Idle
    <2>2. rec'[L] = [conv |-> [i \in 1..(c.convK - 1) |-> Zeros], gdn |-> Zeros]
      BY <1>1, <1>2, SizesAssumption DEF Layers
    <2> QED
      BY <1>2, <2>1, <2>2, RecStart
  <1>5. RecInv'
    BY <1>1, <1>3, <1>4 DEF RecInv, RecAt, RecCount
  <1>6. RowsInv'
    BY <1>1 DEF RowsInv
  <1> QED
    BY <1>5, <1>6

LEMMA InitState == ASSUME Init PROVE StateInv
  <1>1. TypeInv
    BY InitType
  <1>2. /\ kvPos = 0 /\ pass = Idle
        /\ rec = [L \in Layers |-> [conv |-> [i \in 1..(c.convK - 1) |-> Zeros], gdn |-> Zeros]]
    BY DEF Init
  <1>3. Kernel /\ LastLayer \in 0..NumLayers
    BY <1>1, SizedByType
  <1>4. RecInv
    <2> SUFFICES ASSUME NEW L \in 1..LastLayer
                 PROVE  RecAt(rec[L], L, RecCount(pass, kvPos, L))
      BY DEF RecInv
    <2>1. RecCount(pass, kvPos, L) = 0
      BY <1>2 DEF RecCount, Idle
    <2>2. rec[L] = [conv |-> [i \in 1..(c.convK - 1) |-> Zeros], gdn |-> Zeros]
      BY <1>2, <1>3, SizesAssumption DEF Layers
    <2> QED
      BY <1>3, <2>1, <2>2, RecStart
  <1>5. RowsInv
    BY <1>2 DEF RowsInv, Idle
  <1> QED
    BY <1>1, <1>4, <1>5 DEF StateInv

\* Every step keeps the invariant.
LEMMA NextState ==
    ASSUME KnownProjections, StateInv, [Next]_vars
    PROVE  StateInv'
  <1>1. TypeInv /\ TypeInv'
    BY NextType DEF StateInv
  <1>2. Recurrent(c, pass.L) => Knows(c)
    BY <1>1 DEF KnownProjections, Recurrent, TypeInv
  <1>3. RecInv' /\ RowsInv'
    <2>1. CASE UNCHANGED vars
      <3>1. c' = c /\ dev' = dev /\ host' = host /\ rec' = rec /\ kvPos' = kvPos /\ pass' = pass
        BY <2>1 DEF vars
      <3>2. RecInv'
        BY <1>1, <3>1, RecKept DEF StateInv
      <3>3. Tokens' = Tokens /\ OnGpu' = OnGpu
        BY <3>1 DEF Tokens, OnGpu
      <3>4. \A t : PosOf(t)' = PosOf(t) /\ HiddenOf(t)' = HiddenOf(t) /\ Normed(t)' = Normed(t)
        BY <3>1, <3>3 DEF PosOf, HiddenOf, Normed, Row
      <3>5. RowsInv'
        BY <3>1, <3>3, <3>4 DEF StateInv, RowsInv, Row
      <3> QED
        BY <3>2, <3>5
    <2>2. CASE DenseGPU \/ ExpertsNext
      BY <1>1, <2>2, DenseQuiet, ExpertsQuiet, QuietState DEF StateInv
    <2>3. CASE HybridGPU
      <3>1. CASE HybridNorm
        BY <3>1, NormState
      <3>2. CASE RecurrentProjections
        BY <1>2, <3>2, ProjectionState
      <3>3. CASE Recurrence
        BY <3>3, RecurrenceState
      <3>4. CASE HybridAttention \/ HybridFFN
        <4>1. Quiet
          BY <1>1, <2>3, <3>4, HybridFrame, HybridShaped DEF Quiet, Shaped, TypeInv
        <4> QED
          BY <1>1, <4>1, QuietState DEF StateInv
      <3> QED
        BY <2>3, <3>1, <3>2, <3>3, <3>4 DEF HybridGPU
    <2>4. CASE HostLayers
      <3>1. CASE Q35Norm
        BY <3>1, NormState
      <3>2. CASE forwardQwen35Recurrent
        BY <1>2, <3>2, HostRecurrenceState
      <3>3. CASE ~Q35Norm /\ ~forwardQwen35Recurrent
        <4>1. Quiet
          BY <1>1, <2>4, <3>3, HostFrame, HostShaped DEF Quiet, Shaped, TypeInv
        <4> QED
          BY <1>1, <4>1, QuietState DEF StateInv
      <3> QED
        BY <3>1, <3>2, <3>3
    <2> QED
      BY <2>1, <2>2, <2>3, <2>4, BetweenState, NextLayerState, ClearState DEF Next
  <1> QED
    BY <1>1, <1>3 DEF StateInv

LEMMA StateInvImplies == ASSUME StateInv PROVE StateAdvancedOnce
  <1> SUFFICES ASSUME pass.stage = "idle", NEW L \in 1..LastLayer, Recurrent(c, L)
               PROVE  rec[L] = [conv |-> Window(c, L, kvPos), gdn |-> StateAt(c, L, kvPos)]
    BY DEF StateAdvancedOnce
  <1>1. pass = Idle /\ LastLayer \in 0..NumLayers /\ RecOK(rec) /\ RecInv
    BY SizedByType DEF StateInv, TypeInv, PassOK
  <1>2. RecCount(pass, kvPos, L) = kvPos
    BY <1>1 DEF RecCount, Idle
  <1>3. RecAt(rec[L], L, kvPos)
    BY <1>1, <1>2 DEF RecInv
  <1>4. rec[L] = [conv |-> rec[L].conv, gdn |-> rec[L].gdn]
    BY <1>1, SizesAssumption DEF RecOK, Layers
  <1> QED
    BY <1>3, <1>4 DEF RecAt

\* StateAdvancedOnce: between passes each recurrent layer has advanced its window
\* (kQ35ConvStep, or the loop of forwardQwen35Recurrent) and its state
\* (kQ35GdnStepBatch) exactly once per token of the session, in order, on
\* whichever engine the layer runs and however the tokens came in passes.
THEOREM StateKept ==
    ASSUME KnownProjections
    PROVE  Spec => []StateAdvancedOnce
  <1>1. StateInv /\ [Next]_vars => StateInv'
    BY NextState
  <1>2. Init => StateInv
    BY InitState
  <1>3. StateInv => StateAdvancedOnce
    BY StateInvImplies
  <1> QED
    BY <1>1, <1>2, <1>3, PTL DEF Spec

-----------------------------------------------------------------------------
(* The logits.                                                             *)

\* The rows of logits that a caller may read.
LogitInv ==
    logits # <<>> =>
        \A t \in DOMAIN logits.rows :
            logits.all \/ t = Len(logits.rows) =>
                logits.rows[t] = LogitsOf(c, LastLayer, logits.from + t - 1)

\* The head writes the rows that its caller may read.
LEMMA HeadLogits ==
    ASSUME KnownHeads, TypeInv, LMHead
    PROVE  LogitInv'
  <1> DEFINE row(t) == IF OnGpu THEN Row(dev', "logits", t) ELSE Row(host', "logits", t)
             rows == [t \in Tokens |-> row(t)]
  <1>1. logits' = [from |-> kvPos, all |-> pass.all, rows |-> rows] /\ HeadReached /\ c' = c
    BY DEF LMHead
  <1>2. Sized /\ DevShape(dev) /\ HostShape(host) /\ c \in Configs /\ pass.T \in Nat
    BY SizedByType DEF TypeInv, Sized
  <1>3. OnGpu => Type("lmHead") \in KnownTypes /\ ~Has(c, "softcap")
    BY <1>1, <1>2, SizesAssumption DEF KnownHeads, HeadReached, Type
  <1>4. Has(c, "softcap") => c.arch = "gemma4"
    BY <1>2 DEF KnownHeads
  <1>5. DOMAIN rows = Tokens /\ Len(rows) = pass.T /\ Tokens = 1..pass.T /\ \A t \in Tokens : rows[t] = row(t)
    BY <1>2 DEF Tokens
  <1>6. ASSUME NEW t \in Tokens, pass.all \/ t = pass.T
        PROVE  row(t) = LogitsOf(c, LastLayer, kvPos + t - 1)
    <2>1. t \in LogitRows /\ t >= logitStart
      BY <1>2, <1>5, <1>6 DEF LogitRows, logitStart
    <2>2. LogitsOf(c, LastLayer, kvPos + t - 1) = IF Has(c, "softcap") THEN Cap(Headed(t)) ELSE Headed(t)
      BY DEF LogitsOf, Headed, PosOf
    <2>3. CASE OnGpu
      <3>1. row(t) = Row(HeadOf(NamedRows(dev)), "logits", t)
        BY <2>3 DEF LMHead
      <3> QED
        BY <1>2, <1>3, <2>1, <2>2, <2>3, <3>1, DeviceHead
    <2>4. CASE ~OnGpu
      <3>1. row(t) = Row(HostHead(NamedRows(host)), "logits", t)
        BY <2>4 DEF LMHead
      <3> QED
        BY <1>2, <1>4, <2>1, <2>2, <3>1, HostHeadRow
    <2> QED
      BY <2>3, <2>4
  <1>7. LastLayer' = LastLayer
    BY <1>1 DEF LastLayer
  <1> HIDE DEF rows, row
  <1> QED
    BY <1>1, <1>5, <1>6, <1>7 DEF LogitInv

LEMMA LogitsKept ==
    ASSUME LogitInv, c' = c, logits' = logits
    PROVE  LogitInv'
  BY DEF LogitInv, LastLayer

\* Every other step leaves them alone, or clears them.
LEMMA NextLogits ==
    ASSUME KnownHeads, TypeInv, LogitInv, [Next]_vars
    PROVE  LogitInv'
  <1>1. DevShape(dev) /\ HostShape(host) /\ KvOK(kv)
    BY DEF TypeInv
  <1>2. CASE UNCHANGED vars
    BY <1>2, LogitsKept DEF vars
  <1>3. CASE \E T \in 1..MaxBatch, all \in BOOLEAN : Start(T, all)
    BY <1>3, LogitsKept DEF Start
  <1>4. CASE EmbedPass \/ gpuCopyHiddenOut \/ NextLayer
    BY <1>4, LogitsKept DEF EmbedPass, gpuCopyHiddenOut, NextLayer
  <1>5. CASE LMHead
    BY <1>5, HeadLogits
  <1>6. CASE clearKVCache
    BY <1>6 DEF clearKVCache, LogitInv
  <1>7. CASE DenseGPU \/ ExpertsNext
    BY <1>7, DenseQuiet, ExpertsQuiet, LogitsKept DEF Quiet, Framed
  <1>8. CASE HybridGPU \/ HostLayers
    BY <1>8, HybridFrame, HostFrame, LogitsKept DEF Framed
  <1> QED
    BY <1>2, <1>3, <1>4, <1>5, <1>6, <1>7, <1>8 DEF Next

\* LogitsOfLastToken: what forward returns is, for the last token and for every
\* token when all were asked for, the head's product with the final norm of the
\* row that left the last layer, capped where the architecture caps it.
THEOREM LogitsRight ==
    ASSUME KnownHeads
    PROVE  Spec => []LogitsOfLastToken
  <1>1. TypeInv /\ LogitInv /\ [Next]_vars => TypeInv' /\ LogitInv'
    BY NextType, NextLogits
  <1>2. Init => TypeInv /\ LogitInv
    BY InitType DEF Init, LogitInv
  <1>3. LogitInv => LogitsOfLastToken
    BY DEF LogitInv, LogitsOfLastToken
  <1> QED
    BY <1>1, <1>2, <1>3, PTL DEF Spec


-----------------------------------------------------------------------------
(* The K/V cache.  The slot of an attention layer holds the rows of the    *)
(* tokens of the session, and those of the pass once its attention has     *)
(* run.                                                                    *)

SlotOf(L) == IF OnDevice(L) THEN kvLayerOffset(L) ELSE L
BeforeStore == {"norm", "qkv", "recurrent", "recurrence", "attention"}
KvCount(p, n, L) == IF L < p.L \/ (L = p.L /\ p.stage \notin BeforeStore) THEN n + p.T ELSE n
KvAt(cache, L, n) == \A p \in 0..(n - 1) : cache[p] = [k |-> KeyOf(c, L, p), v |-> ValueOf(c, L, p)]
KvInv ==
    \A L \in 1..LastLayer : ~Recurrent(c, L) => KvAt(kv[SlotOf(L)], L, KvCount(pass, kvPos, L))

\* The engine of a layer, and the stages of its kind.
PathInv ==
    /\ pass.stage \notin {"idle", "embed", "out"} => (OnGpu <=> OnDevice(pass.L))
    /\ pass.stage \in {"recurrent", "recurrence"} => Recurrent(c, pass.L)
    /\ pass.stage = "attention" => ~Recurrent(c, pass.L)

\* What the steps before the attention have put in the buffers.
Projections(d) ==
    \A t \in Tokens :
        /\ Row(d, "k", t) = Projected(c, pass.L, "attnK", "attnKBias", AttnIn(pass.L, PosOf(t)))
        /\ Row(d, "v", t) = ValueOf(c, pass.L, PosOf(t))
NormedInputs == \A t \in Tokens : Normed(t) = AttnIn(pass.L, PosOf(t))
FoldedNorm == pass.fold => pass.T = 1 /\ dev.q8k.row = Coded("q81", Row(dev, "norm", 1))
KeyInv ==
    /\ pass.stage = "norm" => \A t \in Tokens : HiddenOf(t) = X(pass.L, PosOf(t))
    /\ pass.stage = "qkv" => NormedInputs /\ (pass.engine = "dense" => FoldedNorm)
    /\ pass.stage = "attention" =>
          CASE pass.engine = "dense" -> Projections(dev)
            [] pass.engine = "cpu" -> Projections(host)
            [] OTHER -> NormedInputs
KeptInv == TypeInv /\ KvInv /\ PathInv /\ KeyInv

\* Every n-th layer attends, and the q-th of them has slot q.
LEMMA MultipleOf ==
    ASSUME NEW n \in Nat \ {0}, NEW L \in Nat \ {0}, L % n = 0
    PROVE  ((L - 1) \div n) + 1 \in 1..L /\ L = n * (((L - 1) \div n) + 1)
  <1> DEFINE q == (L - 1) \div n
             r == (L - 1) % n
             p == L \div n
  <1>1. /\ q \in Nat /\ r \in 0..(n - 1) /\ L - 1 = n * q + r
        /\ p \in Nat /\ L = n * p
    OBVIOUS
  <1> HIDE DEF q, r, p
  <1>2. n * (q + 1) = n * q + n /\ n * (p - 1) = n * p - n /\ n * q >= q
    BY <1>1
  <1>3. q < p
    <2>1. SUFFICES ASSUME q >= p PROVE FALSE
      BY <1>1
    <2>2. PICK z \in Nat : q = p + z
      BY <1>1, <2>1
    <2>3. n * q = n * p + n * z /\ n * z \in Nat
      BY <1>1, <2>2
    <2> QED
      BY <1>1, <2>3
  <1>4. p <= q + 1
    <2>1. SUFFICES ASSUME p > q + 1 PROVE FALSE
      BY <1>1
    <2>2. PICK z \in Nat : p = (q + 1) + z
      BY <1>1, <2>1
    <2>3. n * p = n * (q + 1) + n * z /\ n * z >= z
      BY <1>1, <2>2
    <2> QED
      BY <1>1, <1>2, <2>1, <2>2, <2>3
  <1>5. p = q + 1
    BY <1>1, <1>3, <1>4
  <1> QED
    BY <1>1, <1>2, <1>5 DEF q

LEMMA SlotFacts ==
    ASSUME TypeInv, KnowsAttention(c), NEW L \in 1..LastLayer, ~Recurrent(c, L)
    PROVE  /\ L \in Layers /\ SlotOf(L) \in Layers
           /\ c.arch = "qwen35" => kvLayerOffset(L) \in 1..L /\ L = c.interval * kvLayerOffset(L)
           /\ c.arch # "qwen35" => kvLayerOffset(L) = L
  <1>1. L \in Nat \ {0} /\ L \in Layers
    BY SizedByType, SizesAssumption DEF Layers
  <1>2. c.arch # "qwen35" => kvLayerOffset(L) = L
    BY DEF kvLayerOffset
  <1>3. c.arch = "qwen35" => kvLayerOffset(L) \in 1..L /\ L = c.interval * kvLayerOffset(L)
    <2>1. SUFFICES ASSUME c.arch = "qwen35"
                   PROVE  kvLayerOffset(L) \in 1..L /\ L = c.interval * kvLayerOffset(L)
      OBVIOUS
    <2>2. c.interval \in Nat \ {0} /\ L % c.interval = 0
      BY <2>1 DEF KnowsAttention, Recurrent
    <2>3. kvLayerOffset(L) = ((L - 1) \div c.interval) + 1
      BY <2>1 DEF kvLayerOffset
    <2> DEFINE q == ((L - 1) \div c.interval) + 1
    <2>4. q \in 1..L /\ L = c.interval * q
      BY <1>1, <2>2, MultipleOf
    <2> HIDE DEF q
    <2> QED
      BY <2>3, <2>4 DEF q
  <1> QED
    BY <1>1, <1>2, <1>3, SizesAssumption DEF SlotOf, Layers

\* Two attention layers never share a slot: those of the device come first and
\* move down, those of the host stay where they are.
LEMMA SlotsApart ==
    ASSUME TypeInv, KnowsAttention(c), NEW L \in 1..LastLayer, ~Recurrent(c, L),
           NEW M \in 1..LastLayer, ~Recurrent(c, M), SlotOf(L) = SlotOf(M)
    PROVE  L = M
  <1>1. /\ L \in Layers /\ M \in Layers /\ c.ngl \in Nat
        /\ c.arch = "qwen35" => /\ kvLayerOffset(L) \in 1..L /\ L = c.interval * kvLayerOffset(L)
                                /\ kvLayerOffset(M) \in 1..M /\ M = c.interval * kvLayerOffset(M)
        /\ c.arch # "qwen35" => kvLayerOffset(L) = L /\ kvLayerOffset(M) = M
    BY SlotFacts, SizesAssumption DEF TypeInv
  <1>2. CASE c.arch # "qwen35"
    BY <1>1, <1>2 DEF SlotOf
  <1>3. CASE c.arch = "qwen35"
    <2>1. CASE OnDevice(L) /\ OnDevice(M)
      BY <1>1, <1>3, <2>1 DEF SlotOf
    <2>2. CASE ~OnDevice(L) /\ ~OnDevice(M)
      BY <2>2 DEF SlotOf
    <2>3. CASE OnDevice(L) /\ ~OnDevice(M)
      BY <1>1, <1>3, <2>3, SizesAssumption DEF SlotOf, OnDevice, Layers
    <2>4. CASE ~OnDevice(L) /\ OnDevice(M)
      BY <1>1, <1>3, <2>4, SizesAssumption DEF SlotOf, OnDevice, Layers
    <2> QED
      BY <2>1, <2>2, <2>3, <2>4
  <1> QED
    BY <1>2, <1>3

\* The rows a pass stores follow those of the session.
LEMMA StoredRows ==
    ASSUME TypeInv, NEW L, NEW cache, KvAt(cache, L, kvPos), NEW k, NEW v,
           \A t \in Tokens : k[t] = KeyOf(c, L, PosOf(t)) /\ v[t] = ValueOf(c, L, PosOf(t))
    PROVE  KvAt(Stored(cache, k, v), L, kvPos + pass.T)
  <1>1. kvPos \in Nat /\ pass.T \in Nat /\ kvPos + pass.T <= MaxPos /\ MaxPos \in Nat
    BY SizedByType, SizesAssumption DEF TypeInv, CountOK
  <1> DEFINE n == kvPos + pass.T
             stored == Stored(cache, k, v)
  <1> SUFFICES \A p \in 0..(n - 1) : stored[p] = [k |-> KeyOf(c, L, p), v |-> ValueOf(c, L, p)]
    BY Zenon DEF KvAt
  <1> TAKE p \in 0..(n - 1)
  <1>2. p \in Positions
    BY <1>1 DEF Positions
  <1>3. CASE p < kvPos
    <2>1. p - kvPos + 1 \notin Tokens /\ p \in 0..(kvPos - 1)
      BY <1>1, <1>3 DEF Tokens
    <2>2. Stored(cache, k, v)[p] = cache[p]
      BY <1>2, <2>1 DEF Stored
    <2> QED
      BY <2>1, <2>2 DEF KvAt
  <1>4. CASE p >= kvPos
    <2>1. PICK t \in Tokens : t = p - kvPos + 1 /\ PosOf(t) = p
      BY <1>1, <1>4 DEF Tokens, PosOf
    <2>2. Stored(cache, k, v)[p] = [k |-> k[t], v |-> v[t]]
      BY <1>2, <2>1 DEF Stored
    <2> QED
      BY <2>1, <2>2
  <1> QED
    BY <1>1, <1>3, <1>4

\* A step that moves neither the cache nor the count keeps the invariant.
LEMMA KvKept ==
    ASSUME KvInv, c' = c, kv' = kv,
           \A L \in 1..LastLayer : ~Recurrent(c, L) => KvCount(pass', kvPos', L) = KvCount(pass, kvPos, L)
    PROVE  KvInv'
  <1>1. LastLayer' = LastLayer /\ \A L : SlotOf(L)' = SlotOf(L)
    BY DEF LastLayer, SlotOf, OnDevice, kvLayerOffset
  <1>2. \A L \in 1..LastLayer : ~Recurrent(c', L) => KvAt(kv'[SlotOf(L)], L, KvCount(pass', kvPos', L))
    BY DEF KvInv
  <1> QED
    BY <1>1, <1>2 DEF KvInv, KvAt, KvCount

\* An attention that stores the rows of the pass keeps it.
LEMMA KvAdvanced ==
    ASSUME TypeInv, KvInv, KnowsAttention(c), c' = c, kvPos' = kvPos, Within(pass, pass'),
           pass.stage \in BeforeStore, pass'.stage \notin BeforeStore, ~Recurrent(c, pass.L),
           NEW k, NEW v,
           \A t \in Tokens : k[t] = KeyOf(c, pass.L, PosOf(t)) /\ v[t] = ValueOf(c, pass.L, PosOf(t)),
           kv' = [kv EXCEPT ![SlotOf(pass.L)] = Stored(kv[SlotOf(pass.L)], k, v)]
    PROVE  KvInv'
  <1>1. /\ LastLayer' = LastLayer /\ LastLayer \in 0..NumLayers /\ pass.L \in 1..LastLayer
        /\ \A L : SlotOf(L)' = SlotOf(L)
    BY SizedByType, SizesAssumption DEF LastLayer, TypeInv, PassOK, Within, SlotOf, OnDevice, kvLayerOffset
  <1>2. pass'.L = pass.L /\ pass'.T = pass.T
    BY DEF Within
  <1>3. KvAt(Stored(kv[SlotOf(pass.L)], k, v), pass.L, kvPos + pass.T)
    <2>1. KvCount(pass, kvPos, pass.L) = kvPos
      BY <1>1, SizesAssumption DEF KvCount
    <2>2. KvAt(kv[SlotOf(pass.L)], pass.L, kvPos)
      BY <1>1, <2>1 DEF KvInv
    <2> QED
      BY <2>2, StoredRows
  <1>4. \A L \in 1..LastLayer : ~Recurrent(c', L) => KvAt(kv'[SlotOf(L)], L, KvCount(pass', kvPos', L))
    <2> SUFFICES ASSUME NEW L \in 1..LastLayer, ~Recurrent(c, L)
                 PROVE  KvAt(kv'[SlotOf(L)], L, KvCount(pass', kvPos', L))
      OBVIOUS
    <2>1. SlotOf(L) \in DOMAIN kv
      BY SlotFacts DEF TypeInv, KvOK
    <2>2. CASE L = pass.L
      <3>1. KvCount(pass', kvPos', L) = kvPos + pass.T
        BY <1>2, <2>2 DEF KvCount
      <3>2. kv'[SlotOf(L)] = Stored(kv[SlotOf(pass.L)], k, v)
        BY <2>1, <2>2
      <3> QED
        BY <1>3, <2>2, <3>1, <3>2
    <2>3. CASE L # pass.L
      <3>1. KvCount(pass', kvPos', L) = KvCount(pass, kvPos, L)
        BY <1>2, <2>3 DEF KvCount
      <3>2. SlotOf(L) # SlotOf(pass.L)
        BY <1>1, <2>3, SlotsApart
      <3>3. kv'[SlotOf(L)] = kv[SlotOf(L)]
        BY <2>1, <3>2
      <3> QED
        BY <3>1, <3>3 DEF KvInv
    <2> QED
      BY <2>2, <2>3
  <1> QED
    BY <1>1, <1>4 DEF KvInv, KvAt, KvCount

\* The steps after the attention.
Later ==
    /\ c' = c /\ kvPos' = kvPos /\ kv' = kv /\ Within(pass, pass')
    /\ pass.stage \notin BeforeStore /\ pass'.stage \notin BeforeStore
LEMMA LaterKept ==
    ASSUME KeptInv, Later
    PROVE  KvInv' /\ PathInv' /\ KeyInv'
  <1>1. \A L \in 1..LastLayer : ~Recurrent(c, L) => KvCount(pass', kvPos', L) = KvCount(pass, kvPos, L)
    BY DEF Later, KvCount, Within
  <1>2. KvInv'
    BY <1>1, KvKept DEF KeptInv, Later
  <1>3. OnGpu' = OnGpu /\ OnDevice(pass.L)' = OnDevice(pass.L) /\ pass'.L = pass.L
    BY DEF Later, Within, OnGpu, OnDevice
  <1>4. PathInv'
    <2>1. pass.stage \notin {"idle", "embed", "out"}
      BY DEF Later, Within
    <2> QED
      BY <1>3, <2>1 DEF Later, Within, PathInv, KeptInv, BeforeStore
  <1>5. KeyInv'
    BY DEF Later, KeyInv, BeforeStore
  <1> QED
    BY <1>2, <1>4, <1>5
LEMMA LaterSteps ==
    ASSUME TypeInv,
           \/ DecodeAttnO \/ PrefillAttnO \/ PersistentFFN \/ FfnNormRow \/ GateUp \/ Down \/ HybridFFN
           \/ ExpertsNext \/ HostAttnO \/ HostFfnNorm \/ HostExperts \/ HostPrefillFfn \/ HostDecodeFfn
           \/ Q35Ffn
    PROVE  Later
  <1> DEFINE Behind == {"attnO", "ffn", "gateUp", "down", "callback", "ranks", "experts", "prefillFfn",
                        "decodeFfn"}
             Moves == /\ UNCHANGED <<c, kv, kvPos>> /\ pass.stage \in Behind
                      /\ \E s \in Behind \cup {"out"} : pass' = [pass EXCEPT !.stage = s]
  <1>1. ASSUME Moves PROVE Later
    <2>1. PICK s \in Behind \cup {"out"} : pass' = [pass EXCEPT !.stage = s]
      BY <1>1
    <2>2. Within(pass, pass') /\ pass'.stage = s
      BY <1>1, <2>1, StageMoves
    <2> QED
      BY <1>1, <2>1, <2>2 DEF Later, BeforeStore
  <1>2. CASE DecodeAttnO
    BY <1>1, <1>2 DEF DecodeAttnO, Stage, Goto
  <1>3. CASE PrefillAttnO
    BY <1>1, <1>3 DEF PrefillAttnO, Stage, Goto
  <1>4. CASE PersistentFFN
    BY <1>1, <1>4 DEF PersistentFFN, Stage, Goto
  <1>5. CASE FfnNormRow
    <2>1. pass.stage = "ffn" /\ pass' = [pass EXCEPT !.stage = "gateUp", !.fold = FoldsNorm]
          /\ UNCHANGED <<c, kv, kvPos>>
      BY <1>5 DEF FfnNormRow, Stage
    <2>2. Within(pass, pass') /\ pass'.stage = "gateUp"
      BY <2>1 DEF TypeInv, PassOK, Within
    <2> QED
      BY <2>1, <2>2 DEF Later, BeforeStore
  <1>6. CASE GateUp
    BY <1>1, <1>6 DEF GateUp, Stage, Goto
  <1>7. CASE Down
    BY <1>1, <1>7 DEF Down, Stage, Goto
  <1>8. CASE HybridFFN
    BY <1>1, <1>8 DEF HybridFFN, Stage, Goto
  <1>9. CASE ExpertsNext
    <2>1. CASE ExpertsOnDevice
      BY <1>1, <2>1 DEF ExpertsOnDevice, Stage, Goto
    <2>2. CASE HandOff
      BY <1>1, <2>2 DEF HandOff, Stage, Goto
    <2>3. CASE moeCpuFn
      BY <1>1, <2>3 DEF moeCpuFn, Stage, Goto
    <2>4. CASE ResidentRanks
      BY <1>1, <2>4 DEF ResidentRanks, Stage, Goto, AddShared
    <2>5. CASE CachedRanks
      BY <1>1, <2>5 DEF CachedRanks, Stage, Goto, AddShared
    <2>6. CASE HostRanks
      BY <1>1, <2>6 DEF HostRanks, Stage, Goto, AddShared
    <2> QED
      BY <1>9, <2>1, <2>2, <2>3, <2>4, <2>5, <2>6 DEF ExpertsNext
  <1>10. CASE HostAttnO
    BY <1>1, <1>10 DEF HostAttnO, Stage, Goto
  <1>11. CASE HostFfnNorm
    BY <1>1, <1>11 DEF HostFfnNorm, Stage, Goto
  <1>12. CASE HostExperts
    BY <1>1, <1>12 DEF HostExperts, Stage, Goto
  <1>13. CASE HostPrefillFfn
    BY <1>1, <1>13 DEF HostPrefillFfn, Stage, Goto
  <1>14. CASE HostDecodeFfn
    BY <1>1, <1>14 DEF HostDecodeFfn, Stage, Goto
  <1>15. CASE Q35Ffn
    BY <1>1, <1>15 DEF Q35Ffn, Stage, Goto
  <1> QED
    BY <1>2, <1>3, <1>4, <1>5, <1>6, <1>7, <1>8, <1>9, <1>10, <1>11, <1>12, <1>13, <1>14, <1>15

\* A step within a layer works on the rows of the same tokens.
LEMMA SameRows ==
    ASSUME c' = c, kvPos' = kvPos, Within(pass, pass')
    PROVE  /\ Tokens' = Tokens /\ OnGpu' = OnGpu /\ pass'.L = pass.L /\ pass'.engine = pass.engine
           /\ pass'.T = pass.T /\ OnDevice(pass.L)' = OnDevice(pass.L)
           /\ \A t \in Tokens : PosOf(t)' = PosOf(t)
  BY DEF Within, Tokens, OnGpu, OnDevice, PosOf
LEMMA TokensAreSlots ==
    ASSUME TypeInv
    PROVE  \A t \in Tokens : t \in Slots
  BY SizedByType, SizesAssumption DEF Sized, Tokens, Slots

\* A step that stores nothing moves the pass along its path.
LEMMA NothingStored ==
    ASSUME KvInv, c' = c, kvPos' = kvPos, kv' = kv, Within(pass, pass'), pass.stage \in BeforeStore,
           pass'.stage \in BeforeStore \/ Recurrent(c, pass.L)
    PROVE  KvInv'
  <1>1. \A L \in 1..LastLayer : ~Recurrent(c, L) => KvCount(pass', kvPos', L) = KvCount(pass, kvPos, L)
    BY DEF KvCount, Within
  <1> QED
    BY <1>1, KvKept

-----------------------------------------------------------------------------
(* The norms.                                                              *)

LEMMA DeviceNormed ==
    ASSUME TypeInv, OnGpu, \A t \in Tokens : HiddenOf(t) = X(pass.L, PosOf(t))
    PROVE  /\ DevShape(kRMSNormRow(dev, "rmsNormAttn"))
           /\ \A t \in Tokens : Row(kRMSNormRow(dev, "rmsNormAttn"), "norm", t) = AttnIn(pass.L, PosOf(t))
  <1> DEFINE f == [t \in Tokens |-> Norm(Weight(pass.L, "rmsNormAttn"), Row(dev, "hidden", t))]
  <1>1. kRMSNormRow(dev, "rmsNormAttn") = PutAll(dev, "norm", f)
    BY DEF kRMSNormRow, Each
  <1>2. \A t \in Tokens : f[t] = AttnIn(pass.L, PosOf(t)) /\ t \in Slots
    BY TokensAreSlots DEF HiddenOf, AttnIn
  <1> HIDE DEF f
  <1>3. "norm" \in DevBuffers /\ DevShape(dev) /\ RowsShape(dev, DevBuffers)
    BY DEF DevBuffers, TypeInv, DevShape
  <1>4. \A t \in Tokens : Row(PutAll(dev, "norm", f), "norm", t) = f[t]
    BY <1>2, <1>3, PutAllRow
  <1> QED
    BY <1>1, <1>2, <1>3, <1>4, PutAllDev
LEMMA HostNormed ==
    ASSUME TypeInv, ~OnGpu, \A t \in Tokens : HiddenOf(t) = X(pass.L, PosOf(t)),
           host' = rmsNorm(host, "rmsNormAttn", "hidden", "attnNorm")
    PROVE  \A t \in Tokens : Row(host', "attnNorm", t) = AttnIn(pass.L, PosOf(t))
  <1> DEFINE f == [t \in Tokens |-> Norm(W("rmsNormAttn"), Row(host, "hidden", t))]
  <1>1. host' = PutAll(host, "attnNorm", f)
    BY DEF rmsNorm, Each
  <1>2. \A t \in Tokens : f[t] = AttnIn(pass.L, PosOf(t)) /\ t \in Slots
    BY TokensAreSlots DEF HiddenOf, AttnIn, W
  <1> HIDE DEF f
  <1>3. "attnNorm" \in HostBuffers /\ RowsShape(host, HostBuffers)
    BY DEF HostBuffers, TypeInv, HostShape
  <1>4. \A t \in Tokens : Row(PutAll(host, "attnNorm", f), "attnNorm", t) = f[t]
    BY <1>2, <1>3, PutAllRow
  <1> QED
    BY <1>1, <1>2, <1>4

\* The four norms that open a layer.
LEMMA NormKept ==
    ASSUME KeptInv, AttnNorm \/ HybridNorm \/ HostNorm \/ Q35Norm
    PROVE  KvInv' /\ PathInv' /\ KeyInv'
  <1>1. /\ TypeInv /\ KvInv /\ pass.stage = "norm" /\ UNCHANGED <<c, kv, kvPos>>
        /\ \A t \in Tokens : HiddenOf(t) = X(pass.L, PosOf(t))
        /\ OnGpu <=> OnDevice(pass.L)
    BY DEF KeptInv, KeyInv, PathInv, AttnNorm, HybridNorm, HostNorm, Q35Norm, Stage
  <1>2. Within(pass, pass') /\ pass'.stage \in {"qkv", "recurrent", "attention"}
    <2>1. CASE AttnNorm
      <3>1. pass' = [pass EXCEPT !.stage = "qkv", !.fold = FoldsNorm /\ On("QKV_DP4A")]
        BY <2>1 DEF AttnNorm
      <3> QED
        BY <1>1, <3>1 DEF TypeInv, PassOK, Within
    <2>2. CASE HybridNorm \/ HostNorm \/ Q35Norm
      <3>1. \E s \in {"qkv", "recurrent", "attention"} : pass' = [pass EXCEPT !.stage = s]
        BY <2>2 DEF HybridNorm, HostNorm, Q35Norm, Goto
      <3> QED
        BY <1>1, <3>1, StageMoves
    <2> QED
      BY <2>1, <2>2
  <1>3. KvInv'
    BY <1>1, <1>2, NothingStored DEF BeforeStore
  <1>4. /\ Tokens' = Tokens /\ OnGpu' = OnGpu /\ pass'.L = pass.L /\ pass'.engine = pass.engine
        /\ pass'.T = pass.T /\ OnDevice(pass.L)' = OnDevice(pass.L)
        /\ \A t \in Tokens : PosOf(t)' = PosOf(t)
    BY <1>1, <1>2, SameRows
  <1>5. PathInv'
    <2>1. CASE AttnNorm \/ HostNorm
      <3>1. pass'.stage = "qkv"
        <4>1. CASE AttnNorm
          <5>1. pass' = [pass EXCEPT !.stage = "qkv", !.fold = FoldsNorm /\ On("QKV_DP4A")]
            BY <4>1 DEF AttnNorm
          <5> QED
            BY <1>1, <5>1 DEF TypeInv, PassOK
        <4>2. CASE HostNorm
          BY <1>1, <4>2 DEF HostNorm, Goto, TypeInv, PassOK
        <4> QED
          BY <2>1, <4>1, <4>2
      <3> QED
        BY <1>1, <1>4, <3>1 DEF PathInv
    <2>2. CASE HybridNorm \/ Q35Norm
      <3>1. pass'.stage = IF Recurrent(c, pass.L) THEN "recurrent" ELSE "attention"
        BY <1>1, <2>2 DEF HybridNorm, Q35Norm, Goto, TypeInv, PassOK
      <3> QED
        BY <1>1, <1>4, <3>1 DEF PathInv
    <2> QED
      BY <2>1, <2>2
  <1>6. \A t \in Tokens : Normed(t)' = AttnIn(pass.L, PosOf(t))
    <2>1. CASE AttnNorm
      <3> DEFINE e == kRMSNormRow(dev, "rmsNormAttn")
                 x == Coded("q81", Row(e, "norm", 1))
      <3>1. OnGpu /\ dev' = IF FoldsNorm /\ On("QKV_DP4A") THEN [e EXCEPT !.q8k.row = x] ELSE e
        BY <2>1 DEF AttnNorm, Stage, OnGpu, kRMSNormRowQ81
      <3>2. \A t \in Tokens : Row(e, "norm", t) = AttnIn(pass.L, PosOf(t))
        BY <1>1, <3>1, DeviceNormed
      <3> HIDE DEF e, x
      <3>3. \A t : Row(dev', "norm", t) = Row(e, "norm", t)
        BY <3>1 DEF Row
      <3> QED
        BY <1>4, <3>1, <3>2, <3>3 DEF Normed, Row
    <2>2. CASE HybridNorm
      <3>1. OnGpu /\ dev' = kRMSNormRow(dev, "rmsNormAttn")
        BY <2>2 DEF HybridNorm, Stage, OnGpu
      <3>2. \A t \in Tokens : Row(dev', "norm", t) = AttnIn(pass.L, PosOf(t))
        BY <1>1, <3>1, DeviceNormed
      <3> QED
        BY <1>4, <3>1, <3>2 DEF Normed, Row
    <2>3. CASE HostNorm \/ Q35Norm
      <3>1. ~OnGpu /\ host' = rmsNorm(host, "rmsNormAttn", "hidden", "attnNorm")
        BY <2>3 DEF HostNorm, Q35Norm, Stage, OnGpu
      <3>2. \A t \in Tokens : Row(host', "attnNorm", t) = AttnIn(pass.L, PosOf(t))
        BY <1>1, <3>1, HostNormed
      <3> QED
        BY <1>4, <3>1, <3>2 DEF Normed, Row
    <2> QED
      BY <2>1, <2>2, <2>3
  <1>7. NormedInputs'
    <2>1. \A t \in Tokens : Normed(t)' = AttnIn(pass'.L, PosOf(t)')
      BY <1>4, <1>6
    <2> QED
      BY <1>4, <2>1 DEF NormedInputs
  <1>8. pass'.stage = "qkv" /\ pass'.engine = "dense" => FoldedNorm'
    <2> SUFFICES ASSUME pass'.stage = "qkv", pass'.engine = "dense", pass'.fold
                 PROVE  pass'.T = 1 /\ dev'.q8k.row = Coded("q81", Row(dev', "norm", 1))
      BY DEF FoldedNorm, Row
    <2>1. AttnNorm
      <3>1. ASSUME HybridNorm \/ Q35Norm PROVE pass'.stage # "qkv"
        BY <1>1, <3>1 DEF HybridNorm, Q35Norm, Goto, TypeInv, PassOK
      <3>2. ~HostNorm
        BY <1>4 DEF HostNorm, Stage
      <3> QED
        BY <3>1, <3>2
    <2> DEFINE e == kRMSNormRow(dev, "rmsNormAttn")
               x == Coded("q81", Row(e, "norm", 1))
    <2>2. FoldsNorm /\ On("QKV_DP4A")
      <3>1. pass' = [pass EXCEPT !.stage = "qkv", !.fold = FoldsNorm /\ On("QKV_DP4A")]
        BY <2>1 DEF AttnNorm
      <3> QED
        BY <1>1, <3>1 DEF TypeInv, PassOK
    <2>3. OnGpu /\ dev' = [e EXCEPT !.q8k.row = x] /\ pass.T = 1
      BY <2>1, <2>2 DEF AttnNorm, Stage, OnGpu, kRMSNormRowQ81, FoldsNorm
    <2>4. DevShape(e)
      BY <1>1, <2>3, DeviceNormed
    <2> HIDE DEF e
    <2>5. dev'.q8k.row = x /\ Row(dev', "norm", 1) = Row(e, "norm", 1)
      BY <2>3, <2>4 DEF Row, DevShape, QuantShape
    <2> QED
      BY <1>4, <2>3, <2>5
  <1>9. KeyInv'
    <2>1. pass'.stage = "attention" => pass'.engine \notin {"dense", "cpu"}
      <3>1. ASSUME HybridNorm \/ Q35Norm PROVE pass'.engine \notin {"dense", "cpu"}
        BY <1>4, <3>1 DEF HybridNorm, Q35Norm, Stage
      <3>2. ASSUME AttnNorm PROVE pass'.stage = "qkv"
        <4>1. pass' = [pass EXCEPT !.stage = "qkv", !.fold = FoldsNorm /\ On("QKV_DP4A")]
          BY <3>2 DEF AttnNorm
        <4> QED
          BY <1>1, <4>1 DEF TypeInv, PassOK
      <3>3. ASSUME HostNorm PROVE pass'.stage = "qkv"
        BY <1>1, <3>3 DEF HostNorm, Goto, TypeInv, PassOK
      <3> QED
        BY <3>1, <3>2, <3>3
    <2> QED
      BY <1>2, <1>7, <1>8, <2>1 DEF KeyInv
  <1> QED
    BY <1>3, <1>5, <1>9

-----------------------------------------------------------------------------
(* The projections.                                                        *)

\* Which models an engine serves, and what is known of them on the device.
LEMMA Engines ==
    ASSUME TypeInv, KnowsAttention(c), pass.stage \notin {"idle", "embed", "out"}
    PROVE  /\ OnDevice(pass.L) => /\ {Type("attnQ"), Type("attnK"), Type("attnV")} \subseteq KnownTypes
                                  /\ c.arch # "gemma4"
           /\ pass.engine \in {"dense", "cpu"} <=> c.arch # "qwen35"
           /\ c.arch \in {"qwen2", "gemma4", "qwen35"}
           /\ c.arch # "qwen35" => ~c.prism
  <1>1. pass.L \in Nat \ {0} /\ c.ngl \in Nat
    BY SizedByType, SizesAssumption DEF TypeInv, PassOK
  <1>2. OnDevice(pass.L) => c.ngl > 0
    BY <1>1 DEF OnDevice
  <1> QED
    BY <1>2 DEF TypeInv, PassOK, KnowsAttention, Type, DeviceEngine, HostEngine

\* Rows that hold the products of the normed rows, before any bias.
Products(d) ==
    \A t \in Tokens : /\ Row(d, "k", t) = Mul(Weight(pass.L, "attnK"), AttnIn(pass.L, PosOf(t)))
                      /\ Row(d, "v", t) = Mul(Weight(pass.L, "attnV"), AttnIn(pass.L, PosOf(t)))
Biased(name, y) == IF Has(c, name) THEN Bias(Weight(pass.L, name), y) ELSE y
BiasedRows(d, e, b, name) == \A t \in Tokens : Row(e, b, t) = Biased(name, Row(d, b, t))
LEMMA BiasedProducts ==
    ASSUME NEW d, Products(d), NEW e, BiasedRows(d, e, "k", "attnKBias"), BiasedRows(d, e, "v", "attnVBias")
    PROVE  Projections(e)
  BY DEF Products, BiasedRows, Biased, Projections, Projected, ValueOf

LEMMA DevBias ==
    ASSUME TypeInv, NEW d, DevShape(d), NEW b \in DevBuffers, NEW name
    PROVE  /\ DevShape(kAddBias(d, b, name)) /\ BiasedRows(d, kAddBias(d, b, name), b, name)
           /\ \A b2 \in DevBuffers : b2 # b => DevKept(d, kAddBias(d, b, name), b2)
  <1> DEFINE f == [t \in Tokens |-> Bias(Weight(pass.L, name), Row(d, b, t))]
             e == PutAll(d, b, f)
  <1>1. kAddBias(d, b, name) = IF Has(c, name) THEN e ELSE d
    BY DEF kAddBias, Each
  <1>2. \A t \in Tokens : f[t] = Bias(Weight(pass.L, name), Row(d, b, t)) /\ t \in Slots
    BY TokensAreSlots
  <1> HIDE DEF f
  <1>3. DevShape(e) /\ \A b2 \in DevBuffers : b2 # b => DevKept(d, d, b2) /\ DevKept(d, e, b2)
    BY PutAllDev, EachKeepsDev DEF DevKept
  <1>4. \A t \in Tokens : Row(e, b, t) = f[t]
    BY <1>2, PutAllRow DEF DevShape
  <1> HIDE DEF e
  <1>5. BiasedRows(d, kAddBias(d, b, name), b, name)
    BY <1>1, <1>2, <1>4 DEF BiasedRows, Biased
  <1> QED
    BY <1>1, <1>3, <1>5
LEMMA BiasesAdded ==
    ASSUME TypeInv, NEW d, DevShape(d), Products(d)
    PROVE  Projections(AddBiases(d))
  <1> DEFINE p == kAddBias(d, "q", "attnQBias")
             q == kAddBias(p, "k", "attnKBias")
             r == kAddBias(q, "v", "attnVBias")
  <1>1. {"q", "k", "v"} \subseteq DevBuffers /\ \A t \in Tokens : t \in Slots
    BY TokensAreSlots DEF DevBuffers
  <1>2. DevShape(p) /\ DevKept(d, p, "k") /\ DevKept(d, p, "v")
    BY <1>1, DevBias
  <1> HIDE DEF p
  <1>3. DevShape(q) /\ DevKept(p, q, "v") /\ BiasedRows(p, q, "k", "attnKBias")
    BY <1>1, <1>2, DevBias
  <1> HIDE DEF q
  <1>4. DevKept(q, r, "k") /\ BiasedRows(q, r, "v", "attnVBias")
    BY <1>1, <1>3, DevBias
  <1>5. AddBiases(d) = r
    BY DEF AddBiases, p, q
  <1> HIDE DEF r
  <1>6. BiasedRows(d, r, "k", "attnKBias") /\ BiasedRows(d, r, "v", "attnVBias")
    BY <1>1, <1>2, <1>3, <1>4 DEF BiasedRows, DevKept
  <1> QED
    BY <1>5, <1>6, BiasedProducts

\* One matrix times one row, and a half-precision product of all rows.
LEMMA GemvRow1 ==
    ASSUME TypeInv, NEW d, DevShape(d), NEW name, Plain(Type(name)), NEW from \in DevBuffers, NEW to \in DevBuffers
    PROVE  /\ DevShape(Gemv(d, name, from, to, 1))
           /\ Row(Gemv(d, name, from, to, 1), to, 1) = Mul(Weight(pass.L, name), Row(d, from, 1))
           /\ \A b \in DevBuffers : b # to => DevKept(d, Gemv(d, name, from, to, 1), b)
  <1>1. Width(name) \in Nat /\ 1 \in Slots
    BY SizedByType, WidthNat, SizesAssumption DEF Slots
  <1>2. DevShape(Gemv(d, name, from, to, 1))
    BY <1>1, LaunchShape DEF Gemv
  <1>3. Row(Gemv(d, name, from, to, 1), to, 1) = Mul(Weight(pass.L, name), Row(d, from, 1))
    BY <1>1, LaunchRow DEF Gemv
  <1>4. \A b \in DevBuffers : b # to => DevKept(d, Gemv(d, name, from, to, 1), b)
    <2>1. \A b : DevKept(d, d, b)
      BY DEF DevKept
    <2> QED
      BY <1>1, <2>1, LaunchKeeps DEF Gemv
  <1> QED
    BY <1>2, <1>3, <1>4

LEMMA GemmRows ==
    ASSUME TypeInv, NEW d, DevShape(d), NEW name, NEW from \in DevBuffers, NEW to \in DevBuffers, NEW x,
           \A t \in Tokens : Row(d, from, t) = Coded("f16", x[t])
    PROVE  /\ DevShape(Gemm(d, name, from, to))
           /\ \A t \in Tokens : Row(Gemm(d, name, from, to), to, t) = Mul(Weight(pass.L, name), x[t])
           /\ \A b \in DevBuffers : b # to => DevKept(d, Gemm(d, name, from, to), b)
  <1> DEFINE w == Weight(pass.L, name)
             e == dequantMatrixF16(d, w, name)
             f == [t \in Tokens |-> Dot(Half(e, w, name), "f16", Row(e, from, t))]
  <1>1. Gemm(d, name, from, to) = PutAll(e, to, f)
    BY DEF Gemm
  <1>2. DevShape(e) /\ e.rows = d.rows /\ Half(e, w, name) = w
    BY DEF dequantMatrixF16, DevShape, RowsShape, QuantShape, Half
  <1>3. \A t \in Tokens : f[t] = Mul(w, x[t]) /\ t \in Slots
    BY <1>2, TokensAreSlots DEF Dot, Coded, Row
  <1> HIDE DEF e, f, w
  <1>4. \A b \in DevBuffers : DevKept(d, e, b)
    BY <1>2 DEF DevKept, Row
  <1>5. DevShape(PutAll(e, to, f)) /\ \A b \in DevBuffers : b # to => DevKept(d, PutAll(e, to, f), b)
    BY <1>2, <1>4, PutAllDev, EachKeepsDev
  <1>6. \A t \in Tokens : Row(PutAll(e, to, f), to, t) = f[t]
    BY <1>2, <1>3, PutAllRow DEF DevShape
  <1> QED
    BY <1>1, <1>3, <1>5, <1>6 DEF w

\* A decode step on the device, in one launch, two or three.
LEMMA DecodeRows ==
    ASSUME TypeInv, KnowsAttention(c), DecodeQKV, OnDevice(pass.L), NormedInputs, FoldedNorm
    PROVE  Projections(dev')
  <1> DEFINE x == Row(dev, "norm", 1)
             wk == Weight(pass.L, "attnK")
             wv == Weight(pass.L, "attnV")
             bk == Weight(pass.L, "attnKBias")
             bv == Weight(pass.L, "attnVBias")
  <1>1. /\ pass.T = 1 /\ pass.stage = "qkv" /\ pass.engine = "dense" /\ OnGpu /\ Tokens = {1} /\ 1 \in Slots
        /\ x = AttnIn(pass.L, PosOf(1)) /\ DevShape(dev)
    BY SizesAssumption DEF DecodeQKV, Stage, OnGpu, Tokens, Slots, NormedInputs, Normed, TypeInv
  <1>2. Plain(Type("attnQ")) /\ Plain(Type("attnK")) /\ Plain(Type("attnV"))
    BY <1>1, Engines DEF Plain
  <1>3. {"q", "k", "v", "norm"} \subseteq DevBuffers
    BY DEF DevBuffers
  <1>4. CASE FuseQKV
    <2> DEFINE y(name) == IF pass.fold THEN Dot(Weight(pass.L, name), "q81", dev.q8k.row)
                          ELSE Mul(Weight(pass.L, name), Row(dev, "norm", 1))
               biased(name, bias) == IF Has(c, bias) THEN Bias(Weight(pass.L, bias), y(name)) ELSE y(name)
               k == biased("attnK", "attnKBias")
               v == biased("attnV", "attnVBias")
               d1 == Put(dev, "q", 1, biased("attnQ", "attnQBias"))
               d2 == Put(d1, "k", 1, k)
               d3 == Put(d2, "v", 1, v)
    <2>1. dev' = d3
      BY <1>4 DEF DecodeQKV, kQGemvFusedQKV
    <2>2. y("attnK") = Mul(wk, x) /\ y("attnV") = Mul(wv, x)
      BY DEF FoldedNorm, Dot, Coded
    <2>3. k = Biased("attnKBias", Mul(wk, x)) /\ v = Biased("attnVBias", Mul(wv, x))
      BY <2>2 DEF Biased
    <2> HIDE DEF k, v
    <2>4. DevShape(d1) /\ DevShape(d2)
      BY <1>1, PutDev
    <2> HIDE DEF d1
    <2>5. Row(d2, "k", 1) = k
      BY <1>1, <1>3, <2>4, PutRow DEF DevShape
    <2> HIDE DEF d2
    <2>6. Row(d3, "k", 1) = k /\ Row(d3, "v", 1) = v
      BY <1>1, <1>3, <2>4, <2>5, PutRow DEF DevShape
    <2> HIDE DEF d3
    <2> QED
      BY <1>1, <2>1, <2>3, <2>6 DEF Projections, Projected, ValueOf, Biased
  <1>5. CASE ~FuseQKV
    <2> DEFINE g == Gemv(dev, "attnQ", "norm", "q", 1)
               p == Gemv(g, "attnK", "norm", "k", 1)
               r == Put(dev, "q", 1, Mul(Weight(pass.L, "attnQ"), x))
               s == Put(r, "k", 1, Mul(wk, x))
               d == IF FuseQK THEN kQGemvFusedQK_Q2K(dev) ELSE p
               e == Gemv(d, "attnV", "norm", "v", 1)
               Good(m) == DevKept(dev, m, "norm") /\ Row(m, "k", 1) = Mul(wk, x)
    <2>1. dev' = AddBiases(e)
      BY <1>5 DEF DecodeQKV
    <2>2. Good(p)
      <3>1. DevShape(g) /\ DevKept(dev, g, "norm")
        BY <1>1, <1>2, <1>3, GemvRow1
      <3> HIDE DEF g
      <3>2. DevKept(g, p, "norm") /\ Row(p, "k", 1) = Mul(wk, Row(g, "norm", 1))
        BY <1>2, <1>3, <3>1, GemvRow1
      <3> QED
        BY <1>1, <3>1, <3>2 DEF DevKept
    <2>3. Good(s)
      <3>1. DevKept(dev, dev, "norm")
        BY <1>1 DEF DevKept
      <3>2. DevKept(dev, r, "norm")
        BY <1>3, <3>1, PutKeepsDev
      <3> HIDE DEF r
      <3>3. DevKept(dev, s, "norm")
        BY <1>3, <3>2, PutKeepsDev
      <3>4. Row(s, "k", 1) = Mul(wk, x)
        <4>1. PICK y : y = Mul(wk, x)
          OBVIOUS
        <4>2. Row(Put(r, "k", 1, y), "k", 1) = y
          BY <1>1, <1>3, <3>2, PutRow DEF DevKept, DevShape
        <4> QED
          BY <4>1, <4>2
      <3> QED
        BY <3>3, <3>4
    <2>4. d = IF FuseQK THEN s ELSE p
      BY DEF kQGemvFusedQK_Q2K
    <2> HIDE DEF p, s, d
    <2>5. Good(d)
      BY <2>2, <2>3, <2>4
    <2>6. DevShape(e) /\ DevKept(d, e, "k") /\ Row(e, "v", 1) = Mul(wv, Row(d, "norm", 1))
      BY <1>2, <1>3, <2>5, GemvRow1 DEF DevKept
    <2> HIDE DEF e
    <2>7. Products(e)
      BY <1>1, <2>5, <2>6 DEF Products, DevKept
    <2> QED
      BY <2>1, <2>6, <2>7, BiasesAdded
  <1> QED
    BY <1>4, <1>5

\* A prefill on the device: three products of the rows in half precision.
LEMMA PrefillRows ==
    ASSUME TypeInv, PrefillQKV, NormedInputs
    PROVE  Projections(dev')
  <1> DEFINE x == [t \in Tokens |-> AttnIn(pass.L, PosOf(t))]
             f == [t \in Tokens |-> Coded("f16", Row(dev, "norm", t))]
             d == PutAll(dev, "hiddenF16", f)
             p == Gemm(d, "attnQ", "hiddenF16", "q")
             q == Gemm(p, "attnK", "hiddenF16", "k")
             r == Gemm(q, "attnV", "hiddenF16", "v")
             Halves(m) == DevShape(m) /\ \A t \in Tokens : Row(m, "hiddenF16", t) = Coded("f16", x[t])
  <1>1. dev' = AddBiases(r) /\ OnGpu
    BY DEF PrefillQKV, ToF16, Each, Stage, OnGpu
  <1>2. \A t \in Tokens : x[t] = AttnIn(pass.L, PosOf(t)) /\ f[t] = Coded("f16", x[t]) /\ t \in Slots
    BY <1>1, TokensAreSlots DEF NormedInputs, Normed
  <1>3. {"q", "k", "v", "hiddenF16"} \subseteq DevBuffers /\ DevShape(dev)
    BY DEF DevBuffers, TypeInv
  <1> HIDE DEF x, f
  <1>4. Halves(d)
    <2>1. \A t \in Tokens : Row(d, "hiddenF16", t) = f[t]
      BY <1>2, <1>3, PutAllRow DEF DevShape
    <2> QED
      BY <1>2, <1>3, <2>1, PutAllDev
  <1> HIDE DEF d
  <1>5. Halves(p)
    <2>1. DevKept(d, p, "hiddenF16")
      BY <1>3, <1>4, GemmRows
    <2> QED
      BY <1>2, <1>4, <2>1 DEF DevKept
  <1> HIDE DEF p
  <1>6. Halves(q) /\ \A t \in Tokens : Row(q, "k", t) = Mul(Weight(pass.L, "attnK"), x[t])
    <2>1. /\ DevKept(p, q, "hiddenF16")
          /\ \A t \in Tokens : Row(q, "k", t) = Mul(Weight(pass.L, "attnK"), x[t])
      BY <1>3, <1>5, GemmRows
    <2> QED
      BY <1>2, <1>5, <2>1 DEF DevKept
  <1> HIDE DEF q
  <1>7. DevKept(q, r, "k") /\ \A t \in Tokens : Row(r, "v", t) = Mul(Weight(pass.L, "attnV"), x[t])
    BY <1>3, <1>6, GemmRows
  <1> HIDE DEF r
  <1>8. Products(r)
    BY <1>2, <1>6, <1>7 DEF Products, DevKept
  <1> QED
    BY <1>1, <1>7, <1>8, BiasesAdded DEF DevKept

\* The host: three products, and the biases of Qwen2 or of a prefill.
LEMMA HostProduct ==
    ASSUME TypeInv, NEW h, HostShape(h), NEW name, NEW from \in HostBuffers, NEW to \in HostBuffers
    PROVE  /\ HostShape(matMulVecBatch(h, name, from, to))
           /\ \A b \in HostBuffers : b # to => HostKept(h, matMulVecBatch(h, name, from, to), b)
           /\ \A t \in Tokens :
                 Row(matMulVecBatch(h, name, from, to), to, t) = Mul(Weight(pass.L, name), Row(h, from, t))
  <1> DEFINE f == [t \in Tokens |-> Product0(name, Row(h, from, t))]
             e == PutAll(h, to, f)
  <1>1. matMulVecBatch(h, name, from, to) = e
    BY DEF matMulVecBatch, Each
  <1>2. \A t \in Tokens : f[t] = Mul(Weight(pass.L, name), Row(h, from, t)) /\ t \in Slots
    BY TokensAreSlots DEF Product0, W
  <1> HIDE DEF f
  <1>3. HostShape(e)
    BY PutAllRows DEF HostShape
  <1>4. /\ \A t \in Tokens : Row(e, to, t) = f[t]
        /\ \A b \in HostBuffers : b # to => HostKept(h, e, b)
    BY <1>2, <1>3, PutAllRow DEF HostShape, HostKept
  <1> HIDE DEF e
  <1> QED
    BY <1>1, <1>2, <1>3, <1>4
LEMMA HostBias ==
    ASSUME TypeInv, NEW h, HostShape(h), NEW b \in HostBuffers, NEW name
    PROVE  /\ HostShape(addBias(h, b, name)) /\ BiasedRows(h, addBias(h, b, name), b, name)
           /\ \A b2 \in HostBuffers : b2 # b => HostKept(h, addBias(h, b, name), b2)
  <1> DEFINE f == [t \in Tokens |-> Bias(W(name), Row(h, b, t))]
             e == PutAll(h, b, f)
  <1>1. addBias(h, b, name) = IF Has(c, name) THEN e ELSE h
    BY DEF addBias, Each
  <1>2. \A t \in Tokens : f[t] = Bias(Weight(pass.L, name), Row(h, b, t)) /\ t \in Slots
    BY TokensAreSlots DEF W
  <1> HIDE DEF f
  <1>3. HostShape(e)
    BY PutAllRows DEF HostShape
  <1>4. /\ \A t \in Tokens : Row(e, b, t) = f[t]
        /\ \A b2 \in HostBuffers : b2 # b => HostKept(h, e, b2) /\ HostKept(h, h, b2)
    BY <1>2, <1>3, PutAllRow DEF HostShape, HostKept
  <1> HIDE DEF e
  <1>5. BiasedRows(h, addBias(h, b, name), b, name)
    BY <1>1, <1>2, <1>4 DEF BiasedRows, Biased
  <1> QED
    BY <1>1, <1>3, <1>4, <1>5

LEMMA HostRows ==
    ASSUME TypeInv, KnowsAttention(c), HostQKV, NormedInputs
    PROVE  Projections(host')
  <1> DEFINE a == matMulVecBatch(host, "attnQ", "attnNorm", "q")
             g == matMulVecBatch(a, "attnK", "attnNorm", "k")
             h == matMulVecBatch(g, "attnV", "attnNorm", "v")
             p == addBias(h, "q", "attnQBias")
             q == addBias(p, "k", "attnKBias")
             r == addBias(q, "v", "attnVBias")
  <1>1. host' = IF pass.T > 1 \/ c.arch = "qwen2" THEN r ELSE h
    BY DEF HostQKV
  <1>2. {"q", "k", "v", "attnNorm"} \subseteq HostBuffers /\ HostShape(host) /\ \A t \in Tokens : t \in Slots
    BY TokensAreSlots DEF HostBuffers, TypeInv
  <1>3. /\ c.arch # "qwen2" => ~Has(c, "attnKBias") /\ ~Has(c, "attnVBias")
        /\ \A t \in Tokens : Row(host, "attnNorm", t) = AttnIn(pass.L, PosOf(t))
    BY DEF KnowsAttention, HostQKV, Stage, NormedInputs, Normed, OnGpu
  <1>4. HostShape(a) /\ HostKept(host, a, "attnNorm")
    BY <1>2, HostProduct
  <1> HIDE DEF a
  <1>5. /\ HostShape(g) /\ HostKept(a, g, "attnNorm")
        /\ \A t \in Tokens : Row(g, "k", t) = Mul(Weight(pass.L, "attnK"), Row(a, "attnNorm", t))
    <2>1. HostShape(g) /\ HostKept(a, g, "attnNorm")
      BY <1>2, <1>4, HostProduct
    <2>2. \A t \in Tokens : Row(g, "k", t) = Mul(Weight(pass.L, "attnK"), Row(a, "attnNorm", t))
      BY <1>2, <1>4, HostProduct
    <2> QED
      BY <2>1, <2>2
  <1> HIDE DEF g
  <1>6. /\ HostShape(h) /\ HostKept(g, h, "k")
        /\ \A t \in Tokens : Row(h, "v", t) = Mul(Weight(pass.L, "attnV"), Row(g, "attnNorm", t))
    <2>1. HostShape(h) /\ HostKept(g, h, "k")
      BY <1>2, <1>5, HostProduct
    <2>2. \A t \in Tokens : Row(h, "v", t) = Mul(Weight(pass.L, "attnV"), Row(g, "attnNorm", t))
      BY <1>2, <1>5, HostProduct
    <2> QED
      BY <2>1, <2>2
  <1> HIDE DEF h
  <1>7. Products(h)
    BY <1>2, <1>3, <1>4, <1>5, <1>6 DEF Products, HostKept
  <1>8. HostShape(p) /\ HostKept(h, p, "k") /\ HostKept(h, p, "v")
    BY <1>2, <1>6, HostBias
  <1> HIDE DEF p
  <1>9. HostShape(q) /\ HostKept(p, q, "v") /\ BiasedRows(p, q, "k", "attnKBias")
    BY <1>2, <1>8, HostBias
  <1> HIDE DEF q
  <1>10. HostKept(q, r, "k") /\ BiasedRows(q, r, "v", "attnVBias")
    BY <1>2, <1>9, HostBias
  <1> HIDE DEF r
  <1>11. Projections(r)
    <2>1. BiasedRows(h, r, "k", "attnKBias") /\ BiasedRows(h, r, "v", "attnVBias")
      BY <1>2, <1>8, <1>9, <1>10 DEF BiasedRows, HostKept
    <2> QED
      BY <1>7, <2>1, BiasedProducts
  <1>12. c.arch # "qwen2" => Projections(h)
    BY <1>3, <1>7 DEF Products, Projections, Projected, ValueOf
  <1> QED
    BY <1>1, <1>11, <1>12

\* The steps that project end where the attention reads.
LEMMA QkvKept ==
    ASSUME KeptInv, KnowsAttention(c), DecodeQKV \/ PrefillQKV \/ HostQKV
    PROVE  KvInv' /\ PathInv' /\ KeyInv'
  <1>1. /\ TypeInv /\ KvInv /\ PathInv /\ NormedInputs
        /\ pass.stage = "qkv" /\ pass.engine \in {"dense", "cpu"} /\ UNCHANGED <<c, kv, kvPos>>
        /\ pass' = [pass EXCEPT !.stage = "attention"]
    BY DEF KeptInv, KeyInv, DecodeQKV, PrefillQKV, HostQKV, Stage, Goto
  <1>2. Within(pass, pass') /\ pass'.stage = "attention"
    BY <1>1, StageMoves
  <1>3. ~Recurrent(c, pass.L)
    BY <1>1, DenseHasNoState
  <1>4. /\ Tokens' = Tokens /\ OnGpu' = OnGpu /\ pass'.L = pass.L /\ pass'.engine = pass.engine
        /\ OnDevice(pass.L)' = OnDevice(pass.L) /\ \A t \in Tokens : PosOf(t)' = PosOf(t)
    BY <1>1, <1>2, SameRows
  <1>5. KvInv'
    BY <1>1, <1>2, NothingStored DEF BeforeStore
  <1>6. PathInv'
    BY <1>1, <1>2, <1>3, <1>4 DEF PathInv
  <1>7. IF pass.engine = "dense" THEN Projections(dev') ELSE Projections(host')
    <2>1. CASE DecodeQKV
      <3>1. pass.engine = "dense" /\ OnDevice(pass.L) /\ FoldedNorm
        BY <1>1, <2>1 DEF DecodeQKV, Stage, OnGpu, PathInv, KeptInv, KeyInv
      <3> QED
        BY <1>1, <2>1, <3>1, DecodeRows
    <2>2. CASE PrefillQKV
      <3>1. pass.engine = "dense"
        BY <2>2 DEF PrefillQKV, Stage
      <3> QED
        BY <1>1, <2>2, <3>1, PrefillRows
    <2>3. CASE HostQKV
      <3>1. pass.engine = "cpu"
        BY <2>3 DEF HostQKV, Stage
      <3> QED
        BY <1>1, <2>3, <3>1, HostRows
    <2> QED
      BY <2>1, <2>2, <2>3
  <1>8. KeyInv'
    <2>1. CASE pass.engine = "dense"
      <3>1. Projections(dev)'
        <4>1. Projections(dev')
          BY <1>7, <2>1
        <4> QED
          BY <1>1, <1>4, <4>1 DEF Projections, Row
      <3> QED
        BY <1>2, <1>4, <2>1, <3>1 DEF KeyInv
    <2>2. CASE pass.engine = "cpu"
      <3>1. Projections(host)'
        <4>1. Projections(host')
          BY <1>7, <2>2
        <4> QED
          BY <1>1, <1>4, <4>1 DEF Projections, Row
      <3> QED
        BY <1>2, <1>4, <2>2, <3>1 DEF KeyInv
    <2> QED
      BY <1>1, <2>1, <2>2
  <1> QED
    BY <1>5, <1>6, <1>8

\* A step to a stage that promises nothing of the buffers.
LEMMA PlainPath ==
    ASSUME KeptInv, c' = c, kvPos' = kvPos, Within(pass, pass'),
           pass'.stage \in {"recurrence", "attnO", "ffn"},
           pass'.stage = "recurrence" => Recurrent(c, pass.L)
    PROVE  PathInv' /\ KeyInv'
  <1>1. /\ OnGpu' = OnGpu /\ pass'.L = pass.L /\ OnDevice(pass.L)' = OnDevice(pass.L)
    BY SameRows
  <1>2. PathInv'
    BY <1>1 DEF KeptInv, PathInv, Within
  <1> QED
    BY <1>2 DEF KeyInv

\* The recurrent layers have no keys.
LEMMA RecurrentKept ==
    ASSUME KeptInv, RecurrentProjections \/ Recurrence \/ forwardQwen35Recurrent
    PROVE  KvInv' /\ PathInv' /\ KeyInv'
  <1>1. /\ TypeInv /\ KvInv /\ PathInv /\ pass.stage \in {"recurrent", "recurrence"}
        /\ UNCHANGED <<c, kv, kvPos>>
        /\ \E s \in {"recurrence", "ffn"} : pass' = [pass EXCEPT !.stage = s]
    BY DEF KeptInv, RecurrentProjections, Recurrence, forwardQwen35Recurrent, Stage, Goto
  <1>2. Within(pass, pass') /\ pass'.stage \in {"recurrence", "ffn"}
    BY <1>1, StageMoves
  <1>3. Recurrent(c, pass.L)
    BY <1>1 DEF PathInv
  <1>4. KvInv'
    BY <1>1, <1>2, <1>3, NothingStored DEF BeforeStore
  <1> QED
    BY <1>1, <1>2, <1>3, <1>4, PlainPath

-----------------------------------------------------------------------------
(* The attention.                                                          *)

\* An attention whose rows are the keys and the values of the layer.
LEMMA AttentionStores ==
    ASSUME KeptInv, KnowsAttention(c), c' = c, kvPos' = kvPos, Within(pass, pass'),
           pass.stage = "attention", pass'.stage \in {"attnO", "ffn"},
           NEW k, NEW v,
           \A t \in Tokens : k[t] = KeyOf(c, pass.L, PosOf(t)) /\ v[t] = ValueOf(c, pass.L, PosOf(t)),
           NEW slot, slot = IF OnGpu THEN kvLayerOffset(pass.L) ELSE pass.L,
           kv' = [kv EXCEPT ![slot] = Stored(kv[slot], k, v)]
    PROVE  KvInv' /\ PathInv' /\ KeyInv'
  <1>1. TypeInv /\ KvInv /\ PathInv
    BY DEF KeptInv
  <1>2. ~Recurrent(c, pass.L) /\ slot = SlotOf(pass.L)
    BY <1>1 DEF PathInv, SlotOf
  <1>3. KvInv'
    BY <1>1, <1>2, KvAdvanced DEF BeforeStore
  <1> QED
    BY <1>3, PlainPath

\* The dense decoder on the device: Qwen2, which has no head norms.
LEMMA DenseAttentionKept ==
    ASSUME KeptInv, KnowsAttention(c), DenseAttention
    PROVE  KvInv' /\ PathInv' /\ KeyInv'
  <1> DEFINE k == [t \in Tokens |-> Rope(PosOf(t), Row(dev, "k", t))]
             v == [t \in Tokens |-> Row(dev, "v", t)]
             slot == kvLayerOffset(pass.L)
  <1>1. /\ TypeInv /\ PathInv /\ pass.stage = "attention" /\ pass.engine = "dense" /\ OnGpu
        /\ kv' = [kv EXCEPT ![slot] = Stored(kv[slot], k, v)]
        /\ pass' = [pass EXCEPT !.stage = "attnO", !.combine = combineQ81]
    BY DEF KeptInv, DenseAttention, Stage, OnGpu
  <1>2. c' = c /\ kvPos' = kvPos /\ Within(pass, pass') /\ pass'.stage = "attnO"
    <2>1. pass'.stage = "attnO"
      BY <1>1 DEF TypeInv, PassOK
    <2> QED
      BY <1>1, <2>1, DenseFrame DEF DenseGPU, Framed
  <1>3. Projections(dev)
    BY <1>1 DEF KeptInv, KeyInv
  <1>4. ~Has(c, "attnKNorm")
    <2>1. OnDevice(pass.L)
      BY <1>1 DEF PathInv
    <2> QED
      BY <1>1, <2>1, Engines DEF KnowsAttention
  <1>5. \A t \in Tokens : k[t] = KeyOf(c, pass.L, PosOf(t)) /\ v[t] = ValueOf(c, pass.L, PosOf(t))
    BY <1>3, <1>4 DEF Projections, KeyOf, HeadNorm
  <1> HIDE DEF k, v
  <1> QED
    BY <1>1, <1>2, <1>5, AttentionStores

\* The dense decoder on the host: Qwen2, or Gemma 4 with its head norms.
LEMMA HostAttentionKept ==
    ASSUME KeptInv, KnowsAttention(c), HostAttention
    PROVE  KvInv' /\ PathInv' /\ KeyInv'
  <1> DEFINE normed == c.arch = "gemma4" /\ {"attnQNorm", "attnKNorm"} \subseteq c.has
             key(t) == Rope(PosOf(t), IF normed THEN Norm(W("attnKNorm"), Row(host, "k", t)) ELSE Row(host, "k", t))
             k == [t \in Tokens |-> key(t)]
             v == [t \in Tokens |-> Row(host, "v", t)]
  <1>1. /\ TypeInv /\ PathInv /\ pass.stage = "attention" /\ pass.engine = "cpu" /\ ~OnGpu
        /\ kv' = [kv EXCEPT ![pass.L] = Stored(kv[pass.L], k, v)]
        /\ pass' = [pass EXCEPT !.stage = "attnO"]
    BY DEF KeptInv, HostAttention, Stage, Goto, OnGpu
  <1>2. c' = c /\ kvPos' = kvPos /\ Within(pass, pass') /\ pass'.stage = "attnO"
    BY <1>1, StageMoves DEF HostAttention
  <1>3. Projections(host)
    BY <1>1 DEF KeptInv, KeyInv
  <1>4. normed <=> Has(c, "attnKNorm")
    BY <1>1, Engines DEF KnowsAttention, Has
  <1>5. \A t \in Tokens : k[t] = KeyOf(c, pass.L, PosOf(t)) /\ v[t] = ValueOf(c, pass.L, PosOf(t))
    <2> HIDE DEF normed
    <2> QED
      BY <1>3, <1>4 DEF Projections, KeyOf, HeadNorm, W
  <1> HIDE DEF k, v
  <1> QED
    BY <1>1, <1>2, <1>5, AttentionStores

\* The rows of the hybrid attention: two projections of the normed rows.
Attending(d) ==
    \A t \in Tokens : /\ Row(d, "k", t) = Mul(Weight(pass.L, "attnK"), AttnIn(pass.L, PosOf(t)))
                      /\ Row(d, "v", t) = Mul(Weight(pass.L, "attnV"), AttnIn(pass.L, PosOf(t)))
LEMMA AttendingKeys ==
    ASSUME KnowsAttention(c), c.arch = "qwen35", NEW d, Attending(d), NEW k, NEW v,
           \A t \in Tokens : /\ k[t] = Rope(PosOf(t), HeadNorm(c, pass.L, "attnKNorm", Row(d, "k", t)))
                             /\ v[t] = Row(d, "v", t)
    PROVE  \A t \in Tokens : k[t] = KeyOf(c, pass.L, PosOf(t)) /\ v[t] = ValueOf(c, pass.L, PosOf(t))
  <1>1. ~Has(c, "attnKBias") /\ ~Has(c, "attnVBias")
    BY DEF KnowsAttention
  <1> QED
    BY <1>1 DEF Attending, KeyOf, ValueOf, Projected

LEMMA QueryKeyValueRows ==
    ASSUME TypeInv, OnGpu, NormedInputs, {Type("attnQ"), Type("attnK"), Type("attnV")} \subseteq KnownTypes
    PROVE  DevShape(QueryKeyValue(dev)) /\ Attending(QueryKeyValue(dev))
  <1> DEFINE p == gemv(dev, "attnQ", "norm", "q35QGate")
             q == gemv(p, "attnK", "norm", "k")
             r == gemv(q, "attnV", "norm", "v")
  <1>1. QueryKeyValue(dev) = r
    BY DEF QueryKeyValue
  <1>2. /\ {"q35QGate", "norm", "k", "v"} \subseteq DevBuffers /\ DevKept(dev, dev, "norm") /\ Sized
        /\ \A t \in Tokens : t \in Slots /\ Row(dev, "norm", t) = AttnIn(pass.L, PosOf(t))
    BY SizedByType, TokensAreSlots DEF DevBuffers, DevKept, TypeInv, NormedInputs, Normed
  <1>3. DevKept(dev, p, "norm")
    BY <1>2, GemvKeeps
  <1> HIDE DEF p
  <1>4. DevKept(dev, q, "norm")
    BY <1>2, <1>3, GemvKeeps
  <1>5. \A t \in Tokens : Row(q, "k", t) = Mul(Weight(pass.L, "attnK"), Row(p, "norm", t))
    <2>1. Between([name |-> "attnK", from |-> "norm", to |-> "k"])
      BY <1>2 DEF Between
    <2> QED
      BY <1>2, <1>3, <2>1, GemvRows DEF DevKept
  <1> HIDE DEF q
  <1>6. DevKept(q, r, "k")
    <2>1. DevKept(q, q, "k")
      BY <1>4 DEF DevKept
    <2> QED
      BY <1>2, <2>1, GemvKeeps
  <1>7. \A t \in Tokens : Row(r, "v", t) = Mul(Weight(pass.L, "attnV"), Row(q, "norm", t))
    <2>1. Between([name |-> "attnV", from |-> "norm", to |-> "v"])
      BY <1>2 DEF Between
    <2> QED
      BY <1>2, <1>4, <2>1, GemvRows DEF DevKept
  <1> HIDE DEF r
  <1>8. Attending(r)
    BY <1>2, <1>3, <1>4, <1>5, <1>6, <1>7 DEF Attending, DevKept
  <1> QED
    BY <1>1, <1>6, <1>8 DEF DevKept

\* The head norms and the rotation, in place.
RopedRows(d, e) ==
    \A t \in Tokens : /\ Row(e, "k", t) = Rope(PosOf(t), HeadNorm(c, pass.L, "attnKNorm", Row(d, "k", t)))
                      /\ Row(e, "v", t) = Row(d, "v", t)
LEMMA HeadsRoped ==
    ASSUME TypeInv, NEW d, DevShape(d)
    PROVE  RopedRows(d, kQ35MRoPE(kQ35MRoPE(kQ35HeadRmsNorm(kQ35HeadRmsNorm2(d)), "q"), "k"))
  <1> DEFINE fq == [t \in Tokens |-> HeadNorm(c, pass.L, "attnQNorm", Part("query", Row(d, "q35QGate", t)))]
             p == PutAll(d, "q", fq)
             fk == [t \in Tokens |-> HeadNorm(c, pass.L, "attnKNorm", Row(p, "k", t))]
             q == PutAll(p, "k", fk)
             gq == [t \in Tokens |-> Rope(PosOf(t), Row(q, "q", t))]
             r == PutAll(q, "q", gq)
             gk == [t \in Tokens |-> Rope(PosOf(t), Row(r, "k", t))]
             s == PutAll(r, "k", gk)
  <1>1. kQ35HeadRmsNorm2(d) = p /\ kQ35HeadRmsNorm(p) = q /\ kQ35MRoPE(q, "q") = r /\ kQ35MRoPE(r, "k") = s
    BY DEF kQ35HeadRmsNorm2, kQ35HeadRmsNorm, kQ35MRoPE, Each
  <1>2. /\ {"q", "k", "v"} \subseteq DevBuffers /\ DevKept(d, d, "k") /\ DevKept(d, d, "v")
        /\ \A t \in Tokens : t \in Slots
    BY TokensAreSlots DEF DevBuffers, DevKept
  <1> HIDE DEF fq
  <1>3. DevKept(d, p, "k") /\ DevKept(d, p, "v")
    BY <1>2, EachKeepsDev
  <1>4. \A t \in Tokens : fk[t] = HeadNorm(c, pass.L, "attnKNorm", Row(p, "k", t))
    OBVIOUS
  <1> HIDE DEF p, fk
  <1>5. DevKept(d, q, "v")
    BY <1>2, <1>3, EachKeepsDev
  <1>6. \A t \in Tokens : Row(q, "k", t) = fk[t]
    BY <1>2, <1>3, PutAllRow DEF DevKept, DevShape
  <1> HIDE DEF q, gq
  <1>7. DevKept(q, r, "k") /\ DevKept(d, r, "v")
    <2>1. DevKept(q, q, "k")
      BY <1>5 DEF DevKept
    <2> QED
      BY <1>2, <1>5, <2>1, EachKeepsDev
  <1>8. \A t \in Tokens : gk[t] = Rope(PosOf(t), Row(r, "k", t))
    OBVIOUS
  <1> HIDE DEF r, gk
  <1>9. DevKept(d, s, "v")
    BY <1>2, <1>7, EachKeepsDev
  <1>10. \A t \in Tokens : Row(s, "k", t) = gk[t]
    BY <1>2, <1>7, PutAllRow DEF DevKept, DevShape
  <1> HIDE DEF s
  <1>11. RopedRows(d, s)
    BY <1>2, <1>3, <1>4, <1>6, <1>7, <1>8, <1>9, <1>10 DEF RopedRows, DevKept
  <1> QED
    BY <1>1, <1>11

LEMMA HybridAttentionKept ==
    ASSUME KeptInv, KnowsAttention(c), HybridAttention
    PROVE  KvInv' /\ PathInv' /\ KeyInv'
  <1> DEFINE p == QueryKeyValue(dev)
             d == kQ35MRoPE(kQ35MRoPE(kQ35HeadRmsNorm(kQ35HeadRmsNorm2(p)), "q"), "k")
             k == [t \in Tokens |-> Row(d, "k", t)]
             v == [t \in Tokens |-> Row(d, "v", t)]
             slot == kvLayerOffset(pass.L)
  <1>1. /\ TypeInv /\ PathInv /\ pass.stage = "attention" /\ pass.engine = "hybrid" /\ OnGpu
        /\ kv' = [kv EXCEPT ![slot] = Stored(kv[slot], k, v)]
        /\ pass' = [pass EXCEPT !.stage = "ffn"]
    BY DEF KeptInv, HybridAttention, kQ35StoreKV, Stage, Goto, OnGpu
  <1>2. c' = c /\ kvPos' = kvPos /\ Within(pass, pass') /\ pass'.stage = "ffn"
    BY <1>1, StageMoves DEF HybridAttention
  <1>3. NormedInputs
    BY <1>1 DEF KeptInv, KeyInv
  <1>4. c.arch = "qwen35" /\ {Type("attnQ"), Type("attnK"), Type("attnV")} \subseteq KnownTypes
    BY <1>1, Engines DEF PathInv
  <1>5. DevShape(p) /\ Attending(p)
    BY <1>1, <1>3, <1>4, QueryKeyValueRows
  <1> HIDE DEF p
  <1>6. RopedRows(p, d)
    BY <1>1, <1>5, HeadsRoped
  <1>7. \A t \in Tokens : k[t] = Row(d, "k", t) /\ v[t] = Row(d, "v", t)
    OBVIOUS
  <1> HIDE DEF d, k, v
  <1>8. \A t \in Tokens : k[t] = KeyOf(c, pass.L, PosOf(t)) /\ v[t] = ValueOf(c, pass.L, PosOf(t))
    <2>1. \A t \in Tokens : /\ k[t] = Rope(PosOf(t), HeadNorm(c, pass.L, "attnKNorm", Row(p, "k", t)))
                            /\ v[t] = Row(p, "v", t)
      BY <1>6, <1>7 DEF RopedRows
    <2> QED
      BY <1>4, <1>5, <2>1, AttendingKeys
  <1> QED
    BY <1>1, <1>2, <1>8, AttentionStores

\* One token of the host: three projections of one folded row.
QkvFacts(h, p, t) ==
    LET x == Row(h, "attnNorm", t)
    IN  /\ HostKept(h, p, "attnNorm")
        /\ Row(p, "k", t) = Mul(W("attnK"), x) /\ Row(p, "v", t) = Mul(W("attnV"), x)
        /\ \A s \in Slots : s # t => Row(p, "k", s) = Row(h, "k", s) /\ Row(p, "v", s) = Row(h, "v", s)
LEMMA ThreeProjections ==
    ASSUME NEW h, HostShape(h), NEW x, KnowsAttention(c), NEW t \in Slots, x = Row(h, "attnNorm", t)
    PROVE  QkvFacts(h, Project(h, x, <<"attnQ", "attnK", "attnV">>, <<<<"qGate", t>>, <<"k", t>>, <<"v", t>>>>), t)
  <1> DEFINE names == <<"attnQ", "attnK", "attnV">>
             rows == <<<<"qGate", t>>, <<"k", t>>, <<"v", t>>>>
             p == Project(h, x, names, rows)
             perm == names = <<"ssmOut">>
             e == applyPrismTransform(h, x, perm)
             y == Operand(e, x)
             m == [names |-> names, rows |-> rows, x |-> y]
             f == [i \in 1..Len(m.names) |-> i]
             g1 == Put(e, "qGate", t, matMulVec("attnQ", y))
             g2 == Put(g1, "k", t, matMulVec("attnK", y))
             g3 == Put(g2, "v", t, matMulVec("attnV", y))
  <1>1. {"qGate", "k", "v", "attnNorm", "prismAct"} \subseteq HostBuffers /\ 1 \in Slots
    BY SizesAssumption DEF HostBuffers, Slots
  <1>2. HostKept(h, p, "attnNorm")
    <2>1. Apart(names, rows, "attnNorm")
      BY DEF Apart
    <2> HIDE DEF names, rows
    <2> QED
      BY <1>1, <2>1, ProjectKeeps
  <1>3. p = g3
    <2>1. p = FoldLeft(LAMBDA g, i : projectRow(g, i, m), e, [i \in 1..Len(m.names) |-> i])
      BY Zenon DEF Project
    <2>2. /\ Len(m.names) = 3 /\ f[1] = 1 /\ f[2] = 2 /\ f[3] = 3 /\ m.x = y
          /\ m.names[1] = "attnQ" /\ m.names[2] = "attnK" /\ m.names[3] = "attnV"
          /\ m.rows[1] = <<"qGate", t>> /\ m.rows[2] = <<"k", t>> /\ m.rows[3] = <<"v", t>>
      OBVIOUS
    <2> HIDE DEF m, e, y
    <2>3. p = Many!Fold(m, e, f, 1..3)
      <3>1. FoldLeft(LAMBDA g, i : projectRow(g, i, m), e, [i \in 1..Len(m.names) |-> i])
            = Many!Fold(m, e, f, 1..Len(m.names))
        BY ProjectIsFold
      <3> HIDE DEF f
      <3> QED
        BY <2>1, <2>2, <3>1
    <2> HIDE DEF f, p
    <2>4. Many!Fold(m, e, f, 1..3) = projectRow(Many!Fold(m, e, f, 1..2), 3, m)
      <3>1. PICK n \in Nat : n = 3 /\ n # 0 /\ n - 1 = 2
        OBVIOUS
      <3>2. Many!Fold(m, e, f, 1..n) = projectRow(Many!Fold(m, e, f, 1..(n - 1)), f[n], m)
        BY <3>1, ProjectNext
      <3> QED
        BY <2>2, <3>1, <3>2
    <2>5. Many!Fold(m, e, f, 1..2) = projectRow(Many!Fold(m, e, f, 1..1), 2, m)
      <3>1. PICK n \in Nat : n = 2 /\ n # 0 /\ n - 1 = 1
        OBVIOUS
      <3>2. Many!Fold(m, e, f, 1..n) = projectRow(Many!Fold(m, e, f, 1..(n - 1)), f[n], m)
        BY <3>1, ProjectNext
      <3> QED
        BY <2>2, <3>1, <3>2
    <2>6. Many!Fold(m, e, f, 1..1) = projectRow(e, 1, m)
      <3>1. PICK n \in Nat : n = 1 /\ n # 0 /\ 1..(n - 1) = {}
        OBVIOUS
      <3>2. Many!Fold(m, e, f, 1..n) = projectRow(Many!Fold(m, e, f, 1..(n - 1)), f[n], m)
        BY <3>1, ProjectNext
      <3>3. Many!Fold(m, e, f, {}) = e
        BY LargestPickedHost, Many!FoldEmpty
      <3> QED
        BY <2>2, <3>1, <3>2, <3>3
    <2>7. projectRow(e, 1, m) = g1
      BY <2>2 DEF projectRow
    <2>8. projectRow(g1, 2, m) = g2
      <3> HIDE DEF g1
      <3> QED
        BY <2>2 DEF projectRow
    <2>9. projectRow(g2, 3, m) = g3
      <3> HIDE DEF g2
      <3> QED
        BY <2>2 DEF projectRow
    <2> QED
      BY <2>3, <2>4, <2>5, <2>6, <2>7, <2>8, <2>9
  <1>4. ~perm /\ perm \in BOOLEAN
    <2>1. Len(names) # Len(<<"ssmOut">>)
      OBVIOUS
    <2> QED
      BY <2>1
  <1> HIDE DEF perm
  <1>5. HostKept(h, e, "k") /\ HostKept(h, e, "v")
    <2>1. HostKept(h, h, "k") /\ HostKept(h, h, "v")
      BY DEF HostKept
    <2> QED
      BY <1>1, <2>1, PutKeeps DEF applyPrismTransform
  <1>6. ASSUME NEW name \in {"attnK", "attnV"}
        PROVE  matMulVec(name, y) = Mul(W(name), x)
    <2>1. CASE c.prism
      <3>1. y = Fold(perm, x)
        BY <2>1, OperandRow
      <3>2. Type(name) = "PQ2_0"
        BY <2>1 DEF KnowsAttention, Type
      <3> HIDE DEF y
      <3>3. matMulVec(name, y) = RotatedMul(W(name), y)
        BY <2>1, <3>2 DEF matMulVec
      <3>4. PICK w : w = W(name)
        OBVIOUS
      <3>5. w[3] # "ssmOut"
        BY <3>4 DEF W, Weight
      <3>6. RotatedMul(w, Fold(perm, x)) = Mul(w, x)
        BY <1>4, <3>5, FoldedProduct
      <3> QED
        BY <3>1, <3>3, <3>4, <3>6
    <2>2. CASE ~c.prism
      BY <2>2 DEF Operand, matMulVec
    <2> QED
      BY <2>1, <2>2
  <1> HIDE DEF e, y
  <1>7. HostKept(h, g1, "k") /\ HostKept(h, g1, "v")
    BY <1>1, <1>5, PutKeeps
  <1> HIDE DEF g1
  <1>8. /\ HostKept(h, g2, "v") /\ Row(g2, "k", t) = Mul(W("attnK"), x)
        /\ \A s \in Slots : s # t => Row(g2, "k", s) = Row(h, "k", s)
    <2>1. HostKept(h, g2, "v")
      BY <1>1, <1>7, PutKeeps
    <2>2. Row(g2, "k", t) = matMulVec("attnK", y)
      BY <1>1, <1>7, PutRow DEF HostKept, HostShape
    <2>3. \A s \in Slots : s # t => Row(g2, "k", s) = Row(h, "k", s)
      BY <1>1, <1>7, PutRow DEF HostKept, HostShape
    <2> QED
      BY <1>6, <2>1, <2>2, <2>3
  <1> HIDE DEF g2
  <1>9. /\ Row(g3, "v", t) = Mul(W("attnV"), x)
        /\ \A s \in Slots : s # t => Row(g3, "v", s) = Row(h, "v", s)
        /\ \A s \in Slots : Row(g3, "k", s) = Row(g2, "k", s)
    <2>1. Row(g3, "v", t) = matMulVec("attnV", y)
      BY <1>1, <1>8, PutRow DEF HostKept, HostShape
    <2>2. \A s \in Slots : s # t => Row(g3, "v", s) = Row(h, "v", s)
      BY <1>1, <1>8, PutRow DEF HostKept, HostShape
    <2>3. \A s \in Slots : Row(g3, "k", s) = Row(g2, "k", s)
      BY <1>1, <1>8, PutRow DEF HostKept, HostShape
    <2> QED
      BY <1>6, <2>1, <2>2, <2>3
  <1> HIDE DEF g3, p
  <1> QED
    BY <1>2, <1>3, <1>8, <1>9 DEF QkvFacts, p

\* The loop over the tokens of the pass.
QkvGood(h, p, n) ==
    /\ HostKept(h, p, "attnNorm")
    /\ \A t \in 1..n : /\ Row(p, "k", t) = Mul(W("attnK"), Row(h, "attnNorm", t))
                       /\ Row(p, "v", t) = Mul(W("attnV"), Row(h, "attnNorm", t))
LEMMA QkvScan ==
    ASSUME TypeInv, KnowsAttention(c), NEW h, HostShape(h)
    PROVE  QkvGood(h, EachToken(QkvRow, h), pass.T)
  <1> DEFINE f == [t \in Tokens |-> t]
             at(n) == Qkving!Fold({}, h, f, 1..n)
             A == {n \in 0..pass.T : QkvGood(h, at(n), n)}
  <1>1. EachToken(QkvRow, h) = Qkving!Fold({}, h, f, 1..pass.T)
    BY DEF EachToken, FoldLeft, MapThenFoldSet, Max, Qkving!Fold, Qkving!MapThenFoldSet, Largest, qkvOp, Tokens
  <1>2. pass.T \in Nat /\ \A n \in 1..pass.T : f[n] = n /\ n \in Slots
    BY SizedByType, TokensAreSlots DEF Tokens
  <1>3. 0 \in A
    <2>1. 1..0 = {} /\ 0 \in 0..pass.T
      BY <1>2
    <2>2. at(0) = h
      BY <2>1, LargestPickedHost, Qkving!FoldEmpty
    <2> QED
      BY <2>1, <2>2 DEF QkvGood, HostKept
  <1>4. ASSUME NEW n \in 1..pass.T, n - 1 \in A
        PROVE  n \in A
    <2> DEFINE g == at(n - 1)
    <2>1. at(n) = QkvRow(g, n)
      <3>1. at(n) = QkvRow(g, f[n])
        BY <1>2, LargestPickedHost, Qkving!FoldNext DEF qkvOp
      <3> QED
        BY <1>2, <3>1
    <2>2. QkvGood(h, g, n - 1)
      BY <1>4
    <2> HIDE DEF g, at
    <2>3. QkvFacts(g, at(n), n)
      <3>1. HostShape(g)
        BY <2>2 DEF QkvGood, HostKept
      <3> DEFINE x == Row(g, "attnNorm", n)
      <3>2. QkvRow(g, n) = Project(g, x, <<"attnQ", "attnK", "attnV">>, <<<<"qGate", n>>, <<"k", n>>, <<"v", n>>>>)
        BY DEF QkvRow
      <3>3. x = Row(g, "attnNorm", n)
        OBVIOUS
      <3> HIDE DEF x
      <3> QED
        BY <1>2, <2>1, <3>1, <3>2, <3>3, ThreeProjections
    <2>4. HostKept(h, at(n), "attnNorm")
      BY <2>2, <2>3 DEF QkvGood, QkvFacts, HostKept
    <2>5. \A t \in 1..n : /\ Row(at(n), "k", t) = Mul(W("attnK"), Row(h, "attnNorm", t))
                          /\ Row(at(n), "v", t) = Mul(W("attnV"), Row(h, "attnNorm", t))
      <3> TAKE t \in 1..n
      <3>1. CASE t = n
        BY <1>2, <2>2, <2>3, <3>1 DEF QkvGood, QkvFacts, HostKept
      <3>2. CASE t # n
        <4>1. n \in Nat /\ t \in Nat
          BY <1>2
        <4>2. t \in 1..(n - 1)
          BY <3>2, <4>1
        <4>3. t \in 1..pass.T
          BY <1>2, <4>1
        <4> QED
          BY <1>2, <2>2, <2>3, <3>2, <4>2, <4>3 DEF QkvGood, QkvFacts
      <3> QED
        BY <3>1, <3>2
    <2> QED
      BY <1>2, <2>4, <2>5 DEF QkvGood
  <1>5. pass.T \in A
    <2> HIDE DEF A
    <2> QED
      BY <1>2, <1>3, <1>4, LargestPickedHost, Qkving!EveryIndex
  <1> HIDE DEF f
  <1>6. QkvGood(h, Qkving!Fold({}, h, f, 1..pass.T), pass.T)
    BY <1>5
  <1> QED
    BY <1>1, <1>6

LEMMA FullAttentionKept ==
    ASSUME KeptInv, KnowsAttention(c), forwardQwen35FullAttention
    PROVE  KvInv' /\ PathInv' /\ KeyInv'
  <1> DEFINE p == EachToken(QkvRow, host)
             k == [t \in Tokens |-> Rope(PosOf(t), HeadNorm(c, pass.L, "attnKNorm", Row(p, "k", t)))]
             v == [t \in Tokens |-> Row(p, "v", t)]
  <1>1. /\ TypeInv /\ PathInv /\ pass.stage = "attention" /\ pass.engine = "q35cpu" /\ ~OnGpu
        /\ kv' = [kv EXCEPT ![pass.L] = Stored(kv[pass.L], k, v)]
        /\ pass' = [pass EXCEPT !.stage = "ffn"]
    BY DEF KeptInv, forwardQwen35FullAttention, Stage, Goto, OnGpu
  <1>2. c' = c /\ kvPos' = kvPos /\ Within(pass, pass') /\ pass'.stage = "ffn"
    BY <1>1, StageMoves DEF forwardQwen35FullAttention
  <1>3. NormedInputs
    BY <1>1 DEF KeptInv, KeyInv
  <1>4. c.arch = "qwen35"
    BY <1>1, Engines
  <1>5. \A t \in Tokens : /\ k[t] = Rope(PosOf(t), HeadNorm(c, pass.L, "attnKNorm", Row(p, "k", t)))
                          /\ v[t] = Row(p, "v", t)
    OBVIOUS
  <1> HIDE DEF k, v
  <1>6. QkvGood(host, p, pass.T)
    BY <1>1, QkvScan DEF TypeInv
  <1> HIDE DEF p
  <1>7. Attending(p)
    BY <1>1, <1>3, <1>6 DEF Attending, QkvGood, NormedInputs, Normed, Tokens, W
  <1>8. \A t \in Tokens : k[t] = KeyOf(c, pass.L, PosOf(t)) /\ v[t] = ValueOf(c, pass.L, PosOf(t))
    BY <1>4, <1>5, <1>7, AttendingKeys
  <1> QED
    BY <1>1, <1>2, <1>8, AttentionStores

-----------------------------------------------------------------------------
(* Between the layers.                                                     *)

LEMMA NextLayerKept ==
    ASSUME KeptInv, NextLayer
    PROVE  KvInv' /\ PathInv' /\ KeyInv'
  <1>1. TypeInv /\ KvInv
    BY DEF KeptInv
  <1>2. /\ pass.stage = "out" /\ pass.L < LastLayer /\ UNCHANGED <<c, kv, kvPos>>
        /\ pass' = [pass EXCEPT !.L = pass.L + 1, !.stage = "norm"]
        /\ OnGpu = OnDevice(pass.L + 1)
    BY DEF NextLayer
  <1>3. /\ pass'.T = pass.T /\ pass'.L = pass.L + 1 /\ pass'.stage = "norm" /\ pass'.engine = pass.engine
    BY <1>1, <1>2 DEF TypeInv, PassOK
  <1>4. LastLayer \in Nat /\ pass.L \in Nat /\ \A t \in Tokens : t \in Slots
    BY <1>1, SizedByType, SizesAssumption DEF Sized, TypeInv, PassOK, Tokens, Slots
  <1>5. KvInv'
    <2>1. \A L \in 1..LastLayer : KvCount(pass', kvPos', L) = KvCount(pass, kvPos, L)
      BY <1>2, <1>3, <1>4 DEF KvCount, BeforeStore
    <2> QED
      BY <1>1, <1>2, <2>1, KvKept
  <1>6. Tokens' = Tokens /\ OnGpu' = OnGpu /\ \A t \in Tokens : PosOf(t)' = PosOf(t)
    BY <1>2, <1>3 DEF Tokens, OnGpu, PosOf
  <1>7. PathInv'
    <2>1. OnDevice(pass.L)' = OnDevice(pass.L + 1)
      BY <1>2, <1>3 DEF OnDevice
    <2> QED
      BY <1>2, <1>3, <1>6, <2>1 DEF PathInv
  <1>8. \A t \in Tokens : HiddenOf(t)' = X(pass.L + 1, PosOf(t))
    <2> DEFINE f == [t \in Tokens |-> X(pass.L + 1, PosOf(t))]
    <2>1. /\ dev' = IF OnGpu THEN PutAll(dev, "hidden", f) ELSE dev
          /\ host' = IF OnGpu THEN host ELSE PutAll(host, "hidden", f)
      BY DEF NextLayer, Each
    <2>2. \A t \in Tokens : f[t] = X(pass.L + 1, PosOf(t))
      OBVIOUS
    <2> HIDE DEF f
    <2>3. /\ \A t \in Tokens : Row(PutAll(dev, "hidden", f), "hidden", t) = f[t]
          /\ \A t \in Tokens : Row(PutAll(host, "hidden", f), "hidden", t) = f[t]
      <3>1. "hidden" \in DevBuffers /\ "hidden" \in HostBuffers /\ RowsShape(dev, DevBuffers) /\ RowsShape(host, HostBuffers)
        BY <1>1 DEF DevBuffers, HostBuffers, TypeInv, DevShape, HostShape
      <3> QED
        BY <1>4, <3>1, PutAllRow
    <2>4. \A t \in Tokens : IF OnGpu THEN Row(dev', "hidden", t) = f[t] ELSE Row(host', "hidden", t) = f[t]
      BY <2>1, <2>3
    <2> QED
      BY <1>6, <2>2, <2>4 DEF HiddenOf, Row
  <1>9. KeyInv'
    <2>1. (\A t \in Tokens : HiddenOf(t) = X(pass.L, PosOf(t)))'
      BY <1>3, <1>6, <1>8
    <2> QED
      BY <1>3, <2>1 DEF KeyInv
  <1> QED
    BY <1>5, <1>7, <1>9

\* The other steps between layers and between passes.
LEMMA BetweenKept ==
    ASSUME KeptInv, \/ \E T \in 1..MaxBatch, all \in BOOLEAN : Start(T, all)
                    \/ EmbedPass \/ gpuCopyHiddenOut \/ LMHead
    PROVE  KvInv' /\ PathInv' /\ KeyInv'
  <1>1. TypeInv /\ KvInv /\ c' = c /\ kv' = kv
    <2>1. CASE \E T \in 1..MaxBatch, all \in BOOLEAN : Start(T, all)
      BY <2>1, StartFrame DEF KeptInv
    <2> QED
      BY <2>1 DEF KeptInv, EmbedPass, gpuCopyHiddenOut, LMHead
  <1>2. /\ pass'.stage \in {"idle", "embed", "out"}
        /\ \A L \in 1..LastLayer : KvCount(pass', kvPos', L) = KvCount(pass, kvPos, L)
    <2>0. LastLayer \in Nat /\ pass.L \in Nat /\ pass.L <= LastLayer /\ kvPos \in Nat /\ pass.T \in Nat
      BY <1>1, SizedByType, SizesAssumption DEF TypeInv, PassOK
    <2>1. CASE \E T \in 1..MaxBatch, all \in BOOLEAN : Start(T, all)
      <3>1. pass = Idle /\ kvPos' = kvPos /\ pass'.L = 0 /\ pass'.stage = "embed"
        BY <1>1, <2>1, StartFrame DEF TypeInv, PassOK, Idle
      <3> QED
        BY <2>0, <3>1 DEF KvCount, BeforeStore, Idle
    <2>2. CASE EmbedPass
      <3>1. pass.stage = "embed" /\ kvPos' = kvPos /\ pass' = [pass EXCEPT !.stage = "out"]
        BY <2>2 DEF EmbedPass, Goto
      <3>2. pass'.T = pass.T /\ pass'.L = pass.L /\ pass'.stage = "out"
        BY <1>1, <3>1 DEF TypeInv, PassOK
      <3> QED
        BY <3>1, <3>2 DEF KvCount, BeforeStore
    <2>3. CASE gpuCopyHiddenOut
      <3>1. pass.stage = "out" /\ kvPos' = kvPos /\ pass' = [pass EXCEPT !.engine = HostEngine]
        BY <2>3 DEF gpuCopyHiddenOut
      <3>2. pass'.T = pass.T /\ pass'.L = pass.L /\ pass'.stage = "out"
        BY <1>1, <3>1 DEF TypeInv, PassOK
      <3> QED
        BY <3>1, <3>2 DEF KvCount, BeforeStore
    <2>4. CASE LMHead
      <3>1. pass.stage = "out" /\ pass.L = LastLayer /\ pass' = Idle /\ kvPos' = kvPos + pass.T
        BY <2>4 DEF LMHead, HeadReached, Advanced
      <3> QED
        BY <2>0, <3>1 DEF KvCount, BeforeStore, Idle
    <2> QED
      BY <2>1, <2>2, <2>3, <2>4
  <1>3. KvInv'
    BY <1>1, <1>2, KvKept
  <1>4. PathInv' /\ KeyInv'
    BY <1>2 DEF PathInv, KeyInv
  <1> QED
    BY <1>3, <1>4

\* A cleared session has no token whose key the cache must hold.
LEMMA KvEmpty ==
    ASSUME NEW cache, NEW L
    PROVE  KvAt(cache, L, 0)
  BY DEF KvAt
LEMMA ClearKept ==
    ASSUME KeptInv, clearKVCache
    PROVE  KvInv' /\ PathInv' /\ KeyInv'
  <1>1. /\ c' = c /\ kvPos' = 0 /\ pass' = pass /\ pass.stage = "idle" /\ kv' = kv
        /\ TypeInv
    BY DEF KeptInv, clearKVCache
  <1>2. pass = Idle /\ LastLayer' = LastLayer /\ LastLayer \in 0..NumLayers
    BY <1>1, SizedByType DEF TypeInv, PassOK, LastLayer
  <1>3. \A L \in 1..LastLayer : KvCount(pass', kvPos', L) = 0
    BY <1>1, <1>2 DEF KvCount, Idle
  <1>4. KvInv'
    <2>1. \A L \in 1..LastLayer : KvAt(kv[SlotOf(L)], L, KvCount(pass, kvPos, L))'
      <3> SUFFICES ASSUME NEW L \in 1..LastLayer
                   PROVE  KvAt(kv[SlotOf(L)], L, KvCount(pass, kvPos, L))'
        BY <1>2
      <3>1. (KvCount(pass, kvPos, L))' = 0
        BY <1>3 DEF KvCount
      <3> QED
        BY <3>1 DEF KvAt
    <2> QED
      BY <1>2, <2>1 DEF KvInv
  <1>5. PathInv' /\ KeyInv'
    BY <1>1 DEF PathInv, KeyInv
  <1> QED
    BY <1>4, <1>5

LEMMA InitKept == ASSUME Init PROVE KeptInv
  <1>1. TypeInv
    BY InitType
  <1>2. kvPos = 0 /\ pass = Idle
    BY DEF Init
  <1>3. KvInv
    <2> SUFFICES ASSUME NEW L \in 1..LastLayer
                 PROVE  KvAt(kv[SlotOf(L)], L, KvCount(pass, kvPos, L))
      BY DEF KvInv
    <2>1. KvCount(pass, kvPos, L) = 0
      BY <1>2 DEF KvCount, Idle
    <2> QED
      BY <2>1, KvEmpty
  <1>4. PathInv /\ KeyInv
    BY <1>2 DEF PathInv, KeyInv, Idle
  <1> QED
    BY <1>1, <1>3, <1>4 DEF KeptInv

LEMMA StutterKept ==
    ASSUME KeptInv, UNCHANGED vars
    PROVE  KvInv' /\ PathInv' /\ KeyInv'
  <1>1. c' = c /\ dev' = dev /\ host' = host /\ kv' = kv /\ kvPos' = kvPos /\ pass' = pass
    BY DEF vars
  <1>2. KvInv'
    BY <1>1, KvKept DEF KeptInv
  <1>3. Tokens' = Tokens /\ OnGpu' = OnGpu /\ \A L : OnDevice(L)' = OnDevice(L)
    BY <1>1 DEF Tokens, OnGpu, OnDevice
  <1>4. PathInv'
    <2>1. OnDevice(pass.L)' = OnDevice(pass.L)
      BY <1>1 DEF OnDevice
    <2> QED
      BY <1>1, <1>3, <2>1 DEF PathInv, KeptInv
  <1>5. \A t : PosOf(t)' = PosOf(t) /\ HiddenOf(t)' = HiddenOf(t) /\ Normed(t)' = Normed(t)
    BY <1>1, <1>3 DEF PosOf, HiddenOf, Normed, Row
  <1>6. /\ NormedInputs' = NormedInputs /\ FoldedNorm' = FoldedNorm
        /\ Projections(dev)' = Projections(dev) /\ Projections(host)' = Projections(host)
    BY <1>1, <1>3, <1>5 DEF NormedInputs, FoldedNorm, Projections, Row
  <1>7. KeyInv'
    BY <1>1, <1>3, <1>5, <1>6 DEF KeptInv, KeyInv
  <1> QED
    BY <1>2, <1>4, <1>7

\* Every step keeps the invariant.
LEMMA NextKept ==
    ASSUME KnownAttention, KeptInv, [Next]_vars
    PROVE  KeptInv'
  <1>1. TypeInv /\ TypeInv' /\ KnowsAttention(c)
    BY NextType DEF KeptInv, KnownAttention, TypeInv
  <1>2. KvInv' /\ PathInv' /\ KeyInv'
    <2>1. CASE DenseGPU
      <3>1. CASE AttnNorm
        BY <3>1, NormKept
      <3>2. CASE DecodeQKV \/ PrefillQKV
        BY <1>1, <3>2, QkvKept
      <3>3. CASE DenseAttention
        BY <1>1, <3>3, DenseAttentionKept
      <3>4. CASE DecodeAttnO \/ PrefillAttnO \/ PersistentFFN \/ FfnNormRow \/ GateUp \/ Down
        BY <1>1, <3>4, LaterSteps, LaterKept
      <3> QED
        BY <2>1, <3>1, <3>2, <3>3, <3>4 DEF DenseGPU
    <2>2. CASE HybridGPU
      <3>1. CASE HybridNorm
        BY <3>1, NormKept
      <3>2. CASE RecurrentProjections \/ Recurrence
        BY <3>2, RecurrentKept
      <3>3. CASE HybridAttention
        BY <1>1, <3>3, HybridAttentionKept
      <3>4. CASE HybridFFN
        BY <1>1, <3>4, LaterSteps, LaterKept
      <3> QED
        BY <2>2, <3>1, <3>2, <3>3, <3>4 DEF HybridGPU
    <2>3. CASE ExpertsNext
      BY <1>1, <2>3, LaterSteps, LaterKept
    <2>4. CASE HostLayers
      <3>1. CASE HostNorm \/ Q35Norm
        BY <3>1, NormKept
      <3>2. CASE HostQKV
        BY <1>1, <3>2, QkvKept
      <3>3. CASE HostAttention
        BY <1>1, <3>3, HostAttentionKept
      <3>4. CASE forwardQwen35Recurrent
        BY <3>4, RecurrentKept
      <3>5. CASE forwardQwen35FullAttention
        BY <1>1, <3>5, FullAttentionKept
      <3>6. CASE HostAttnO \/ HostFfnNorm \/ HostExperts \/ HostPrefillFfn \/ HostDecodeFfn \/ Q35Ffn
        BY <1>1, <3>6, LaterSteps, LaterKept
      <3> QED
        BY <2>4, <3>1, <3>2, <3>3, <3>4, <3>5, <3>6 DEF HostLayers
    <2> QED
      BY <2>1, <2>2, <2>3, <2>4, StutterKept, NextLayerKept, BetweenKept, ClearKept DEF Next
  <1> QED
    BY <1>1, <1>2 DEF KeptInv

LEMMA KeptInvImplies == ASSUME KeptInv PROVE CacheHoldsKeys
  <1> SUFFICES ASSUME pass.stage = "idle", NEW L \in 1..LastLayer, ~Recurrent(c, L), NEW p \in 0..(kvPos - 1)
               PROVE  kv[SlotOf(L)][p] = [k |-> KeyOf(c, L, p), v |-> ValueOf(c, L, p)]
    BY DEF CacheHoldsKeys, SlotOf
  <1>1. pass = Idle /\ kvPos \in Nat /\ KvInv
    BY SizedByType DEF KeptInv, TypeInv, PassOK
  <1>2. KvCount(pass, kvPos, L) = kvPos
    BY <1>1 DEF KvCount, Idle
  <1> QED
    BY <1>1, <1>2 DEF KvInv, KvAt

\* CacheHoldsKeys: between passes the slot of every attention layer, whichever
\* engine ran it, by whichever launches and however the tokens came in passes,
\* holds for each token of the session the rotated key and the value that the
\* layer gives it (the stores of ModelForward.cpp, ModelQwen35.cpp and of the
\* attention kernels).
THEOREM CacheKept ==
    ASSUME KnownAttention
    PROVE  Spec => []CacheHoldsKeys
  <1>1. KeptInv /\ [Next]_vars => KeptInv'
    BY NextKept
  <1>2. Init => KeptInv
    BY InitKept
  <1>3. KeptInv => CacheHoldsKeys
    BY KeptInvImplies
  <1> QED
    BY <1>1, <1>2, <1>3, PTL DEF Spec
=============================================================================
