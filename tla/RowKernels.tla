----------------------------- MODULE RowKernels -----------------------------
(* One launch of a kernel over the blocks of a matrix row: which kernel    *)
(* the engine launches for a tensor, how the lanes of its warps share the  *)
(* blocks of a row, and how their partial sums are put together.  What a   *)
(* lane does with the bits of a block is in KernelsCpu, KernelsCuda,       *)
(* KernelsDecode, KernelsF16 and KernelsAvx2.                              *)
EXTENDS KernelsCpu, KernelsDecode, KernelsF16, KernelsAvx2, SequencesExt

CONSTANTS RowBlocks,      \* numbers of blocks in a row
          RowCounts,      \* numbers of rows of a matrix
          Excluded        \* launches <<kernel, tensor, blocks, rows>> left out

ASSUME SizesAssumption == RowBlocks \subseteq Nat /\ RowCounts \subseteq Nat

-----------------------------------------------------------------------------
(* The program of a warp.  A loop takes the blocks pos + offs while        *)
(* pos + room <= last, advancing by step.  For every block, the lanes      *)
(* exchange their terms (xors), and each lane in adders adds its own term, *)
(* or the terms of the lanes "from", to its running sum.                   *)
Loop(offs, room, step) ==
    [op |-> "loop", offs |-> offs, room |-> room, step |-> step,
     xors |-> <<>>, from |-> {}, adders |-> Lanes]

By(m) == Loop(0..(m - 1), m, m)
Stripes(step) == Loop({0}, 1, step)
FourStripes == Loop({0, 4, 8, 12}, 12, 16)            \* kQGemvQ2KxSplit4
Exchanging(loop, xors, from, adders) ==
    [loop EXCEPT !.xors = xors, !.from = from, !.adders = adders]

Fold(offs) == [op |-> "fold", offs |-> offs]          \* __shfl_xor_sync, added
Share(warps, lanes) == [op |-> "share", by |-> warps, lanes |-> lanes]
NoBarrier == Share({}, {})                            \* mutant: no __syncthreads
Barrier == [op |-> "barrier"]                         \* __syncthreads
AddLanes == [op |-> "add"]                            \* a lane adds warp 1's
SumPartials(lanes) == [op |-> "sum", lanes |-> lanes] \* lane 0 sums the shared
Write(lanes) == [op |-> "write", lanes |-> lanes]
Store == [op |-> "store"]             \* every lane writes its own columns

Tree == <<Fold(<<16, 8, 4, 2, 1>>)>>
OctetTree == <<Fold(<<4, 1, 2>>)>>
Leaders == {0, 8, 16, 24}

\* warps share a row; "group" lanes take a block between them.  With split
\* "row" the groups of a warp have a row each, with "stripe" they take turns
\* at the blocks of one row, with "chunk" each warp has a range of them.
Geometry(warps, lanes, group, split, rowsPerWarp, prog) ==
    [warps |-> warps, lanes |-> lanes, group |-> group, split |-> split,
     rowsPerWarp |-> rowsPerWarp, prog |-> prog]

RowPerLane == Geometry(1, 1, 1, "row", 1, <<By(1), Write({0})>>)           \* CPU
\* CPU, a tile of rows: eight partial sums in a vector, added lo + hi, hadd,
\* hadd; or one sum, added up sub-block by sub-block.
RowTile(rows) == Geometry(1, 8, 8, "tile", rows, <<By(1)>> \o OctetTree \o <<Write({0})>>)
RowTileOfSums == Geometry(1, 1, 1, "tile", 8, <<By(1), Write({0})>>)
RowPerWarp == Geometry(1, 32, 32, "row", 1, <<By(4), By(1)>> \o Tree \o <<Write({0})>>)
RowPerWarpPlain == Geometry(1, 32, 32, "row", 1, <<By(1)>> \o Tree \o <<Write({0})>>)
Octets(rowsPerWarp, loops) ==
    Geometry(1, 32, 8, "row", rowsPerWarp, loops \o OctetTree \o <<Write(Leaders)>>)
FourRows == Octets(4, <<By(4), By(1)>>)
StripedWarp(loops, tree, writers) ==
    Geometry(1, 32, 8, "stripe", 1, loops \o tree \o <<Write(writers)>>)
ChunkPerWarp(KN) ==
    Geometry(KN, 32, 32, "chunk", 1,
             <<By(4), By(1)>> \o Tree \o <<Share(0..(KN - 1), {0}), Barrier, SumPartials({0}), Write({0})>>)
TwoWarpStripes(group, step) ==
    Geometry(2, 32, group, "stripe", 1,
             <<Stripes(step), Share({1}, Lanes), Barrier, AddLanes>> \o Tree \o <<Write({0})>>)

\* The sub-block sums of a block are gathered from eight lanes by lane 0.
Gathered(loop) == Exchanging(loop, <<>>, 0..7, {0})
EightLanes(loops) == Geometry(1, 8, 8, "row", 1, loops \o <<Write({0})>>)
\* The terms of a block are summed by exchanges first; lane 0 adds the sum.
Summed(loop, xors, adders) == Exchanging(loop, xors, {}, adders)
SummedWarp == Geometry(1, 32, 32, "row", 1,
                       <<Summed(By(4), <<1, 2, 4, 8, 16>>, {0}),
                         Summed(By(1), <<1, 2, 4, 8, 16>>, {0}), Write({0})>>)
GroupSums == Geometry(1, 32, 32, "row", 1,
                      <<Exchanging(By(1), <<1, 2>>, {4 * g : g \in 0..7}, {0}), Write({0})>>)
Stored(lanes) == Geometry(1, lanes, lanes, "row", 1, <<By(1), Store>>)
StoredByEight == Geometry(8, 32, 32, "stripe", 1, <<Stripes(8), Store>>)
-----------------------------------------------------------------------------
(* The kernels: the format they decode, their terms, the offsets they take *)
(* off through sums of activations, and their geometry.                    *)
Kernel(fmt, terms, sums, geo) == [fmt |-> fmt, terms |-> terms, sums |-> sums, geo |-> geo]
NoSums == <<>>
Q6Sums == kxQ8KBlockDot_Q6K_bprod

Mmvq == TwoWarpStripes(16, 4)
SplitStripes == Geometry(2, 32, 8, "stripe", 1,
                         <<Stripes(8)>> \o OctetTree
                           \o <<Share({0, 1}, Leaders), Barrier, SumPartials(Leaders), Write({0})>>)
HalfWarps == Geometry(1, 32, 16, "stripe", 1, <<Stripes(2)>> \o Tree \o <<Write({0})>>)
OctetSums == Geometry(1, 32, 8, "row", 4,
                      <<Summed(By(4), <<1, 2, 4>>, Lanes), Summed(By(1), <<1, 2, 4>>, Lanes),
                        Write(Leaders)>>)
GatheredRows == Octets(4, <<Gathered(By(4)), Gathered(By(1))>>)
\* Four tokens, each its octet, one row.
FourTokens(loops, tree) == Geometry(1, 32, 8, "row", 1, loops \o tree \o <<Write(Leaders)>>)
\* Mutant: lane 0 alone adds the terms of a batch.
Eight6LaneZero ==
    Geometry(1, 8, 8, "row", 1,
             <<Exchanging(By(4), <<>>, {}, {0}), By(1)>> \o OctetTree \o <<Write({0})>>)

Eight6 == Geometry(1, 8, 8, "row", 1, <<By(4), By(1)>> \o OctetTree \o <<Write({0})>>)

GemvKernels ==
    [kQGemv_Q2K |-> Kernel("Q2_K", kQGemv_Q2K, NoSums, RowPerWarp),
     kQGemv_Q3K |-> Kernel("Q3_K", kQGemv_Q3K, NoSums, RowPerWarp),
     kQGemv_IQ2XS |-> Kernel("IQ2_XS", kQGemv_IQ2XS, NoSums, RowPerWarp),
     kQGemv_IQ2XXS |-> Kernel("IQ2_XXS", kQGemv_IQ2XXS, NoSums, RowPerWarpPlain),
     kQGemvSplitK2 |-> Kernel("Q3_K", kQGemvSplitK_Q3K, NoSums, ChunkPerWarp(2)),
     kQGemvSplitK4 |-> Kernel("Q3_K", kQGemvSplitK_Q3K, NoSums, ChunkPerWarp(4)),
     kQGemvSmall32_Q8_0 |-> Kernel("Q8_0", kQGemvSmall32_Q8_0, NoSums, RowPerWarpPlain),
     kQGemvSmall32_IQ4NL |-> Kernel("IQ4_NL", kQGemvSmall32_IQ4NL, NoSums, RowPerWarpPlain),
     kQGemvSmall32_Q5_0 |-> Kernel("Q5_0", kQGemvSmall32_Q5_0, NoSums, RowPerWarpPlain),
     kQGemvPQ2_0 |-> Kernel("PQ2_0", kQGemvPQ2_0, NoSums, RowPerWarpPlain),
     kQGemvQ2KxQ81_4xW |-> Kernel("Q2_K", kQGemvQ2KxQ81_4xW, NoSums, FourRows),
     kQGemvQ2KxQ81_SplitK |-> Kernel("Q2_K", kQGemvQ2KxQ81_SplitK, NoSums, SplitStripes),
     kQGemvQ2KxQ81_Mmvq |-> Kernel("Q2_K", kQGemvQ2KxQ81_Mmvq, NoSums, Mmvq),
     kQGemvQ2KxQ81_GLU |-> Kernel("Q2_K", kQGemvQ2KxQ81_GLU, NoSums, Mmvq),
     kQGemvQ3KxQ81_Mmvq |-> Kernel("Q3_K", kQGemvQ3KxQ81_Mmvq, NoSums, Mmvq),
     kQGemvQ2KxW4 |-> Kernel("Q2_K", kQGemvQ2KxW4, NoSums, FourRows),
     kQGemvQ2KxW4_words |-> Kernel("Q2_K", kQGemvQ2KxW4_words, NoSums, FourRows),
     kQGemvQ2KxW4Resid |-> Kernel("Q2_K", kQGemvQ2KxW4Resid, NoSums, FourRows),
     kQGemvQ2KxW4_RP |-> Kernel("Q2_K", kQGemvQ2KxW4_RP, NoSums, FourRows),
     kQGemvQ2KxW4_N8 |-> Kernel("Q2_K", kQGemvQ2KxW4_Nm, NoSums, Octets(8, <<By(4), By(1)>>)),
     kQGemvQ2KxW4_N16 |-> Kernel("Q2_K", kQGemvQ2KxW4_Nm, NoSums, Octets(16, <<By(4), By(1)>>)),
     kQGemvQ2KxW4b8 |-> Kernel("Q2_K", kQGemvQ2KxW4b8, NoSums, Octets(4, <<By(8), By(4), By(1)>>)),
     kQGemvQ2KxSplit4 |->
       Kernel("Q2_K", kQGemvQ2KxSplit4, NoSums,
              StripedWarp(<<FourStripes, Stripes(4)>>,
                          <<Fold(<<8, 16, 4, 1, 2>>)>>, Leaders)),
     kQGemvQ3KxW4 |-> Kernel("Q3_K", kQGemvQ3KxW4, NoSums, FourRows),
     kQGemvQ3KResid |-> Kernel("Q3_K", kQGemvQ3KResid, NoSums, RowPerWarp),
     kFfnQ2KRowDot4W |-> Kernel("Q2_K", kFfnQ2KRowDot4W, NoSums, FourRows),
     kFfnQ2KRowDot4W_Q81 |-> Kernel("Q2_K", kFfnQ2KRowDot4W_Q81, NoSums, FourRows),
     kFfnQ3KRowDot4W |-> Kernel("Q3_K", kFfnQ3KRowDot4W, NoSums, FourRows),
     kQGemvFusedGU_IQ2XS |-> Kernel("IQ2_XS", kQGemvFusedGU_IQ2XS, NoSums, RowPerWarp),
     kQGemvFusedGU_Q2K |-> Kernel("Q2_K", kQGemvFusedGU_Q2K, NoSums, RowPerWarp),
     kQGemvFusedQK_Q2K |-> Kernel("Q2_K", kQGemvFusedQK_Q2K, NoSums, RowPerWarp),
     kQGemvFusedQKV_xq81 |-> Kernel("Q2_K", kQGemvFusedQKV_xq81, NoSums, HalfWarps),
     kQGemvFusedQKV_V |-> Kernel("Q4_K", kQGemvFusedQKV_V, NoSums, RowPerWarp)]

\* Gate and up in one warp, each against the same quantized activations; lane
\* 0 adds the block's sum to the gate's and to the up's own running sum.
kQGemvQ8KFusedGU(f, sumi) == Kernel(f, sumi, NoSums, SummedWarp)
kQGemvQ2KIntFusedGU == Kernel("Q2_K", q2kIntDot8, q2kMlTerm, SummedWarp)

\* The routed experts: gate and up rows of a slot in one grid, then the down
\* rows of every slot, at the rank the slot holds.
kQGemvKxQ8K_BatchGU == Kernel("Q4_K", kxQ8KBlockDot_Q4K, NoSums, EightLanes(<<Gathered(By(1))>>))
kQGemvKxQ8K_BatchDownR ==
    Kernel("Q6_K", kxQ8KBlockDot_Q6K, Q6Sums,
           Geometry(1, 8, 8, "row", 1, <<By(1)>> \o OctetTree \o <<Write({0})>>))
kQGemvQ8_0xQ8K_BatchGU == Kernel("Q8_0", kQGemvQ8_0xQ8K, NoSums, GroupSums)
kQGemvQ8_0xQ8K_BatchDown == Kernel("Q8_0", kQGemvQ8_0xQ8K, NoSums, GroupSums)
kQGemvQ8_0xQ8K_BatchDownR == Kernel("Q8_0", kQGemvQ8_0xQ8K, NoSums, GroupSums)

\* Integer kernels over Q8_K (or 32-wide Q8) activations.
Q8KKernels ==
    [kQGemvKxQ8K_Q4K |-> Kernel("Q4_K", kxQ8KBlockDot_Q4K, NoSums,
                                EightLanes(<<Gathered(By(4)), Gathered(By(1))>>)),
     kQGemvKxQ8K_Q5K |-> Kernel("Q5_K", kxQ8KBlockDot_Q5K, NoSums,
                                EightLanes(<<Gathered(By(4)), Gathered(By(1))>>)),
     kQGemvKxQ8K_IQ4XS |-> Kernel("IQ4_XS", kxQ8KBlockDot_IQ4XS, NoSums,
                                  EightLanes(<<Gathered(By(4)), Gathered(By(1))>>)),
     kQGemvKxQ8K_Q6K |-> Kernel("Q6_K", kxQ8KBlockDot_Q6K, Q6Sums, Eight6),
     kQGemvQ6KxQ8K_4xW |-> Kernel("Q6_K", kxQ8KBlockDot_Q6K, Q6Sums, FourRows),
     kQGemvQ5KxQ8K_4xW |-> Kernel("Q5_K", kxQ5KBlockDotVec, NoSums, GatheredRows),
     kQGemvQ4KxQ8K_4xW |-> Kernel("Q4_K", kxQ4KBlockDotVec, NoSums, GatheredRows),
     kQGemmKxQ8K_Q4K |-> Kernel("Q4_K", kxQ8KBlockDot_Q4K, NoSums,
                                FourTokens(<<Gathered(By(4)), Gathered(By(1))>>, <<>>)),
     kQGemmKxQ8K_Q5K |-> Kernel("Q5_K", kxQ8KBlockDot_Q5K, NoSums,
                                FourTokens(<<Gathered(By(4)), Gathered(By(1))>>, <<>>)),
     kQGemmKxQ8K_IQ4XS |-> Kernel("IQ4_XS", kxQ8KBlockDot_IQ4XS, NoSums,
                                  FourTokens(<<Gathered(By(4)), Gathered(By(1))>>, <<>>)),
     kQGemmKxQ8K_Q6K |-> Kernel("Q6_K", kxQ8KBlockDot_Q6K, Q6Sums,
                                FourTokens(<<By(4), By(1)>>, OctetTree)),
     kMmqGemmQ4K_AffineRaw |->
       Kernel("Q4_K", kMmqGemmQ4K_AffineRaw, NoSums,
              Geometry(1, 4, 4, "row", 1, <<By(1), Fold(<<1, 2>>), Write({0})>>)),
     kQGemvKxQ8K_BatchGU |-> kQGemvKxQ8K_BatchGU,
     kQGemvKxQ8K_BatchDownR |-> kQGemvKxQ8K_BatchDownR,
     kQGemvQ8_0xQ8K_BatchGU |-> kQGemvQ8_0xQ8K_BatchGU,
     kQGemvQ8_0xQ8K_BatchDown |-> kQGemvQ8_0xQ8K_BatchDown,
     kQGemvQ8_0xQ8K_BatchDownR |-> kQGemvQ8_0xQ8K_BatchDownR,
     kQGemvQ2KxQ8K_4xW |-> Kernel("Q2_K", q2kXQ8KBlockDot, q2kXQ8KBlockDot_bsums, FourRows),
     kQGemvQ2KxQ8K_Mmvq |->
       Kernel("Q2_K", q2kXQ8KBlockDot, q2kXQ8KBlockDot_bsums,
              StripedWarp(<<Stripes(4)>>, <<Fold(<<4, 1, 2, 16, 8>>)>>, {0})),
     kQGemvQ2KIntFusedGU |-> kQGemvQ2KIntFusedGU,
     kQGemvQ8K_IQ2S |-> Kernel("IQ2_S", q8kLaneSumi_IQ2S, NoSums, SummedWarp),
     kQGemvQ8K_IQ2XS |-> Kernel("IQ2_XS", q8kLaneSumi_IQ2XS, NoSums, SummedWarp),
     kQGemvQ8K_IQ3XXS |-> Kernel("IQ3_XXS", q8kLaneSumi_IQ3XXS, NoSums, SummedWarp),
     kQGemvQ8K_IQ3S |-> Kernel("IQ3_S", q8kLaneSumi_IQ3S, NoSums, SummedWarp),
     kQGemvQ8K_4xW_IQ2S |-> Kernel("IQ2_S", q8kLaneSumi_IQ2S, NoSums, OctetSums),
     kQGemvQ8K_dp4a_IQ2S |-> Kernel("IQ2_S", q8kLaneSumi_dp4a_IQ2S, NoSums, SummedWarp),
     kQGemvQ8K_4xW_dp4a_IQ2S |-> Kernel("IQ2_S", q8kLaneSumi_dp4a_IQ2S, NoSums, OctetSums),
     kQGemvQ8K_4xW_IQ2XS |-> Kernel("IQ2_XS", q8kLaneSumi_IQ2XS, NoSums, OctetSums),
     kQGemvQ8K_dp4a_IQ2XS |-> Kernel("IQ2_XS", q8kLaneSumi_dp4a_IQ2XS, NoSums, SummedWarp),
     kQGemvQ8K_4xW_dp4a_IQ2XS |-> Kernel("IQ2_XS", q8kLaneSumi_dp4a_IQ2XS, NoSums, OctetSums),
     kQGemvQ8K_4xW_IQ3XXS |-> Kernel("IQ3_XXS", q8kLaneSumi_IQ3XXS, NoSums, OctetSums),
     kQGemvQ8K_dp4a_IQ3XXS |-> Kernel("IQ3_XXS", q8kLaneSumi_dp4a_IQ3XXS, NoSums, SummedWarp),
     kQGemvQ8K_4xW_dp4a_IQ3XXS |-> Kernel("IQ3_XXS", q8kLaneSumi_dp4a_IQ3XXS, NoSums, OctetSums),
     kQGemvQ8K_4xW_IQ3S |-> Kernel("IQ3_S", q8kLaneSumi_IQ3S, NoSums, OctetSums),
     kQGemvQ8K_dp4a_IQ3S |-> Kernel("IQ3_S", q8kLaneSumi_dp4a_IQ3S, NoSums, SummedWarp),
     kQGemvQ8K_4xW_dp4a_IQ3S |-> Kernel("IQ3_S", q8kLaneSumi_dp4a_IQ3S, NoSums, OctetSums),
     kQGemvQ8KFusedGU_IQ2S |-> kQGemvQ8KFusedGU("IQ2_S", q8kLaneSumi_IQ2S),
     kQGemvQ8KFusedGU_dp4a_IQ2S |-> kQGemvQ8KFusedGU("IQ2_S", q8kLaneSumi_dp4a_IQ2S),
     kQGemvQ8KFusedGU_IQ2XS |-> kQGemvQ8KFusedGU("IQ2_XS", q8kLaneSumi_IQ2XS),
     kQGemvQ8KFusedGU_dp4a_IQ2XS |-> kQGemvQ8KFusedGU("IQ2_XS", q8kLaneSumi_dp4a_IQ2XS),
     kQGemvQ8KFusedGU_IQ3XXS |-> kQGemvQ8KFusedGU("IQ3_XXS", q8kLaneSumi_IQ3XXS),
     kQGemvQ8KFusedGU_dp4a_IQ3XXS |-> kQGemvQ8KFusedGU("IQ3_XXS", q8kLaneSumi_dp4a_IQ3XXS),
     kQGemvQ8KFusedGU_IQ3S |-> kQGemvQ8KFusedGU("IQ3_S", q8kLaneSumi_IQ3S),
     kQGemvQ8KFusedGU_dp4a_IQ3S |-> kQGemvQ8KFusedGU("IQ3_S", q8kLaneSumi_dp4a_IQ3S),
     kQGemvQ8_0xQ8K |-> Kernel("Q8_0", kQGemvQ8_0xQ8K, NoSums, GroupSums)]

\* Kernels that write weights out, one warp per row.
StoreKernels ==
    [kDequantF16_Q8_0 |-> Kernel("Q8_0", kDequantF16_Q8_0, NoSums, Stored(4)),
     kDequantF16_IQ4NL |-> Kernel("IQ4_NL", kDequantF16_IQ4NL, NoSums, Stored(4)),
     kDequantF16_Q5_0 |-> Kernel("Q5_0", kDequantF16_Q5_0, NoSums, Stored(4)),
     kDequantF16_Q2K |-> Kernel("Q2_K", kDequantF16_Q2K, NoSums, Stored(32)),
     kDequantF16_Q3K |-> Kernel("Q3_K", kDequantF16_Q3K, NoSums, Stored(32)),
     kDequantF16_Q4K |-> Kernel("Q4_K", kDequantF16_Q4K, NoSums, Stored(32)),
     kDequantF16_Q6K |-> Kernel("Q6_K", kDequantF16_Q6K, NoSums, Stored(32)),
     kDequantF16_IQ2XS |-> Kernel("IQ2_XS", kDequantF16_IQ2XS, NoSums, Stored(32)),
     kDequantF16_IQ2XXS |-> Kernel("IQ2_XXS", kDequantF16_IQ2XXS, NoSums, Stored(32)),
     kDequantF16_IQ4XS |-> Kernel("IQ4_XS", kDequantF16_IQ4XS, NoSums, Stored(32)),
     kDequantF16_IQ2S |-> Kernel("IQ2_S", kDequantF16_IQ2S, NoSums, Stored(32)),
     kDequantF16_IQ3XXS |-> Kernel("IQ3_XXS", kDequantF16_IQ3XXS, NoSums, Stored(32)),
     kDequantF16_IQ3S |-> Kernel("IQ3_S", kDequantF16_IQ3S, NoSums, Stored(32)),
     kDequantF16_Q5K |-> Kernel("Q5_K", kDequantF16_Q5K, NoSums, Stored(32)),
     kEmbedDequant |-> Kernel("Q2_K", kEmbedDequant, NoSums, Stored(32)),
     kEmbedDequantIQ3S |-> Kernel("IQ3_S", kEmbedDequantIQ3S, NoSums, Stored(32)),
     kEmbedDequantQ5K |-> Kernel("Q5_K", kEmbedDequantQ5K, NoSums, Stored(32)),
     kEmbedDequantQ4K |-> Kernel("Q4_K", kEmbedDequantQ4K, NoSums, Stored(32)),
     kEmbedDequantPQ2_0 |-> Kernel("PQ2_0", kEmbedDequantPQ2_0, NoSums, StoredByEight),
     kEmbedDequantSmall32_Q8_0 |-> Kernel("Q8_0", kEmbedDequantSmall32_Q8_0, NoSums, Stored(32)),
     kEmbedDequantSmall32_IQ4NL |-> Kernel("IQ4_NL", kEmbedDequantSmall32_IQ4NL, NoSums, Stored(32)),
     kEmbedDequantSmall32_Q5_0 |-> Kernel("Q5_0", kEmbedDequantSmall32_Q5_0, NoSums, Stored(32))]

\* GGMLDequantize.hpp: a thread per row, a block at a time.
CpuKernels ==
    [dotProductQ3_K |-> Kernel("Q3_K", dotProductQ3_K, NoSums, RowPerLane),
     dotProductQ4_K |-> Kernel("Q4_K", dotProductQ4_K, NoSums, RowPerLane),
     dotProductQ5_K |-> Kernel("Q5_K", dotProductQ5_K, NoSums, RowPerLane),
     dotProductQ6_K |-> Kernel("Q6_K", dotProductQ6_K, NoSums, RowPerLane),
     dotProductQ8_0 |-> Kernel("Q8_0", dotProductQ8_0, NoSums, RowPerLane),
     dotProductQ8_1 |-> Kernel("Q8_1", dotProductQ8_1, NoSums, RowPerLane),
     dotProductQ8_K |-> Kernel("Q8_K", dotProductQ8_K, NoSums, RowPerLane),
     dotProductQ5_0 |-> Kernel("Q5_0", dotProductQ5_0, NoSums, RowPerLane),
     dotProductQ5_1 |-> Kernel("Q5_1", dotProductQ5_1, NoSums, RowPerLane),
     dotProductIQ4_NL |-> Kernel("IQ4_NL", dotProductIQ4_NL, NoSums, RowPerLane),
     dotProductIQ4_XS |-> Kernel("IQ4_XS", dotProductIQ4_XS, NoSums, RowPerLane),
     dotProductIQ2_XS |-> Kernel("IQ2_XS", dotProductIQ2_XS, NoSums, RowPerLane),
     dotProductIQ2_XXS |-> Kernel("IQ2_XXS", dotProductIQ2_XXS, NoSums, RowPerLane),
     dotProductIQ3_S |-> Kernel("IQ3_S", dotProductIQ3_S, NoSums, RowPerLane),
     dotProductPQ2_0 |-> Kernel("PQ2_0", dotProductPQ2_0, NoSums, RowPerLane),
     dotProductIQ2_S_Q8K |-> Kernel("IQ2_S", dotProductIQ2_S_Q8K, NoSums, RowPerLane),
     dotProductIQ3_XXS_Q8K |-> Kernel("IQ3_XXS", dotProductIQ3_XXS_Q8K, NoSums, RowPerLane),
     dotProductIQ3_S_Q8K |-> Kernel("IQ3_S", dotProductIQ3_S_Q8K, NoSums, RowPerLane),
     dequantizeIQ2_S |-> Kernel("IQ2_S", dequantizeIQ2_S, NoSums, Stored(1)),
     dequantizeIQ2_XS |-> Kernel("IQ2_XS", dequantizeIQ2_XS, NoSums, Stored(1)),
     dequantizeIQ3_S |-> Kernel("IQ3_S", dequantizeIQ3_S, NoSums, Stored(1)),
     dequantizeIQ4_NL |-> Kernel("IQ4_NL", dequantizeIQ4_NL, NoSums, Stored(1)),
     dequantizeIQ4_XS |-> Kernel("IQ4_XS", dequantizeIQ4_XS, NoSums, Stored(1)),
     dequantizeIQ3_XXS |-> Kernel("IQ3_XXS", dequantizeIQ3_XXS, NoSums, Stored(1))]

\* SIMDMatMulVec.cpp and its AVX2 and AVX-512 files.
Q2KHostKernels ==
    [dotProductQ2_K_AVX2 |-> Kernel("Q2_K", dotProductQ2_K_AVX2, NoSums, RowPerLane),
     dotProductQ2_K_Scalar |-> Kernel("Q2_K", dotProductQ2_K_Scalar, NoSums, RowPerLane),
     dequantizeQ2_K_PrePackedBlock |->
       Kernel("Q2_K", dequantizeQ2_K_PrePackedBlock, NoSums, RowPerLane),
     dotProductQ2_K_AVX2_PrePacked |->
       Kernel("Q2_K", dotProductQ2_K_AVX2_PrePacked, NoSums, RowPerLane),
     dotProductQ2_K_PrePacked_Scalar |->
       Kernel("Q2_K", dotProductQ2_K_PrePacked_Scalar, NoSums, RowPerLane),
     dotProductQ2_K_PrePacked_Q8_AVX2 |->
       Kernel("Q2_K", dotProductQ2_K_PrePacked_Q8_AVX2, Q2KMins, RowPerLane),
     dotProductQ2_K_PrePacked_Q8_AVX512 |->
       Kernel("Q2_K", dotProductQ2_K_PrePacked_Q8_AVX512, PrePacked_Q8_AVX512_minsSum, RowPerLane),
     dotProductQ2_K_PrePacked_Q8_Scalar |->
       Kernel("Q2_K", dotProductQ2_K_PrePacked_Q8_Scalar, PrePacked_Q8_Scalar_bsums, RowPerLane),
     matMulVecBatchQ2_K_PrePacked_Q8_AVX2 |->
       Kernel("Q2_K", matMulVecBatchQ2_K_PrePacked_Q8_AVX2, Q2KMins, RowTile(8)),
     matMulVecBatchQ2_K_PrePacked_Q8_Batch_AVX2 |->
       Kernel("Q2_K", matMulVecBatchQ2_K_PrePacked_Q8_Batch_AVX2, Q2KMins, RowTile(8)),
     matMulVecBatchGateUpQ2_K_PrePacked_Q8_AVX2 |->
       Kernel("Q2_K", matMulVecBatchGateUpQ2_K_PrePacked_Q8_AVX2, Q2KMins, RowTile(8)),
     matMulVecBatchGateUpQ2_K_PrePacked_Q8_Batch_AVX2 |->
       Kernel("Q2_K", matMulVecBatchGateUpQ2_K_PrePacked_Q8_Batch_AVX2, Q2KMins, RowTile(8)),
     matMulVecFusedGateUpQ2_K_Compact_Q8_AVX2 |->
       Kernel("Q2_K", matMulVecFusedGateUpQ2_K_Compact_Q8_AVX2, Q2KMins, RowTile(8)),
     matMulVecFusedQKQ2_K_Compact_Q8_AVX2 |->
       Kernel("Q2_K", matMulVecFusedQKQ2_K_Compact_Q8_AVX2, Q2KMins, RowTile(8)),
     matMulVecBatchQ2K_Compact_Q8K_AVX2 |->
       Kernel("Q2_K", matMulVecBatchQ2K_Compact_Q8K_AVX2, Q2KMins, RowTile(8)),
     fusedGateUp_Q2K |-> Kernel("Q2_K", fusedGateUp_Q2K, Q2KMins, RowTile(16)),
     fusedDown_Q2K |-> Kernel("Q2_K", fusedDown_Q2K, Q2KMins, RowTile(16)),
     fusedGateUpQ2_K_Scalar |-> Kernel("Q2_K", fusedGateUpQ2_K_Scalar, NoSums, RowPerLane),
     fusedQKQ2_K_Scalar |-> Kernel("Q2_K", fusedQKQ2_K_Scalar, NoSums, RowPerLane)]

HostKernels ==
    [fusedDown_Q3K |-> Kernel("Q3_K", fusedDown_Q3K, Q3KZero, RowTile(16)),
     matMulVecBatchQ3K |-> Kernel("Q3_K", matMulVecBatchQ3K_Q8K_AVX2, Q3KZero, RowTile(8)),
     matMulVecBatchQ6K |-> Kernel("Q6_K", matMulVecBatchQ6K_Q8K_AVX2, Q6KZero, RowTile(8)),
     matMulVecBatchQ4K |-> Kernel("Q4_K", matMulVecBatchQ4K_Q8K_AVX2, Mins32, RowTileOfSums),
     matMulVecBatchQ5K |-> Kernel("Q5_K", matMulVecBatchQ5K_Q8K_AVX2, Mins32, RowTileOfSums),
     matMulVecBatchIQ4XS |-> Kernel("IQ4_XS", matMulVecBatchIQ4XS_Q8K_AVX2, NoSums, RowTileOfSums),
     matMulVecBatchIQ4NL |-> Kernel("IQ4_NL", matMulVecBatchIQ4NL_Q8K_AVX2, NoSums, RowTileOfSums),
     matMulVecBatchQ8_0 |-> Kernel("Q8_0", matMulVecBatchQ8_0_Q8K_AVX2, NoSums, RowTileOfSums),
     matMulVecBatchQ8K |-> Kernel("Q8_K", matMulVecBatchQ8K_Q8K_AVX2, NoSums, RowTile(8)),
     dotProductQ8K_Q8K_AVX2 |-> Kernel("Q8_K", dotProductQ8K_Q8K_AVX2, NoSums, RowPerLane),
     dotProductQ8K_Q8K_AVX512 |-> Kernel("Q8_K", dotProductQ8K_Q8K_AVX512, NoSums, RowPerLane)]

\* No name is in two of the tables.
Tables == <<GemvKernels, Q8KKernels, StoreKernels, CpuKernels, Q2KHostKernels, HostKernels>>
Kernels ==
    [name \in UNION {DOMAIN Tables[i] : i \in DOMAIN Tables} |->
        LET i == CHOOSE j \in DOMAIN Tables : name \in DOMAIN Tables[j] IN Tables[i][name]]
-----------------------------------------------------------------------------
(* Which kernels a launch may take, over the switches of the environment,  *)
(* as the launchers choose by format, rows and blocks.                     *)
If(condition, kernels) == IF condition THEN kernels ELSE {}

\* Mutant: any number of rows from four on.
FourRowsAtLeast(rows) == rows >= 4

FourRowsFit(rows) == rows % 4 = 0

launchQGemv(f, rows, n) ==
    LET four == FourRowsFit(rows)
    IN  CASE f = "IQ2_S" -> {"kQGemvQ8K_IQ2S", "kQGemvQ8K_dp4a_IQ2S"}
                              \cup If(four, {"kQGemvQ8K_4xW_IQ2S", "kQGemvQ8K_4xW_dp4a_IQ2S"})
          [] f = "IQ2_XS" -> {"kQGemv_IQ2XS", "kQGemvQ8K_IQ2XS", "kQGemvQ8K_dp4a_IQ2XS"}
                              \cup If(four, {"kQGemvQ8K_4xW_IQ2XS", "kQGemvQ8K_4xW_dp4a_IQ2XS"})
          [] f = "IQ3_XXS" -> {"kQGemvQ8K_IQ3XXS", "kQGemvQ8K_dp4a_IQ3XXS"}
                              \cup If(four, {"kQGemvQ8K_4xW_IQ3XXS", "kQGemvQ8K_4xW_dp4a_IQ3XXS"})
          [] f = "IQ3_S" -> {"kQGemvQ8K_IQ3S", "kQGemvQ8K_dp4a_IQ3S"}
                              \cup If(four, {"kQGemvQ8K_4xW_IQ3S", "kQGemvQ8K_4xW_dp4a_IQ3S"})
          [] f = "Q5_K" -> {"kQGemvKxQ8K_Q5K"} \cup If(four, {"kQGemvQ5KxQ8K_4xW"})
          [] f = "Q4_K" -> {"kQGemvKxQ8K_Q4K"} \cup If(four, {"kQGemvQ4KxQ8K_4xW"})
          [] f = "Q6_K" -> IF four THEN {"kQGemvQ6KxQ8K_4xW"} ELSE {"kQGemvKxQ8K_Q6K"}
          [] f = "IQ4_XS" -> {"kQGemvKxQ8K_IQ4XS"}
          [] f = "Q2_K" ->
               {"kQGemv_Q2K"}
                 \cup If(rows >= 2, {"kQGemvQ2KxQ8K_Mmvq"})
                 \cup If(four, {"kQGemvQ2KxQ81_4xW", "kQGemvQ2KxQ81_SplitK", "kQGemvQ2KxQ8K_4xW",
                                "kQGemvQ2KxSplit4", "kQGemvQ2KxW4b8", "kQGemvQ2KxW4_RP",
                                "kQGemvQ2KxW4", "kQGemvQ2KxW4_words"})
                 \cup If(four /\ n = 6, {"kQGemvQ2KxQ81_Mmvq"})
                 \cup If(rows % 8 = 0, {"kQGemvQ2KxW4_N8"})
                 \cup If(rows % 16 = 0, {"kQGemvQ2KxW4_N16"})
          [] f = "Q3_K" ->
               {"kQGemvQ3KxQ81_Mmvq", "kQGemvSplitK2", "kQGemvSplitK4", "kQGemv_Q3K"}
                 \cup If(four, {"kQGemvQ3KxW4"})
          [] f = "IQ2_XXS" -> {"kQGemv_IQ2XXS"}
          [] f = "Q5_0" -> {"kQGemvSmall32_Q5_0"}
          [] f = "IQ4_NL" -> {"kQGemvSmall32_IQ4NL"}
          [] f = "PQ2_0" -> {"kQGemvPQ2_0"}
          [] f = "Q8_0" -> {"kQGemvQ8_0xQ8K"}
          [] OTHER -> {}

\* The launchers below answer {} when they leave the tensor to launchQGemv.
launchQGemvResid(f, rows) ==
    CASE f = "Q2_K" -> If(FourRowsFit(rows), {"kQGemvQ2KxW4Resid"})
      [] f = "Q3_K" -> {"kQGemvQ3KxQ81_Mmvq", "kQGemvQ3KResid"}
      [] OTHER -> {}

launchQGemvFusedGU(f, n) ==
    CASE f = "Q2_K" -> {"kQGemvQ2KIntFusedGU", "kQGemvFusedGU_Q2K"}
                         \cup If(n = 6, {"kQGemvQ2KxQ81_GLU"})
      [] f = "IQ2_XS" -> {"kQGemvFusedGU_IQ2XS", "kQGemvQ8KFusedGU_IQ2XS", "kQGemvQ8KFusedGU_dp4a_IQ2XS"}
      [] f = "IQ2_S" -> {"kQGemvQ8KFusedGU_IQ2S", "kQGemvQ8KFusedGU_dp4a_IQ2S"}
      [] f = "IQ3_XXS" -> {"kQGemvQ8KFusedGU_IQ3XXS", "kQGemvQ8KFusedGU_dp4a_IQ3XXS"}
      [] f = "IQ3_S" -> {"kQGemvQ8KFusedGU_IQ3S", "kQGemvQ8KFusedGU_dp4a_IQ3S"}
      [] OTHER -> {}

\* Q and K of Q2_K (role "qk") with V of Q4_K (role "v").
launchFusedQKV(f) ==
    CASE f = "Q2_K" -> {"kQGemvFusedQK_Q2K", "kQGemvFusedQKV_xq81"}
      [] f = "Q4_K" -> {"kQGemvFusedQKV_V"}
      [] OTHER -> {}

launchQGemm(f) ==
    CASE f = "Q4_K" -> {"kQGemmKxQ8K_Q4K", "kMmqGemmQ4K_AffineRaw"}
      [] f = "Q5_K" -> {"kQGemmKxQ8K_Q5K"}
      [] f = "Q6_K" -> {"kQGemmKxQ8K_Q6K"}
      [] f = "IQ4_XS" -> {"kQGemmKxQ8K_IQ4XS"}
      [] OTHER -> {}

\* The routed experts: gate and up, then down.
launchExperts(f) ==
    CASE f = "Q4_K" -> {"kQGemvKxQ8K_BatchGU"}
      [] f = "Q6_K" -> {"kQGemvKxQ8K_BatchDownR"}
      [] f = "Q8_0" -> {"kQGemvQ8_0xQ8K_BatchGU", "kQGemvQ8_0xQ8K_BatchDown", "kQGemvQ8_0xQ8K_BatchDownR"}
      [] OTHER -> {}

launchFfnPersistent(f) ==
    CASE f = "Q2_K" -> {"kFfnQ2KRowDot4W", "kFfnQ2KRowDot4W_Q81"}
      [] f = "Q3_K" -> {"kFfnQ3KRowDot4W"}
      [] OTHER -> {}

\* launchDequantF16 zeroes the matrix for any other format.
launchDequantF16(f) ==
    LET unpack == [Q8_0 |-> "kDequantF16_Q8_0", IQ4_NL |-> "kDequantF16_IQ4NL",
                   Q5_0 |-> "kDequantF16_Q5_0", Q2_K |-> "kDequantF16_Q2K",
                   Q3_K |-> "kDequantF16_Q3K", Q4_K |-> "kDequantF16_Q4K",
                   Q6_K |-> "kDequantF16_Q6K", IQ2_XS |-> "kDequantF16_IQ2XS",
                   IQ2_XXS |-> "kDequantF16_IQ2XXS", IQ4_XS |-> "kDequantF16_IQ4XS",
                   IQ2_S |-> "kDequantF16_IQ2S", IQ3_XXS |-> "kDequantF16_IQ3XXS",
                   IQ3_S |-> "kDequantF16_IQ3S", Q5_K |-> "kDequantF16_Q5K"]
    IN  If(f \in DOMAIN unpack, {unpack[f]})

\* The embedding of the dense forward pass, of the qwen35 pass and of the
\* qwen35 mixture-of-experts pass.
EmbedForward(f) ==
    CASE f = "Q5_0" -> {"kEmbedDequantSmall32_Q5_0"}
      [] f = "Q8_0" -> {"kEmbedDequantSmall32_Q8_0"}
      [] f = "IQ4_NL" -> {"kEmbedDequantSmall32_IQ4NL"}
      [] f = "IQ3_S" -> {"kEmbedDequantIQ3S"}
      [] f = "Q4_K" -> {"kEmbedDequantQ4K"}
      [] f = "Q5_K" -> {"kEmbedDequantQ5K"}
      [] OTHER -> {"kEmbedDequant"}

EmbedQwen35(f) ==
    CASE f \in {"Q5_K", "Q5_0"} -> {"kEmbedDequantQ5K"}
      [] f = "Q4_K" -> {"kEmbedDequantQ4K"}
      [] f = "Q8_0" -> {"kEmbedDequantSmall32_Q8_0"}
      [] f = "IQ4_NL" -> {"kEmbedDequantSmall32_IQ4NL"}
      [] f = "PQ2_0" -> {"kEmbedDequantPQ2_0"}
      [] OTHER -> {"kEmbedDequant"}

EmbedQwen35MoE(f) == IF f = "PQ2_0" THEN {"kEmbedDequant"} ELSE EmbedQwen35(f)

\* What the engine admits (supportedWeightType, supportedEmbeddingType).
supportedWeightType == Formats \ {"Q5_1", "Q8_1", "Q8_K"}
supportedEmbeddingType == {"Q2_K", "Q5_0", "Q8_0", "IQ3_S", "Q4_K", "Q5_K", "IQ4_NL", "PQ2_0"}

\* On the CPU: row by row in GGMLDequantize.hpp; else a tile of rows in the
\* host's vector kernels, which want whole blocks of 256 activations.
KernelsOf(table, f) == {k \in DOMAIN table : table[k].fmt = f}
matMulVecFused(f) == KernelsOf(CpuKernels, f) \cup KernelsOf(Q2KHostKernels, f)
matMulVecBatchSIMD(f, n) ==
    If(f = "Q8_0" \/ (n * BlockSize[f]) % 256 = 0, KernelsOf(HostKernels, f))
CpuRow(f, n) == matMulVecFused(f) \cup matMulVecBatchSIMD(f, n)

WeightKernels(f, rows, n) ==
    launchQGemv(f, rows, n) \cup launchQGemvResid(f, rows) \cup launchQGemvFusedGU(f, n)
      \cup launchFusedQKV(f) \cup launchQGemm(f) \cup launchExperts(f)
      \cup launchFfnPersistent(f) \cup launchDequantF16(f)

EmbeddingKernels(f) == EmbedForward(f) \cup EmbedQwen35(f) \cup EmbedQwen35MoE(f)

Launches ==
    {z \in [tensor : Formats, kernel : DOMAIN Kernels, n : RowBlocks, rows : RowCounts] :
        /\ \/ z.kernel \in CpuRow(z.tensor, z.n)
           \/ z.tensor \in supportedWeightType /\ z.kernel \in WeightKernels(z.tensor, z.rows, z.n)
           \/ z.tensor \in supportedEmbeddingType /\ z.kernel \in EmbeddingKernels(z.tensor)
        /\ <<z.kernel, z.tensor, z.n, z.rows>> \notin Excluded}

(* What a launch asks of its sizes, where the launchers do not look: the   *)
(* code goes wrong without these, and the findings and hazards say how.    *)

\* The third of a group's four blocks being in the row, so is the fourth.
StripesFit ==
    \A z \in Launches : Kernels[z.kernel].geo.prog[1] = FourStripes => z.n % 16 < 12

\* Every warp of a split row has a chunk of it.
ChunksFit ==
    \A z \in Launches :
        LET k == Kernels[z.kernel].geo IN k.split = "chunk" => z.n >= k.warps

\* The persistent FFN takes its rows four at a time.
FfnRowsFit ==
    \A z \in Launches :
        z.kernel \in launchFfnPersistent("Q2_K") \cup launchFfnPersistent("Q3_K") => z.rows % 4 = 0
-----------------------------------------------------------------------------
(* The machine.  A lane's running sum is the bag of the terms added to it: *)
(* <<block, c>> for what the lane at place c of its group computes of a    *)
(* block.  A word of shared memory nobody has written holds Unset.         *)
VARIABLES launch, kernel,  \* what is launched, and how it shares the row
          pos, pc, regs, shared, out
vars == <<launch, kernel, pos, pc, regs, shared, out>>

Unset == SetToBag({<<-1, 0>>})

Warps == 0..(kernel.warps - 1)
Groups(k) == 0..(k.lanes \div k.group - 1)
Slot(k, l) == IF k.split = "row" THEN l \div k.group ELSE 0
Slots(k) == {Slot(k, l) : l \in 0..(k.lanes - 1)}

FirstBlock(k, n, w, g) ==
    CASE k.split \in {"row", "tile"} -> 0
      [] k.split = "stripe" -> w * (k.lanes \div k.group) + g
      [] k.split = "chunk" -> (w * n) \div k.warps

LastBlock(k, n, w) == IF k.split = "chunk" THEN ((w + 1) * n) \div k.warps ELSE n

\* What lane l adds for every block of its group.
Partner(l, offset) == IF (l \div offset) % 2 = 0 THEN l + offset ELSE l - offset
Butterfly(sums, offset) == [l \in Lanes |-> sums[l] (+) sums[Partner(l, offset)]]
BagSum(bags, S) == FoldFunctionOnSet((+), EmptyBag, bags, S)

TermsAdded(k, loop) ==
    LET own == [l \in Lanes |-> IF l < k.lanes THEN SetToBag({l % k.group}) ELSE EmptyBag]
        exchanged == FoldLeft(Butterfly, own, loop.xors)
    IN  [l \in Lanes |->
           IF l >= k.lanes \/ l % k.group \notin loop.adders THEN EmptyBag
           ELSE IF loop.from = {} THEN exchanged[l]
           ELSE BagSum(exchanged, {k.group * (l \div k.group) + s : s \in loop.from})]

\* The blocks a group takes in a loop that it enters at block p.
Rounds(loop, p, last) == IF p + loop.room > last THEN 0 ELSE (last - p - loop.room) \div loop.step + 1
Taken(loop, p, last) ==
    {p + loop.step * i + off : i \in 0..(Rounds(loop, p, last) - 1), off \in loop.offs}

Init ==
    /\ launch \in Launches
    /\ kernel = Kernels[launch.kernel].geo
    /\ pos = [w \in Warps |-> [g \in Groups(kernel) |-> FirstBlock(kernel, launch.n, w, g)]]
    /\ pc = [w \in Warps |-> 1]
    /\ regs = [w \in Warps |-> [l \in Lanes |-> EmptyBag]]
    /\ shared = [w \in Warps |-> [l \in Lanes |-> Unset]]
    /\ out = [s \in Slots(kernel) |-> EmptyBag]

At(w, op) == pc[w] <= Len(kernel.prog) /\ kernel.prog[pc[w]].op = op
Instruction(w) == kernel.prog[pc[w]]
Advance(w) == pc' = [pc EXCEPT ![w] = @ + 1]

RunLoop(w) ==
    /\ At(w, "loop")
    /\ LET loop == Instruction(w)
           last == LastBlock(kernel, launch.n, w)
           added == TermsAdded(kernel, loop)
           blocks == [g \in Groups(kernel) |-> Taken(loop, pos[w][g], last)]
       IN  /\ regs' = [regs EXCEPT ![w] = [l \in Lanes |->
                          IF l >= kernel.lanes THEN EmptyBag
                          ELSE @[l] (+) [t \in blocks[l \div kernel.group] \X DOMAIN added[l] |->
                                           added[l][t[2]]]]]
           /\ pos' = [pos EXCEPT ![w] = [g \in Groups(kernel) |->
                          @[g] + loop.step * Rounds(loop, @[g], last)]]
    /\ Advance(w)
    /\ UNCHANGED <<launch, kernel, shared, out>>

FoldLanes(w) ==
    /\ At(w, "fold")
    /\ regs' = [regs EXCEPT ![w] = FoldLeft(Butterfly, @, Instruction(w).offs)]
    /\ Advance(w)
    /\ UNCHANGED <<launch, kernel, pos, shared, out>>

ShareSums(w) ==
    /\ At(w, "share")
    /\ shared' = [shared EXCEPT ![w] = [l \in Lanes |->
                     IF w \in Instruction(w).by /\ l \in Instruction(w).lanes THEN regs[w][l]
                     ELSE @[l]]]
    /\ Advance(w)
    /\ UNCHANGED <<launch, kernel, pos, regs, out>>

\* All warps arrive; warp 0 goes on alone.
PassBarrier ==
    /\ \A w \in Warps : At(w, "barrier")
    /\ pc' = [w \in Warps |-> IF w = 0 THEN pc[w] + 1 ELSE Len(kernel.prog) + 1]
    /\ UNCHANGED <<launch, kernel, pos, regs, shared, out>>

AddShared(w) ==
    /\ At(w, "add")
    /\ regs' = [regs EXCEPT ![w] = [l \in Lanes |-> @[l] (+) shared[1][l]]]
    /\ Advance(w)
    /\ UNCHANGED <<launch, kernel, pos, shared, out>>

\* A warp whose chunk of the row is empty leaves early, and writes 0.
NoChunk(w) == kernel.split = "chunk" /\ FirstBlock(kernel, launch.n, w, 0) = LastBlock(kernel, launch.n, w)

SumShared(w) ==
    /\ At(w, "sum")
    /\ LET partials == [wl \in Warps \X Instruction(w).lanes |-> shared[wl[1]][wl[2]]]
           total == IF NoChunk(w) THEN EmptyBag ELSE BagSum(partials, DOMAIN partials)
       IN  regs' = [regs EXCEPT ![w][0] = total]
    /\ Advance(w)
    /\ UNCHANGED <<launch, kernel, pos, shared, out>>

\* Lanes that write the same row race.
WriteRows(w) ==
    /\ At(w, "write")
    /\ \E writer \in [Slots(kernel) -> Instruction(w).lanes] :
          /\ \A s \in Slots(kernel) : Slot(kernel, writer[s]) = s
          /\ out' = [s \in Slots(kernel) |-> regs[w][writer[s]]]
    /\ Advance(w)
    /\ UNCHANGED <<launch, kernel, pos, regs, shared>>

StoreColumns(w) ==
    /\ At(w, "store")
    /\ out' = [out EXCEPT ![0] = @ (+) BagSum(regs[w], Lanes)]
    /\ Advance(w)
    /\ UNCHANGED <<launch, kernel, pos, regs, shared>>

Finished == \A w \in Warps : pc[w] > Len(kernel.prog)
Rest == Finished /\ UNCHANGED vars

Next ==
    \/ \E w \in Warps : \/ RunLoop(w) \/ FoldLanes(w) \/ ShareSums(w) \/ AddShared(w)
                        \/ SumShared(w) \/ WriteRows(w) \/ StoreColumns(w)
    \/ PassBarrier
    \/ Rest

Spec == Init /\ [][Next]_vars
-----------------------------------------------------------------------------
(* Properties.                                                             *)

Contributions == (0..(launch.n - 1)) \X (0..(kernel.group - 1))

\* Round-robin or in chunks, batched or not: a lane takes blocks of its own
\* row only, and none past its end (the block ownership that the comment of
\* kQGemvQ2KxSplit4 states).
OwnBlocks == \A w \in Warps, l \in Lanes : DOMAIN regs[w][l] \subseteq Contributions

\* Registers only ever hold terms of the row's own blocks, computed by the
\* lanes of a group: no warp reads shared memory before it has been written,
\* and no lane reads past the last block of its row.
TypeOK ==
    /\ launch \in [tensor : Formats, kernel : DOMAIN Kernels, n : RowBlocks, rows : RowCounts]
    /\ pos \in [Warps -> [Groups(kernel) -> Nat]]
    /\ pc \in [Warps -> 1..(Len(kernel.prog) + 1)]
    /\ OwnBlocks
    /\ DOMAIN out = Slots(kernel)

\* Every dot product is complete: when a launch ends, each row it wrote holds
\* the term of every block and lane exactly once, whatever the number of
\* blocks, the batching, the order of the warps and the tree of shuffles.
RowComplete ==
    Finished => \A s \in Slots(kernel) : out[s] = SetToBag(Contributions)

\* The rows a launch writes: eight warps to a thread block, of which those
\* that start past the last row leave; on the CPU the last tile is cut short.
WarpsLaunched ==
    LET per == kernel.rowsPerWarp
    IN  8 * (((IF per = 1 THEN launch.rows ELSE launch.rows \div per) + 7) \div 8)
RowsOf(w) ==
    LET start == w * kernel.rowsPerWarp
    IN  IF start >= launch.rows THEN {}
        ELSE IF kernel.split = "tile"
        THEN start..(launch.rows - 1) \cap start..(start + kernel.rowsPerWarp - 1)
        ELSE start..(start + kernel.rowsPerWarp - 1)

\* The warps of the grid write every row of the matrix and no row past its
\* end: launches of several rows per warp need a number of rows that fits.
RowsWritten ==
    LET tiles == (launch.rows + kernel.rowsPerWarp - 1) \div kernel.rowsPerWarp
        warps == IF kernel.split = "tile" THEN tiles ELSE WarpsLaunched
    IN  UNION {RowsOf(w) : w \in 0..(warps - 1)} = 0..(launch.rows - 1)

\* The offsets taken off element x through a sum of activations.
Offsets(k, x) ==
    {d \in DOMAIN k.sums : k.sums[d].lo <= x /\ x < k.sums[d].lo + k.sums[d].len}

\* The weight a kernel applies to element t.x once its offset is taken off;
\* a zero point must be taken off with the weight's own scale.
Applied(k, t) ==
    IF \E d \in Offsets(k, t.x) : k.sums[d].zero = 0 \/ k.sums[d].sc = t.w.sc
    THEN LET o == k.sums[CHOOSE d \in Offsets(k, t.x) : TRUE]
         IN  [t.w EXCEPT !.zero = @ + o.zero, !.mn = o.mn]
    ELSE t.w

\* Whatever kernel a tensor is given, on the CPU or the GPU, for a vector or
\* a batch, it multiplies element x of the activations by the weight the
\* reference dequantizer gives element x of the block, each element once.
SameWeightAsDequantizer ==
    Finished =>
      LET entry == Kernels[launch.kernel]
          terms == entry.terms
      IN  /\ {terms[d].x : d \in DOMAIN terms} = DOMAIN StoredWeight[launch.tensor]
          /\ Cardinality(DOMAIN terms) = BlockSize[launch.tensor]
          /\ \A d \in DOMAIN terms :
                /\ Cardinality(Offsets(entry, terms[d].x)) <= 1
                /\ Applied(entry, terms[d]) = StoredWeight[launch.tensor][terms[d].x]

\* The bits of a block that its weights are made of.
BitsRead(f) ==
    UNION {UNION {Range(part) : part \in {w.q, w.sgn, w.sc, w.mn}} : w \in Range(StoredWeight[f])}

=============================================================================
