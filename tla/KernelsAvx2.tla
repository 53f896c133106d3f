---------------------------- MODULE KernelsAvx2 -----------------------------
(* The vector kernels of the CPU (SIMDMatMulVecAVX2.cpp and ...AVX512.cpp) *)
(* and the scalar ones they fall back on (SIMDMatMulVec.cpp).  A kernel    *)
(* that keeps a vector of eight partial sums has its lane as the first     *)
(* coordinate: maddubs and madd add four neighbouring bytes into a lane.   *)
EXTENDS KernelsDecode

Lanes8 == 0..7

\* 16-bit pair whose scale byte b of sub-block sub is multiplied by.
k_shuffle(sub, b) == 2 * sub + b \div 16

\* The 16 group sums of the activations, two to a lane.
BsumOffsets(Group16(_)) ==
    [lane \in Lanes8, i \in 0..1 |-> Group16(2 * lane + i)]
MinOf(g) == Offset(16 * g, 16, 0, Nibble(g, 0), Nibble(g, 1))
-----------------------------------------------------------------------------
(* Q2_K, repacked at load time: every code in a byte of its own, in the    *)
(* order of the elements.  Byte t holds the bits prepackQ2_K[t].           *)
prepackQ2_K ==
    [t \in 0..275 |->
       IF t < 16 THEN Byte(t)
       ELSE IF t < 20 THEN Byte(80 + t - 16)
       ELSE LET base == (t - 20) \div 32
            IN  Bits(16 + 32 * (base \div 4) + ((t - 20) % 32), 2 * (base % 4), 2)]

Scale(t) == SubSeq(prepackQ2_K[t], 1, 4)
Minimum(t) == SubSeq(prepackQ2_K[t], 5, 8)

\* Element x, its code read from expanded byte "code".
PrepackedTerm(x, code, s) ==
    T(x, Scalar(prepackQ2_K[20 + code], 0, Scale(s), Plain, Minimum(s)))

dequantizeQ2_K_PrePackedBlock ==
    [i \in 0..255, z \in {0} |-> PrepackedTerm(i, i, i \div 16)]

dotProductQ2_K_AVX2_PrePacked ==
    [n \in 0..1, j \in 0..3, h \in 0..1, l \in 0..15 |->
       LET x == 128 * n + 32 * j + 16 * h + l
       IN  PrepackedTerm(x, x, 8 * n + 2 * j + h)]

\* qs_expanded stays where it is: all sub-blocks use the codes of the first.
dotProductQ2_K_PrePacked_Scalar ==
    [n \in 0..1, j \in 0..3, h \in 0..1, l \in 0..15 |->
       PrepackedTerm(128 * n + 32 * j + 16 * h + l, 16 * h + l, 8 * n + 2 * j + h)]

\* Over Q8_K activations, with the minima through the group sums.
PrepackedPlane(chunk, sub, b) ==
    NoMin(PrepackedTerm(128 * chunk + 32 * sub + b, 128 * chunk + 32 * sub + b,
                        8 * chunk + k_shuffle(sub, b)))

dotProductQ2_K_PrePacked_Q8_AVX2 ==
    [lane \in Lanes8, chunk \in 0..1, sub \in 0..3, k \in 0..3 |->
       PrepackedPlane(chunk, sub, 4 * lane + k)]

\* qs_expanded advances with n, not with j.
dotProductQ2_K_PrePacked_Q8_Scalar ==
    [n \in 0..1, j \in 0..3, h \in 0..1, l \in 0..15 |->
       NoMin(PrepackedTerm(128 * n + 32 * j + 16 * h + l, 128 * n + 16 * h + l,
                           8 * n + 2 * j + h))]

PrePacked_Q8_Scalar_bsums == [g \in 0..15, z \in {0} |-> MinOf(g)]

\* 64 codes a step; scales_v has four scales, 16 bytes each.
dotProductQ2_K_PrePacked_Q8_AVX512 ==
    [lane \in 0..15, chunk \in 0..1, sub \in 0..1, k \in 0..3 |->
       LET x == 128 * chunk + 64 * sub + 4 * lane + k
       IN  NoMin(PrepackedTerm(x, x, 8 * chunk + 4 * sub + lane \div 4))]

\* The sum over the groups is broadcast to the 16 lanes before the reduction.
PrePacked_Q8_AVX512_minsSum == [lane \in 0..15, g \in 0..15 |-> MinOf(g)]

matMulVecBatchQ2_K_PrePacked_Q8_AVX2 ==
    [lane \in Lanes8, chunk \in 0..1, sub \in 0..3, k \in 0..3 |->
       PrepackedPlane(chunk, sub, 4 * lane + k)]

matMulVecBatchGateUpQ2_K_PrePacked_Q8_AVX2 ==
    [lane \in Lanes8, chunk \in 0..1, sub \in 0..3, k \in 0..3 |->
       PrepackedPlane(chunk, sub, 4 * lane + k)]

matMulVecBatchGateUpQ2_K_PrePacked_Q8_Batch_AVX2 ==
    [lane \in Lanes8, chunk \in 0..1, sub \in 0..3, k \in 0..3 |->
       PrepackedPlane(chunk, sub, 4 * lane + k)]

matMulVecBatchQ2_K_PrePacked_Q8_Batch_AVX2 ==
    [lane \in Lanes8, chunk \in 0..1, sub \in 0..3, k \in 0..3 |->
       PrepackedPlane(chunk, sub, 4 * lane + k)]

Q2KMins == BsumOffsets(MinOf)
-----------------------------------------------------------------------------
(* Q2_K as stored.                                                         *)
dotProductQ2_K_AVX2 ==
    [n \in 0..1, j \in 0..3, h \in 0..1, l \in 0..15 |->
       Q2KTerm(n, j, 16 * h + l, 8 * n + 2 * j + h)]

dotProductQ2_K_Scalar ==
    [n \in 0..1, j \in 0..3, h \in 0..1, l \in 0..15 |->
       Q2KTerm(n, j, l + 16 * h, 8 * n + 2 * j + h)]

\* Plane 4h + p of 32 codes: bits 2p of the bytes of half h.
CompactPlane(h, p, b) == NoMin(Q2KTerm(h, p, b, 8 * h + k_shuffle(p, b)))

matMulVecFusedGateUpQ2_K_Compact_Q8_AVX2 ==
    [lane \in Lanes8, h \in 0..1, p \in 0..3, k \in 0..3 |-> CompactPlane(h, p, 4 * lane + k)]

matMulVecFusedQKQ2_K_Compact_Q8_AVX2 ==
    [lane \in Lanes8, h \in 0..1, p \in 0..3, k \in 0..3 |-> CompactPlane(h, p, 4 * lane + k)]

matMulVecBatchQ2K_Compact_Q8K_AVX2 ==
    [lane \in Lanes8, h \in 0..1, p \in 0..3, k \in 0..3 |-> CompactPlane(h, p, 4 * lane + k)]

\* The fused feed-forward: gate and up, then down.
fusedGateUp_Q2K ==
    [lane \in Lanes8, h \in 0..1, p \in 0..3, k \in 0..3 |-> CompactPlane(h, p, 4 * lane + k)]

fusedDown_Q2K ==
    [lane \in Lanes8, h \in 0..1, p \in 0..3, k \in 0..3 |-> CompactPlane(h, p, 4 * lane + k)]

\* The scalar loops taken where the AVX2 kernels are not: epos counts elements.
fusedGateUpQ2_K_Scalar ==
    [n \in 0..1, j2 \in 0..3, h \in 0..1, l \in 0..15 |->
       Q2KTerm(n, j2, l + 16 * h, 8 * n + 2 * j2 + h)]

fusedQKQ2_K_Scalar ==
    [n \in 0..1, j2 \in 0..3, h \in 0..1, l \in 0..15 |->
       Q2KTerm(n, j2, l + 16 * h, 8 * n + 2 * j2 + h)]
-----------------------------------------------------------------------------
(* Q3_K and Q6_K: unsigned codes; the zero point goes through the sums.    *)
Q3KPlane(s, b) ==
    T(32 * s + b,
      Scalar(Bits(32 + 32 * (s \div 4) + b, 2 * (s % 4), 2) \o Bits(b, s, 1), 0,
             auxScale(8 * (s \div 4) + k_shuffle((s % 4), b)), Centred, <<>>))

ZeroOf3(g) == Offset(16 * g, 16, 4, auxScale(g), <<>>)
Q3KZero == BsumOffsets(ZeroOf3)

matMulVecBatchQ3K_Q8K_AVX2 ==
    [lane \in Lanes8, s \in 0..7, k \in 0..3 |-> Q3KPlane(s, 4 * lane + k)]

fusedDown_Q3K ==
    [lane \in Lanes8, s \in 0..7, k \in 0..3 |-> Q3KPlane(s, 4 * lane + k)]

matMulVecBatchQ6K_Q8K_AVX2 ==
    [lane \in Lanes8, s \in 0..7, k \in 0..3 |->
       LET b == 4 * lane + k
       IN  T(32 * s + b,
             Scalar(Nibble(32 * (s % 2) + 64 * (s \div 4) + b, (s \div 2) % 2)
                      \o Bits(128 + 32 * (s \div 4) + b, 2 * (s % 4), 2), 0,
                    Byte(192 + 8 * (s \div 4) + k_shuffle((s % 4), b)), Plain, <<>>))]

ZeroOf6(g) == Offset(16 * g, 16, 32, Byte(192 + g), <<>>)
Q6KZero == BsumOffsets(ZeroOf6)
-----------------------------------------------------------------------------
(* Formats whose sub-blocks of 32 are summed one by one.                   *)
MinOf32(i) == Offset(32 * i, 32, 0, getScaleMin(i).sc, getScaleMin(i).mn)
Mins32 == [i \in 0..7, z \in {0} |-> MinOf32(i)]   \* bsums[2i] + bsums[2i + 1]

matMulVecBatchQ4K_Q8K_AVX2 ==
    [i \in 0..7, b \in 0..31 |->
       T(32 * i + b,
         Scalar(Nibble(16 + 32 * (i \div 2) + b, (i % 2)), 0, getScaleMin(i).sc, Plain, <<>>))]

matMulVecBatchQ5K_Q8K_AVX2 ==
    [i \in 0..7, b \in 0..31 |->
       T(32 * i + b,
         Scalar(Nibble(48 + 32 * (i \div 2) + b, (i % 2))
                  \o Bits(16 + b, 2 * (i \div 2) + (i % 2), 1),
                0, getScaleMin(i).sc, Plain, <<>>))]

\* absIdx and sgnIdx: the table's value, its sign moved to the activation.
matMulVecBatchIQ4XS_Q8K_AVX2 ==
    [i \in 0..7, h \in 0..1, k \in 0..15 |->
       T(32 * i + 16 * h + k,
         Codebook(Nibble(8 + 16 * i + k, h), 0, <<>>, 0,
                  Nibble(4 + i \div 2, (i % 2)) \o Bits(2, 2 * i, 2), Centred))]

matMulVecBatchIQ4NL_Q8K_AVX2 ==
    [h \in 0..1, k \in 0..15 |->
       T(16 * h + k, Codebook(Nibble(2 + k, h), 0, <<>>, 0, <<>>, Plain))]

matMulVecBatchQ8_0_Q8K_AVX2 ==
    [b \in 0..31, z \in {0} |-> T(b, Scalar(Byte(2 + b), 0, <<>>, Plain, <<>>))]

matMulVecBatchQ8K_Q8K_AVX2 ==
    [i \in 0..7, b \in 0..31 |-> T(32 * i + b, Scalar(Byte(4 + 32 * i + b), 0, <<>>, Plain, <<>>))]

dotProductQ8K_Q8K_AVX2 ==
    [i \in 0..7, b \in 0..31 |-> T(32 * i + b, Scalar(Byte(4 + 32 * i + b), 0, <<>>, Plain, <<>>))]

dotProductQ8K_Q8K_AVX512 ==
    [i \in 0..3, b \in 0..63 |-> T(64 * i + b, Scalar(Byte(4 + 64 * i + b), 0, <<>>, Plain, <<>>))]
=============================================================================
