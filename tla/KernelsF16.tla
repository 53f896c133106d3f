----------------------------- MODULE KernelsF16 -----------------------------
(* The kernels of GPUComputeInternal.hpp that write weights out: fp16      *)
(* matrices for the prefill GEMM (kDequantF16) and token embeddings.  Lane *)
(* "lane" owns the eight columns from e0 = 8 * lane; formats of 32 columns *)
(* use four lanes.                                                         *)
EXTENDS KernelsCuda

E0(lane) == 8 * lane
Ib(lane) == E0(lane) \div 32          \* sub-block of 32
L(lane) == (E0(lane) \div 8) % 4      \* group of 8 within it

kDequantF16_Q8_0 ==
    [lane \in 0..3, k \in 0..7 |->
       T(E0(lane) + k, Scalar(Byte(2 + E0(lane) + k), 0, <<>>, Plain, <<>>))]

kDequantF16_IQ4NL ==
    [lane \in 0..3, k \in 0..7 |->
       LET col == E0(lane) + k
       IN  T(col, Codebook(Nibble(2 + (col % 16), Half(col, 16)), 0, <<>>, 0, <<>>, Plain))]

kDequantF16_Q5_0 ==
    [lane \in 0..3, k \in 0..7 |->
       LET col == E0(lane) + k
           j == (col % 16)
           hb == IF Half(col, 16) = 1 THEN j + 16 ELSE j
       IN  T(col, Scalar(Nibble(6 + j, Half(col, 16)) \o Bits(2, hb, 1), 16, <<>>, Plain, <<>>))]

\* Only the low four bits of the byte's index advance with k.
kDequantF16_Q2K ==
    [lane \in Lanes, k \in 0..7 |->
       LET e0 == E0(lane)
           half == e0 \div 128
           jj == (e0 % 128) \div 32
           sub == (e0 % 32) \div 16
           s == 8 * half + 2 * jj + sub
       IN  T(e0 + k,
             Scalar(Bits(16 + 32 * half + 16 * sub + ((e0 + k) % 16), 2 * jj, 2), 0,
                    Nibble(s, 0), Plain, Nibble(s, 1)))]

\* Mutant: the mask bit starts again in the second half.
kDequantF16_Q3KSameMask ==
    [lane \in Lanes, k \in 0..7 |->
       LET e0 == E0(lane)
           half == e0 \div 128
           jj == (e0 % 128) \div 32
           sub == (e0 % 32) \div 16
           lk == ((e0 + k) % 16)
       IN  T(e0 + k,
             Scalar(Bits(32 + 32 * half + 16 * sub + lk, 2 * jj, 2)
                      \o Bits(16 * sub + lk, jj, 1), 4,
                    auxScale(8 * half + 2 * jj + sub), Centred, <<>>))]

\* hm does not advance with half: the mask bit does.
kDequantF16_Q3K ==
    [lane \in Lanes, k \in 0..7 |->
       LET e0 == E0(lane)
           half == e0 \div 128
           jj == (e0 % 128) \div 32
           sub == (e0 % 32) \div 16
           lk == ((e0 + k) % 16)
       IN  T(e0 + k,
             Scalar(Bits(32 + 32 * half + 16 * sub + lk, 2 * jj, 2)
                      \o Bits(16 * sub + lk, 4 * half + jj, 1), 4,
                    auxScale(8 * half + 2 * jj + sub), Centred, <<>>))]

kDequantF16_Q4K ==
    [lane \in Lanes, k \in 0..7 |->
       LET g == E0(lane) \div 64
           sub == (E0(lane) \div 32) % 2
           s == getScaleMin(2 * g + sub)
       IN  T(E0(lane) + k,
             Scalar(Nibble(16 + 32 * g + (E0(lane) % 32) + k, sub), 0, s.sc, Plain, s.mn))]

kDequantF16_Q6K ==
    [lane \in Lanes, k \in 0..7 |->
       LET half == E0(lane) \div 128
           sub == (E0(lane) % 128) \div 32
           l == (E0(lane) % 32)
           qlBase == 64 * half + (IF sub % 2 = 1 THEN 32 ELSE 0)
       IN  T(E0(lane) + k,
             Scalar(Nibble(qlBase + l + k, sub \div 2) \o Bits(128 + 32 * half + l + k, 2 * sub, 2),
                    32, Byte(192 + 8 * half + 2 * sub + l \div 16), Plain, <<>>))]

kDequantF16_IQ2XS ==
    [lane \in Lanes, j \in 0..7 |->
       LET qval == 2 + 2 * (4 * Ib(lane) + L(lane))
       IN  T(E0(lane) + j,
             Codebook(Bits(qval, 0, 9), j, Bits(qval, 9, 7), j,
                      Nibble(66 + Ib(lane), IF L(lane) >= 2 THEN 1 ELSE 0), Odd(8)))]

kDequantF16_IQ2XXS ==
    [lane \in Lanes, j \in 0..7 |->
       LET w0 == 2 + 4 * Ib(lane)
           w1 == 2 + 4 * Ib(lane) + 4
       IN  T(E0(lane) + j,
             Codebook(Bits(w0, 8 * L(lane), 8), j, Bits(w1, 7 * L(lane), 7), j,
                      Bits(w1, 28, 4), Odd(8)))]

\* qb = qs + ib * 16 + l * 4, then the byte of the column within the
\* sub-block, modulo 16, is added to it.
kDequantF16_IQ4XS ==
    [lane \in Lanes, j \in 0..7 |->
       LET ib == Ib(lane)
           qb == 8 + 16 * ib + 4 * L(lane)
           jc == 8 * L(lane) + j
       IN  T(E0(lane) + j,
             Codebook(Nibble(qb + (jc % 16), IF jc < 16 THEN 0 ELSE 1), 0, <<>>, 0,
                      Nibble(4 + ib \div 2, ib % 2) \o Bits(2, 2 * ib, 2), Centred))]

kDequantF16_IQ2S ==
    [lane \in Lanes, j \in 0..7 |->
       LET k == 4 * Ib(lane) + L(lane)
       IN  T(E0(lane) + j,
             Codebook(Byte(2 + k) \o Bits(66 + Ib(lane), 2 * L(lane), 2), j,
                      Byte(2 + 32 + k), j,
                      Nibble(74 + Ib(lane), IF L(lane) >= 2 THEN 1 ELSE 0), Odd(8)))]

kDequantF16_IQ3XXS ==
    [lane \in Lanes, j \in 0..7 |->
       LET aux32 == 2 + 64 + 4 * Ib(lane)
           g == IF j < 4 THEN 0 ELSE 1
       IN  T(E0(lane) + j,
             Codebook(Byte(2 + 8 * Ib(lane) + 2 * L(lane) + g), j - 4 * g,
                      Bits(aux32, 7 * L(lane), 7), j, Bits(aux32, 28, 4), Odd(4)))]

\* pair and half of the sub-block; bit 2l of qh for g1, 2l + 1 for g2.
kDequantF16_IQ3S ==
    [lane \in Lanes, j \in 0..7 |->
       LET half == (Ib(lane) % 2)
           pair == Ib(lane) \div 2
           g == IF j < 4 THEN 0 ELSE 1
       IN  T(E0(lane) + j,
             Codebook(Byte(2 + 16 * pair + 8 * half + 2 * L(lane) + g)
                        \o Bits(66 + 2 * pair + half, 2 * L(lane) + g, 1), j - 4 * g,
                      Byte(74 + 8 * pair + 4 * half + L(lane)), j,
                      Nibble(106 + pair, half), Odd(1)))]

kDequantF16_Q5K ==
    [lane \in Lanes, kk \in 0..7 |->
       LET g == E0(lane) \div 64
           sub == (E0(lane) \div 32) % 2
           byte == (E0(lane) % 32) + kk
           s == getScaleMin(2 * g + sub)
       IN  T(E0(lane) + kk,
             Scalar(Nibble(48 + 32 * g + byte, sub) \o Bits(16 + byte, 2 * g + sub, 1),
                    0, s.sc, Plain, s.mn))]
-----------------------------------------------------------------------------
kEmbedDequant ==                      \* Q2_K
    [lane \in Lanes, k \in 0..7 |->
       LET e0 == E0(lane)
           half == e0 \div 128
           jj == (e0 % 128) \div 32
           sub == (e0 % 32) \div 16
           is == 8 * half + 2 * jj + sub
           qbase == 32 * half + 16 * sub + (e0 % 16)
       IN  T(e0 + k,
             Scalar(Bits(16 + qbase + k, 2 * jj, 2), 0, Nibble(is, 0), Plain, Nibble(is, 1)))]

kEmbedDequantIQ3S ==
    [lane \in Lanes, j \in 0..7 |->
       LET half == (Ib(lane) % 2)
           pair == Ib(lane) \div 2
           g == IF j < 4 THEN 0 ELSE 1
       IN  T(E0(lane) + j,
             Codebook(Byte(2 + 16 * pair + 8 * half + 2 * L(lane) + g)
                        \o Bits(66 + 2 * pair + half, 2 * L(lane) + g, 1), j - 4 * g,
                      Byte(74 + 8 * pair + 4 * half + L(lane)), j,
                      Nibble(106 + pair, half), Odd(1)))]

kEmbedDequantQ5K ==
    [lane \in Lanes, kk \in 0..7 |->
       LET g == E0(lane) \div 64
           sub == (E0(lane) \div 32) % 2
           byte == (E0(lane) % 32) + kk
           s == getScaleMin(2 * g + sub)
       IN  T(E0(lane) + kk,
             Scalar(Nibble(48 + 32 * g + byte, sub) \o Bits(16 + byte, 2 * g + sub, 1),
                    0, s.sc, Plain, s.mn))]

kEmbedDequantQ4K ==
    [lane \in Lanes, k \in 0..7 |->
       LET g == E0(lane) \div 64
           sub == (E0(lane) \div 32) % 2
           s == getScaleMin(2 * g + sub)
       IN  T(E0(lane) + k,
             Scalar(Nibble(16 + 32 * g + (E0(lane) % 32) + k, sub), 0, s.sc, Plain, s.mn))]

\* A lane is a column.
kEmbedDequantSmall32_Q8_0 ==
    [lane \in Lanes, z \in {0} |-> T(lane, Scalar(Byte(2 + lane), 0, <<>>, Plain, <<>>))]

kEmbedDequantSmall32_IQ4NL ==
    [lane \in Lanes, z \in {0} |->
       T(lane, Codebook(Nibble(2 + (lane % 16), lane \div 16), 0, <<>>, 0, <<>>, Plain))]

kEmbedDequantSmall32_Q5_0 ==
    [lane \in Lanes, z \in {0} |->
       LET j == (lane % 16)
           hb == IF lane >= 16 THEN j + 16 ELSE j
       IN  T(lane, Scalar(Nibble(6 + j, lane \div 16) \o Bits(2, hb, 1), 16, <<>>, Plain, <<>>))]
=============================================================================
