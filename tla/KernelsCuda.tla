---------------------------- MODULE KernelsCuda -----------------------------
(* The matrix-vector and matrix-matrix kernels of GPUComputeInternal.hpp   *)
(* over the blocks of a row.  A kernel is a function from its coordinates  *)
(* (the lane first, then its loop indices) to the term computed there.     *)
EXTENDS QuantFormats

Lanes == 0..31

\* Lane "lane" owns byte "lane" of each half; sub = lane / 16 picks the scale.
kQGemv_Q2K ==
    [lane \in Lanes, half \in 0..1, jj \in 0..3 |->
       LET s == 8 * half + 2 * jj + lane \div 16
       IN  T(128 * half + 32 * jj + lane,
             Scalar(Bits(16 + 32 * half + lane, 2 * jj, 2), 0, Nibble(s, 0), Plain, Nibble(s, 1)))]

\* The bit of hm advances across the halves.
kQGemv_Q3K ==
    [lane \in Lanes, half \in 0..1, jj \in 0..3 |->
       T(128 * half + 32 * jj + lane,
         Scalar(Bits(32 + 32 * half + lane, 2 * jj, 2) \o Bits(lane, 4 * half + jj, 1), 4,
                auxScale(8 * half + 2 * jj + lane \div 16), Centred, <<>>))]

\* A lane owns the eight columns from e0 = 8 * lane: one group of a sub-block.
kQGemv_IQ2XS ==
    [lane \in Lanes, j \in 0..7 |->
       LET ib == lane \div 4
           l == (lane % 4)
           qval == 2 + 2 * (4 * ib + l)
       IN  T(8 * lane + j,
             Codebook(Bits(qval, 0, 9), j, Bits(qval, 9, 7), j,
                      Nibble(66 + ib, IF l >= 2 THEN 1 ELSE 0), Odd(8)))]

kQGemv_IQ2XXS ==
    [lane \in Lanes, j \in 0..7 |->
       LET ib == lane \div 4
           l == (lane % 4)
           w1 == 2 + 4 * ib + 4
       IN  T(8 * lane + j,
             Codebook(Bits(2 + 4 * ib, 8 * l, 8), j, Bits(w1, 7 * l, 7), j, Bits(w1, 28, 4), Odd(8)))]

kQGemvSplitK_Q3K ==
    [lane \in Lanes, half \in 0..1, jj \in 0..3 |->
       T(128 * half + 32 * jj + lane,
         Scalar(Bits(32 + 32 * half + lane, 2 * jj, 2) \o Bits(lane, 4 * half + jj, 1), 4,
                auxScale(8 * half + 2 * jj + lane \div 16), Centred, <<>>))]

\* Blocks of 32 columns: a lane is a column.
kQGemvSmall32_Q8_0 ==
    [lane \in Lanes, z \in {0} |-> T(lane, Scalar(Byte(2 + lane), 0, <<>>, Plain, <<>>))]

kQGemvSmall32_IQ4NL ==
    [lane \in Lanes, z \in {0} |->
       T(lane, Codebook(Nibble(2 + (lane % 16), lane \div 16), 0, <<>>, 0, <<>>, Plain))]

kQGemvSmall32_Q5_0 ==
    [lane \in Lanes, z \in {0} |->
       LET j == (lane % 16)
           hb == IF lane >= 16 THEN j + 16 ELSE j
       IN  T(lane, Scalar(Nibble(6 + j, lane \div 16) \o Bits(2, hb, 1), 16, <<>>, Plain, <<>>))]

kQGemvPQ2_0 ==
    [lane \in Lanes, j \in 0..3 |->
       T(4 * lane + j, Scalar(Bits(2 + lane, 2 * j, 2), 1, <<>>, Plain, <<>>))]

kEmbedDequantPQ2_0 ==
    [lane \in Lanes, j \in 0..3 |->
       T(4 * lane + j, Scalar(Bits(2 + lane, 2 * j, 2), 1, <<>>, Plain, <<>>))]
-----------------------------------------------------------------------------
(* Tensor-core tiles: a warp multiplies 8 tokens by 8 rows, 16 columns at  *)
(* a time; the lanes with lane \div 4 = 0 hold the weights of the tile's   *)
(* first row, four columns each.  Group gg = 0..7 of 32 columns, two tiles.*)
kMmqGemmQ4K_AffineRaw ==
    [q \in 0..3, gg \in 0..7, half \in 0..1, t \in 0..3 |->
       LET k0 == 16 * (2 * gg + half)
           i == k0 \div 32
           jb == (k0 % 32) + 4 * q + t
           s == getScaleMin(gg % 8)
       IN  T(k0 + 4 * q + t,
             Scalar(Nibble(16 + 32 * (i \div 2) + jb, (i % 2)), 0, s.sc, Plain, s.mn))]
-----------------------------------------------------------------------------
(* Q2_K and Q3_K weights times activations quantized by 32 (Q8_1).         *)

\* Eight lanes per row: lane I owns bytes 4I..4I+3 of each half.
kQGemvQ2KxQ81_4xW ==
    [I \in 0..7, n \in 0..1, j \in 0..3, k \in 0..3 |->
       LET s == 8 * n + 2 * j + I \div 4
       IN  T(32 * (4 * n + j) + 4 * I + k,
             Scalar(Bits(16 + 32 * n + 4 * I + k, 2 * j, 2), 0, Nibble(s, 0), Plain, Nibble(s, 1)))]

kQGemvQ2KxQ81_SplitK ==
    [I \in 0..7, n \in 0..1, j \in 0..3, k \in 0..3 |->
       LET s == 8 * n + 2 * j + (IF 4 * I < 16 THEN 0 ELSE 1)
       IN  T(32 * (4 * n + j) + 4 * I + k,
             Scalar(Bits(16 + 32 * n + 4 * I + k, 2 * j, 2), 0, Nibble(s, 0), Plain, Nibble(s, 1)))]

\* Sixteen lanes per block: kqs picks four bytes, i the two bits of each.
mmvqScale(kqs) == kqs - (kqs % 8) + (kqs % 8) \div 4

kQGemvQ2KxQ81_Mmvq ==
    [kqs \in 0..15, i \in 0..3, k \in 0..3 |->
       LET s == mmvqScale(kqs) + 2 * i
       IN  T(32 * (4 * (kqs \div 8) + i) + 4 * (kqs % 8) + k,
             Scalar(Bits(16 + 4 * kqs + k, 2 * i, 2), 0, Nibble(s, 0), Plain, Nibble(s, 1)))]

kQGemvQ2KxQ81_GLU ==                  \* the same block twice: gate and up
    [kqs \in 0..15, i \in 0..3, k \in 0..3 |->
       LET s == mmvqScale(kqs) + 2 * i
       IN  T(32 * (4 * (kqs \div 8) + i) + 4 * (kqs % 8) + k,
             Scalar(Bits(16 + 4 * kqs + k, 2 * i, 2), 0, Nibble(s, 0), Plain, Nibble(s, 1)))]

\* vh = ~hmask >> bq8_offset: a clear bit subtracts 4.
kQGemvQ3KxQ81_Mmvq ==
    [kqs \in 0..15, i \in 0..3, k \in 0..3 |->
       LET offset == 4 * (kqs \div 8)
           isc == mmvqScale(kqs) + 2 * i
       IN  T(32 * (offset + i) + 4 * (kqs % 8) + k,
             Scalar(Bits(32 + 4 * kqs + k, 2 * i, 2) \o Bits(4 * (kqs % 8) + k, offset + i, 1), 4,
                    Nibble(96 + (isc % 8), isc \div 8) \o Bits(96 + 8 + (isc % 4), 2 * (isc \div 4), 2),
                    Centred, <<>>))]
-----------------------------------------------------------------------------
(* K-quants and IQ4_XS times Q8_K activations, exact integers per block.   *)

\* Lane i takes sub-block i; its minimum multiplies bsums[2i] + bsums[2i+1].
kxQ8KBlockDot_Q4K ==
    [i \in 0..7, j \in 0..31 |->
       LET s == getScaleMin(i)
       IN  T(32 * i + j, Scalar(Nibble(16 + 32 * (i \div 2) + j, (i % 2)), 0, s.sc, Plain, s.mn))]

kxQ8KBlockDot_Q5K ==
    [i \in 0..7, j \in 0..31 |->
       LET s == getScaleMin(i)
           c == i \div 2
       IN  T(32 * i + j,
             Scalar(Nibble(48 + 32 * c + j, (i % 2)) \o Bits(16 + j, 2 * c + (i % 2), 1),
                    0, s.sc, Plain, s.mn))]

kxQ8KBlockDot_IQ4XS ==
    [i \in 0..7, j \in 0..31 |->
       T(32 * i + j,
         Codebook(IF j < 16 THEN Nibble(8 + 16 * i + j, 0) ELSE Nibble(8 + 16 * i + j - 16, 1),
                  0, <<>>, 0, Nibble(4 + i \div 2, (i % 2)) \o Bits(2, 2 * i, 2), Centred))]

\* Lane I takes bytes 4I..4I+3 of every 32; the zero point 32 is subtracted
\* apart, lane I for the sums of groups 2I and 2I + 1.
kxQ8KBlockDot_Q6K ==
    [I \in 0..7, c \in 0..1, s \in 0..3, k \in 0..3 |->
       LET idx == 4 * c + s
       IN  T(32 * idx + 4 * I + k,
             Scalar(Nibble(32 * (s % 2) + 64 * c + 4 * I + k, s \div 2)
                      \o Bits(128 + 32 * c + 4 * I + k, 2 * s, 2),
                    0, Byte(192 + (IF I < 4 THEN 2 * idx ELSE 2 * idx + 1)), Plain, <<>>))]

kxQ8KBlockDot_Q6K_bprod ==
    [I \in 0..7, h \in 0..1 |-> Offset(16 * (2 * I + h), 16, 32, Byte(192 + 2 * I + h), <<>>)]

\* Four columns at a time: a word of four nibbles, a bit of each byte of qh.
kxQ5KBlockDotVec ==
    [Iid \in 0..7, j \in 0..7, k \in 0..3 |->
       LET s == getScaleMin(Iid)
           c == Iid \div 2
           u == 2 * c + (Iid % 2)
       IN  T(32 * Iid + 4 * j + k,
             Scalar(Nibble(48 + 32 * c + 4 * j + k, (Iid % 2)) \o Bits(16 + 4 * j + k, u, 1),
                    0, s.sc, Plain, s.mn))]

kxQ4KBlockDotVec ==
    [Iid \in 0..7, j \in 0..7, k \in 0..3 |->
       LET s == getScaleMin(Iid)
       IN  T(32 * Iid + 4 * j + k,
             Scalar(Nibble(16 + 32 * (Iid \div 2) + 4 * j + k, (Iid % 2)), 0, s.sc, Plain, s.mn))]

\* One column per lane, over activations quantized by 32.
kQGemvQ8_0xQ8K ==
    [lane \in Lanes, z \in {0} |-> T(lane, Scalar(Byte(2 + lane), 0, <<>>, Plain, <<>>))]
=============================================================================
