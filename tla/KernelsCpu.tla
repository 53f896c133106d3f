----------------------------- MODULE KernelsCpu -----------------------------
(* The block dot products and tensor dequantizers of GGMLDequantize.hpp.   *)
(* A kernel is a function from its loop indices (outermost first) to the   *)
(* term computed there.                                                    *)
EXTENDS QuantFormats

dotProductQ3_K ==
    [n \in 0..1, j \in 0..3, h \in 0..1, l \in 0..15 |->
       T(128 * n + 32 * j + 16 * h + l,
         Scalar(Bits(32 + 32 * n + 16 * h + l, 2 * j, 2) \o Bits(16 * h + l, 4 * n + j, 1),
                4, auxScale(8 * n + 2 * j + h), Centred, <<>>))]

\* qs advances by 32 bytes and is by 2 for each 64 weights.
dotProductQ4_K ==
    [c \in 0..3, h \in 0..1, l \in 0..31 |->
       LET s == getScaleMin(2 * c + h)
       IN  T(64 * c + 32 * h + l, Scalar(Nibble(16 + 32 * c + l, h), 0, s.sc, Plain, s.mn))]

\* qh does not advance: the masks u1, u2 move up two bits per chunk.
dotProductQ5_K ==
    [c \in 0..3, h \in 0..1, l \in 0..31 |->
       LET s == getScaleMin(2 * c + h)
       IN  T(64 * c + 32 * h + l,
             Scalar(Nibble(48 + 32 * c + l, h) \o Bits(16 + l, 2 * c + h, 1),
                    0, s.sc, Plain, s.mn))]

dotProductQ6_K ==
    [n \in 0..1, l \in 0..31, k \in 0..3 |->
       LET ql == 64 * n + l + (IF k \in {1, 3} THEN 32 ELSE 0)
       IN  T(128 * n + l + 32 * k,
             Scalar(Nibble(ql, IF k < 2 THEN 0 ELSE 1) \o Bits(128 + 32 * n + l, 2 * k, 2),
                    32, Byte(192 + 8 * n + l \div 16 + 2 * k), Plain, <<>>))]

dotProductQ8_0 == [i \in 0..31, z \in {0} |-> T(i, Scalar(Byte(2 + i), 0, <<>>, Plain, <<>>))]

dotProductQ8_1 == [i \in 0..31, z \in {0} |-> T(i, Scalar(Byte(4 + i), 0, <<>>, Plain, <<>>))]

dotProductQ8_K == [i \in 0..255, z \in {0} |-> T(i, Scalar(Byte(4 + i), 0, <<>>, Plain, <<>>))]

\* xh_1 = (qh >> (j + 12)) & 0x10 is bit j + 16 of qh.
dotProductQ5_0 ==
    [j \in 0..15, h \in 0..1 |->
       T(j + 16 * h, Scalar(Nibble(6 + j, h) \o Bits(2, IF h = 0 THEN j ELSE j + 12 + 4, 1),
                            16, <<>>, Plain, <<>>))]

dotProductQ5_1 ==
    [i \in 0..31, z \in {0} |->
       T(i, Scalar(Nibble(8 + i \div 2, (i % 2)) \o Bits(4, i, 1), 0, <<>>, Plain, <<>>))]

dotProductIQ4_NL ==
    [j \in 0..15, h \in 0..1 |->
       T(j + 16 * h, Codebook(Nibble(2 + j, h), 0, <<>>, 0, <<>>, Plain))]

dotProductIQ4_XS ==
    [ib \in 0..7, j \in 0..15, h \in 0..1 |->
       T(32 * ib + j + 16 * h,
         Codebook(Nibble(8 + 16 * ib + j, h), 0, <<>>, 0,
                  Nibble(4 + ib \div 2, (ib % 2)) \o Bits(2, 2 * ib, 2), Centred))]

dotProductIQ2_XS ==
    [ib \in 0..7, l \in 0..3, j \in 0..7 |->
       LET qval == 2 + 2 * (4 * ib + l)
       IN  T(32 * ib + 8 * l + j,
             Codebook(Bits(qval, 0, 9), j, Bits(qval, 9, 7), j, Nibble(66 + ib, l \div 2), Odd(8)))]

dotProductIQ2_XXS ==                  \* memcpy(aux32, qs + 4 * ib32, 8)
    [ib \in 0..7, l \in 0..3, j \in 0..7 |->
       LET aux == 2 + 4 * ib
       IN  T(32 * ib + 8 * l + j,
             Codebook(Byte(aux + l), j, Bits(aux + 4, 7 * l, 7), j, Bits(aux + 4, 28, 4), Odd(8)))]

\* The pair of sub-blocks shares a scale byte: db1, db2; g is grid1 or grid2.
dotProductIQ3_S ==
    [p \in 0..3, h \in 0..1, l \in 0..3, j \in 0..3, g \in 0..1 |->
       T(32 * (2 * p + h) + 8 * l + j + 4 * g,
         Codebook(Byte(2 + 16 * p + 8 * h + 2 * l + g) \o Bits(66 + 2 * p + h, 2 * l + g, 1), j,
                  Byte(74 + 8 * p + 4 * h + l), j + 4 * g, Nibble(106 + p, h), Odd(1)))]

dotProductPQ2_0 ==
    [j \in 0..127, z \in {0} |->
       T(j, Scalar(Bits(2 + j \div 4, 2 * (j % 4), 2), 1, <<>>, Plain, <<>>))]
-----------------------------------------------------------------------------
(* Integer dots over activations quantized to Q8_K; q8KDotRowScale gives   *)
(* the divisor of 2 * scale + 1.                                           *)
q8KDotRowScale(f) == IF f = "IQ2_S" THEN 8 ELSE IF f = "IQ3_XXS" THEN 4 ELSE 1

dotProductIQ2_S_Q8K ==
    [ib \in 0..7, l \in 0..3, j \in 0..7 |->
       T(32 * ib + 8 * l + j,
         Codebook(Byte(2 + 4 * ib + l) \o Bits(66 + ib, 2 * l, 2), j,
                  Byte(2 + 32 + 4 * ib + l), j,
                  Nibble(74 + ib, IF l < 2 THEN 0 ELSE 1), Odd(q8KDotRowScale("IQ2_S"))))]

dotProductIQ3_XXS_Q8K ==
    [ib \in 0..7, l \in 0..3, j \in 0..3, g \in 0..1 |->
       LET aux == 2 + 64 + 4 * ib
       IN  T(32 * ib + 8 * l + j + 4 * g,
             Codebook(Byte(2 + 8 * ib + 2 * l + g), j, Bits(aux, 7 * l, 7), j + 4 * g,
                      Bits(aux, 28, 4), Odd(q8KDotRowScale("IQ3_XXS"))))]

dotProductIQ3_S_Q8K ==
    [p \in 0..3, h \in 0..1, l \in 0..3, j \in 0..3, g \in 0..1 |->
       T(32 * (2 * p + h) + 8 * l + j + 4 * g,
         Codebook(Byte(2 + 16 * p + 8 * h + 2 * l + g) \o Bits(66 + 2 * p + h, 2 * l + g, 1), j,
                  Byte(74 + 8 * p + 4 * h + l), j + 4 * g,
                  Nibble(106 + p, h), Odd(q8KDotRowScale("IQ3_S"))))]
-----------------------------------------------------------------------------
(* The tensor dequantizers unpack their blocks with loops of their own.    *)
dequantizeIQ2_S ==
    [ib \in 0..7, l \in 0..3, j \in 0..7 |->
       LET k == 4 * ib + l            \* qs and signs advance by 4 per sub-block
       IN  T(32 * ib + 8 * l + j,
             Codebook(Byte(2 + k) \o Bits(66 + ib, 2 * l, 2), j, Byte(34 + k), j,
                      Nibble(74 + ib, l \div 2), Odd(8)))]

dequantizeIQ2_XS ==
    [ib \in 0..7, l \in 0..3, j \in 0..7 |->
       LET qval == 2 + 2 * (4 * ib + l)
       IN  T(32 * ib + 8 * l + j,
             Codebook(Bits(qval, 0, 9), j, Bits(qval, 9, 7), j, Nibble(66 + ib, l \div 2), Odd(8)))]

dequantizeIQ3_S ==
    [p \in 0..3, h \in 0..1, l \in 0..3, j \in 0..3, g \in 0..1 |->
       T(32 * (2 * p + h) + 8 * l + j + 4 * g,
         Codebook(Byte(2 + 16 * p + 8 * h + 2 * l + g) \o Bits(66 + 2 * p + h, 2 * l + g, 1), j,
                  Byte(74 + 8 * p + 4 * h + l), j + 4 * g, Nibble(106 + p, h), Odd(1)))]

dequantizeIQ4_NL ==
    [j \in 0..15, h \in 0..1 |->
       T(j + 16 * h, Codebook(Nibble(2 + j, h), 0, <<>>, 0, <<>>, Plain))]

dequantizeIQ4_XS ==
    [ib \in 0..7, j \in 0..15, h \in 0..1 |->
       T(32 * ib + j + 16 * h,
         Codebook(Nibble(8 + 16 * ib + j, h), 0, <<>>, 0,
                  Nibble(4 + ib \div 2, (ib % 2)) \o Bits(2, 2 * ib, 2), Centred))]

dequantizeIQ3_XXS ==
    [ib \in 0..7, l \in 0..3, j \in 0..3, g \in 0..1 |->
       LET aux == 2 + 64 + 4 * ib
       IN  T(32 * ib + 8 * l + j + 4 * g,
             Codebook(Byte(2 + 8 * ib + 2 * l + g), j, Bits(aux, 7 * l, 7), j + 4 * g,
                      Bits(aux, 28, 4), Odd(4)))]
=============================================================================
