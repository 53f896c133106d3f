--------------------------- MODULE KernelsDecode ----------------------------
(* The decode-path variants of the Q2_K, Q3_K and codebook kernels of      *)
(* GPUComputeInternal.hpp and FFNPersistentKernel.cu: four rows per warp,  *)
(* repacked weights, integer dots, and the fused gate/up and Q/K/V forms.  *)
EXTENDS KernelsCuda

\* The weight a float Q2_K kernel takes from byte "byte" of half n, bits 2j,
\* with the scale and minimum of byte s.
Q2KTerm(n, j, byte, s) ==
    T(128 * n + 32 * j + byte,
      Scalar(Bits(16 + 32 * n + byte, 2 * j, 2), 0, Nibble(s, 0), Plain, Nibble(s, 1)))

\* The same for Q3_K: hm[byte] has the high bit, inverted: 4 off when clear.
Q3KTerm(n, j, byte, s) ==
    T(128 * n + 32 * j + byte,
      Scalar(Bits(32 + 32 * n + byte, 2 * j, 2) \o Bits(byte, 4 * n + j, 1), 4,
             auxScale(s), Centred, <<>>))
-----------------------------------------------------------------------------
(* Eight lanes per row: lane I owns bytes 4I..4I+3 of each half.           *)
isub(I) == IF 4 * I < 16 THEN 0 ELSE 1

kQGemvQ2KxW4 ==
    [I \in 0..7, n \in 0..1, j \in 0..3, k \in 0..3 |->
       Q2KTerm(n, j, 4 * I + k, 8 * n + 2 * j + isub(I))]

\* Modes 4 and 5 take the scales from two words of four bytes.
kQGemvQ2KxW4_words ==
    [I \in 0..7, n \in 0..1, j \in 0..3, k \in 0..3 |->
       Q2KTerm(n, j, 4 * I + k, 8 * n + 4 * (j \div 2) + 2 * (j % 2) + isub(I))]

kQGemvQ2KxW4Resid ==
    [I \in 0..7, n \in 0..1, j \in 0..3, k \in 0..3 |->
       Q2KTerm(n, j, 4 * I + k, 8 * n + 2 * j + isub(I))]

kQGemvQ2KxW4_Nm ==
    [I \in 0..7, n \in 0..1, j \in 0..3, k \in 0..3 |->
       Q2KTerm(n, j, 4 * I + k, 8 * n + 2 * j + isub(I))]

kQGemvQ2KxSplit4 ==
    [I \in 0..7, n \in 0..1, j \in 0..3, k \in 0..3 |->
       Q2KTerm(n, j, 4 * I + k, 8 * n + 2 * j + isub(I))]

kQGemvQ2KxW4b8 ==
    [I \in 0..7, n \in 0..1, j \in 0..3, k \in 0..3 |->
       Q2KTerm(n, j, 4 * I + k, 8 * n + 2 * j + isub(I))]

kQGemvQ3KxW4 ==
    [I \in 0..7, half \in 0..1, jj \in 0..3, k \in 0..3 |->
       Q3KTerm(half, jj, 4 * I + k, 8 * half + 2 * jj + isub(I))]

\* FFNPersistentKernel.cu, the same geometry.
kFfnQ2KRowDot4W ==
    [I \in 0..7, n \in 0..1, j \in 0..3, k \in 0..3 |->
       Q2KTerm(n, j, 4 * I + k, 8 * n + 2 * j + isub(I))]

kFfnQ2KRowDot4W_Q81 == kFfnQ2KRowDot4W

kFfnQ3KRowDot4W ==
    [I \in 0..7, n \in 0..1, j \in 0..3, k \in 0..3 |->
       Q3KTerm(n, j, 4 * I + k, 8 * n + 2 * j + isub(I))]

\* One row per warp: lane owns byte lane of each half.
kQGemvQ3KResid ==
    [lane \in Lanes, half \in 0..1, jj \in 0..3 |->
       Q3KTerm(half, jj, lane, 8 * half + 2 * jj + lane \div 16)]
-----------------------------------------------------------------------------
(* Repacked weights.  A repacked block is a function from its bytes to the *)
(* bytes of the Q2_K block they are copied from; Through moves a weight    *)
(* read from the repacked block back to the original's bits.               *)
kRepackQ2K ==                         \* lane I writes 16 bytes: w0, w1, scales
    [t \in 0..131 |->
       LET I == t \div 16
           m == (t % 16)
       IN  IF t >= 128 THEN 80 + t - 128
           ELSE IF m < 4 THEN 16 + 4 * I + m
           ELSE IF m < 8 THEN 16 + 32 + 4 * I + m - 4
           ELSE IF m < 12 THEN 2 * (m - 8) + isub(I)
           ELSE 8 + 2 * (m - 12) + isub(I)]

Through(copy, bits) ==
    [i \in DOMAIN bits |-> 8 * copy[bits[i] \div 8] + (bits[i] % 8)]

kQGemvQ2KxW4_RP ==
    [I \in 0..7, n \in 0..1, j \in 0..3, k \in 0..3 |->
       LET q == 16 * I + 4 * n + k
           s == 16 * I + 8 + 4 * n + j
       IN  T(128 * n + 32 * j + 4 * I + k,
             Scalar(Through(kRepackQ2K, Bits(q, 2 * j, 2)), 0,
                    Through(kRepackQ2K, Nibble(s, 0)), Plain,
                    Through(kRepackQ2K, Nibble(s, 1))))]
-----------------------------------------------------------------------------
(* Q2_K over Q8_K activations: integer products, and the minima through    *)
(* the sums of the 16 groups of activations.                               *)
NoMin(t) == [t EXCEPT !.w.mn = <<>>]

q2kXQ8KBlockDot ==
    [I \in 0..7, n \in 0..1, j \in 0..3, k \in 0..3 |->
       NoMin(Q2KTerm(n, j, 4 * I + k, 8 * n + 2 * j + isub(I)))]

\* The first lane of each half of the octet subtracts the minimum of a group.
q2kXQ8KBlockDot_bsums ==
    [I \in {0, 4}, n \in 0..1, j \in 0..3 |->
       LET g == 8 * n + 2 * j + isub(I)
       IN  Offset(16 * g, 16, 0, Nibble(g, 0), Nibble(g, 1))]

\* Lane owns the eight columns from 8 * lane, in group lane \div 2.
q2kIntDot8 ==
    [lane \in Lanes, k \in 0..7 |->
       T(8 * lane + k,
         Scalar(Bits(16 + 32 * (lane \div 16) + 8 * (lane % 4) + k, 2 * ((lane \div 4) % 4), 2),
                0, Nibble(lane \div 2, 0), Plain, <<>>))]

q2kMlTerm ==
    [g \in 0..15, z \in {0} |-> Offset(16 * g, 16, 0, Nibble(g, 0), Nibble(g, 1))]
-----------------------------------------------------------------------------
(* Codebook formats over Q8_K activations: lane -> sub-block ib, group l.  *)
Ib32(lane) == lane \div 4
L8(lane) == (lane % 4)

\* The scale an integer sum is multiplied by: 2 * sc + 1.
q8kScaleMuli(f, ib, l) ==
    CASE f = "IQ2_S" -> Nibble(74 + ib, IF l < 2 THEN 0 ELSE 1)
      [] f = "IQ2_XS" -> Nibble(66 + ib, IF l < 2 THEN 0 ELSE 1)
      [] f = "IQ3_XXS" -> Bits(66 + 4 * ib, 28, 4)
      [] f = "IQ3_S" -> Nibble(106 + ib \div 2, ib % 2)

\* Column 8 * lane + j takes byte "entry" of the codebook, sign bit "bit".
LaneTerm(f, lane, j, entry, byte, signs, bit, c) ==
    T(8 * lane + j, Codebook(entry, byte, signs, bit, q8kScaleMuli(f, Ib32(lane), L8(lane)), Odd(c)))

q8kLaneSumi_IQ2S ==
    [lane \in Lanes, j \in 0..7 |->
       LET k == 4 * Ib32(lane) + L8(lane)
       IN  LaneTerm("IQ2_S", lane, j, Byte(2 + k) \o Bits(66 + Ib32(lane), 2 * L8(lane), 2), j,
                    Byte(34 + k), j, 8)]

q8kLaneSumi_IQ2XS ==
    [lane \in Lanes, j \in 0..7 |->
       LET word == 2 + 2 * (4 * Ib32(lane) + L8(lane))
       IN  LaneTerm("IQ2_XS", lane, j, Bits(word, 0, 9), j, Bits(word, 9, 7), j, 8)]

\* g1 and g2 have four columns each.
q8kLaneSumi_IQ3XXS ==
    [lane \in Lanes, g \in 0..1, j \in 0..3 |->
       LET aux == 66 + 4 * Ib32(lane)
       IN  LaneTerm("IQ3_XXS", lane, 4 * g + j, Byte(2 + 8 * Ib32(lane) + 2 * L8(lane) + g), j,
                    Bits(aux, 7 * L8(lane), 7), j + 4 * g, 4)]

\* Sub-blocks in pairs: qs by 16 and 8, signs by 8 and 4.
qsOff(ib) == 16 * (ib \div 2) + 8 * (ib % 2)
signOff(ib) == 8 * (ib \div 2) + 4 * (ib % 2)

q8kLaneSumi_IQ3S ==
    [lane \in Lanes, g \in 0..1, j \in 0..3 |->
       LET ib == Ib32(lane)
           l == L8(lane)
       IN  LaneTerm("IQ3_S", lane, 4 * g + j,
                    Byte(2 + qsOff(ib) + 2 * l + g) \o Bits(66 + ib, 2 * l + g, 1), j,
                    Byte(74 + signOff(ib) + l), j + 4 * g, 1)]

\* With __dp4a, word w of the columns: the sign bit of byte i is picked out of
\* the sign byte, repeated four times, by a mask, one for each word.
signMask(w) == IF w = 0 THEN {0, 9, 18, 27} ELSE {4, 13, 22, 31}    \* set bits
SignBit(w, i) == (CHOOSE b \in signMask(w) : b \div 8 = i) % 8

q8kLaneSumi_dp4a_IQ2S ==
    [lane \in Lanes, w \in 0..1, i \in 0..3 |->
       LET k == 4 * Ib32(lane) + L8(lane)
       IN  LaneTerm("IQ2_S", lane, 4 * w + i, Byte(2 + k) \o Bits(66 + Ib32(lane), 2 * L8(lane), 2),
                    4 * w + i, Byte(34 + k), SignBit(w, i), 8)]

q8kLaneSumi_dp4a_IQ2XS ==
    [lane \in Lanes, w \in 0..1, i \in 0..3 |->
       LET word == 2 + 2 * (4 * Ib32(lane) + L8(lane))
       IN  LaneTerm("IQ2_XS", lane, 4 * w + i, Bits(word, 0, 9), 4 * w + i,
                    Bits(word, 9, 7), SignBit(w, i), 8)]

q8kLaneSumi_dp4a_IQ3XXS ==
    [lane \in Lanes, w \in 0..1, i \in 0..3 |->
       LET aux == 66 + 4 * Ib32(lane)
       IN  LaneTerm("IQ3_XXS", lane, 4 * w + i, Byte(2 + 8 * Ib32(lane) + 2 * L8(lane) + w), i,
                    Bits(aux, 7 * L8(lane), 7), SignBit(w, i), 4)]

q8kLaneSumi_dp4a_IQ3S ==
    [lane \in Lanes, w \in 0..1, i \in 0..3 |->
       LET ib == Ib32(lane)
           l == L8(lane)
       IN  LaneTerm("IQ3_S", lane, 4 * w + i,
                    Byte(2 + qsOff(ib) + 2 * l + w) \o Bits(66 + ib, 2 * l + w, 1), i,
                    Byte(74 + signOff(ib) + l), SignBit(w, i), 1)]
-----------------------------------------------------------------------------
(* Fused launches read two or three matrices in one pass.                  *)
kQGemvFusedGU_IQ2XS ==                \* matrix 0 the gate, 1 the up
    [lane \in Lanes, j \in 0..7 |->
       LET ib32 == lane \div 4
           l == (lane % 4)
           qval == 2 + 2 * (4 * ib32 + l)
       IN  T(8 * lane + j,
             Codebook(Bits(qval, 0, 9), j, Bits(qval, 9, 7), j,
                      Nibble(66 + ib32, IF l >= 2 THEN 1 ELSE 0), Odd(8)))]

kQGemvFusedGU_Q2K ==
    [lane \in Lanes, half \in 0..1, jj \in 0..3 |->
       Q2KTerm(half, jj, lane, 8 * half + 2 * jj + lane \div 16)]

kQGemvFusedQK_Q2K ==
    [lane \in Lanes, half \in 0..1, jj \in 0..3 |->
       Q2KTerm(half, jj, lane, 8 * half + 2 * jj + lane \div 16)]

\* The quantized Q and K: sixteen lanes per block, as in kQGemvQ2KxQ81_Mmvq.
kQGemvFusedQKV_xq81 ==
    [kqs \in 0..15, i \in 0..3, k \in 0..3 |->
       Q2KTerm(kqs \div 8, i, 4 * (kqs % 8) + k, mmvqScale(kqs) + 2 * i)]

\* V is Q4_K: lane owns byte lane of each 32, both nibbles.
kQGemvFusedQKV_V ==
    [lane \in Lanes, g \in 0..3, h \in 0..1 |->
       LET s == getScaleMin(2 * g + h)
       IN  T(64 * g + 32 * h + lane,
             Scalar(Nibble(16 + 32 * g + lane, h), 0, s.sc, Plain, s.mn))]
=============================================================================
