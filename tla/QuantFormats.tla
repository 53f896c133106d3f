---------------------------- MODULE QuantFormats ----------------------------
(* What a quantized block means: for every element of a block, where the   *)
(* bits of its weight are stored, as the reference dequantizers of         *)
(* GGMLDequantize.hpp read them.  A bit of a block is the number           *)
(* 8 * byte + bit; a bit field is the sequence of its bits, lowest first.  *)
(* The scale d of a block (and dmin) is common to all its weights and left *)
(* out; its bytes are in BlockHead.                                        *)
EXTENDS Integers, Sequences

Bits(byte, lo, width) == [i \in 1..width |-> 8 * byte + lo + i - 1]
Byte(byte) == Bits(byte, 0, 8)
Nibble(byte, h) == Bits(byte, 4 * h, 4)

\* One term of a kernel: the weight w is multiplied by element x of the block's
\* activations, or stored as element x of the output.
T(x, w) == [x |-> x, w |-> w]

\* A zero point, or a minimum mn, taken off through the sum of the activations
\* lo..lo+len-1 instead of weight by weight; sc is the scale it is taken with.
Offset(lo, len, zero, sc, mn) == [lo |-> lo, len |-> len, zero |-> zero, sc |-> sc, mn |-> mn]

\* A weight is (code - zero) * s - mn, where s = (a * sc + b) / c.
Scalar(q, zero, sc, aff, mn) ==
    [q |-> q, zero |-> zero, lane |-> 0, sgn |-> <<>>, slane |-> 0,
     sc |-> sc, aff |-> aff, mn |-> mn]

\* Byte "lane" of the codebook entry q, negated when bit "slane" of the sign
\* pattern sgn is set (a stored sign byte, or an index into ksigns_iq2xs).
Codebook(q, lane, sgn, slane, sc, aff) ==
    [q |-> q, zero |-> 0, lane |-> lane, sgn |-> sgn, slane |-> slane,
     sc |-> sc, aff |-> aff, mn |-> <<>>]

Plain == <<1, 0, 1>>                 \* s = sc
Centred == <<1, -32, 1>>             \* s = sc - 32
Odd(c) == <<2, 1, c>>                \* s = (2 * sc + 1) / c

BlockBytes == [Q5_0 |-> 22, Q5_1 |-> 24, Q8_0 |-> 34, Q8_1 |-> 36, Q8_K |-> 292,
               Q2_K |-> 84, Q3_K |-> 110, Q4_K |-> 144, Q5_K |-> 176, Q6_K |-> 210,
               IQ2_XXS |-> 66, IQ2_XS |-> 74, IQ2_S |-> 82, IQ3_XXS |-> 98,
               IQ3_S |-> 110, IQ4_NL |-> 18, IQ4_XS |-> 136, PQ2_0 |-> 34]

Formats == DOMAIN BlockBytes

BlockSize == [f \in Formats |->
                IF f \in {"Q5_0", "Q5_1", "Q8_0", "Q8_1", "IQ4_NL"} THEN 32
                ELSE IF f = "PQ2_0" THEN 128 ELSE 256]

\* Bytes that hold d, dmin, the sum of a Q8 block: common to the block.
BlockHead ==
    [f \in Formats |->
       IF f \in {"Q5_1", "Q8_1", "Q4_K", "Q5_K"} THEN 0..3
       ELSE IF f = "Q8_K" THEN (0..3) \cup (260..291)
       ELSE IF f = "Q2_K" THEN 80..83
       ELSE IF f = "Q3_K" THEN 108..109
       ELSE IF f = "Q6_K" THEN 208..209
       ELSE 0..1]
-----------------------------------------------------------------------------
Half(e, n) == (e \div n) % 2

dequantizeQ5_0Block(e) ==
    Scalar(Nibble(6 + (e % 16), Half(e, 16)) \o Bits(2, e, 1), 16, <<>>, Plain, <<>>)

dequantizeQ5_1Block(e) ==
    Scalar(Nibble(8 + e \div 2, (e % 2)) \o Bits(4, e, 1), 0, <<>>, Plain, <<>>)

dequantizeQ8_0Block(e) == Scalar(Byte(2 + e), 0, <<>>, Plain, <<>>)

dequantizeQ8_1Block(e) == Scalar(Byte(4 + e), 0, <<>>, Plain, <<>>)

dequantizeQ8_KBlock(e) == Scalar(Byte(4 + e), 0, <<>>, Plain, <<>>)


\* The 6-bit scale and minimum of group j, packed into 12 bytes at 4.
getScaleMin(j) ==
    IF j < 4
    THEN [sc |-> Bits(4 + j, 0, 6), mn |-> Bits(8 + j, 0, 6)]
    ELSE [sc |-> Nibble(8 + j, 0) \o Bits(j, 6, 2),
          mn |-> Nibble(8 + j, 1) \o Bits(4 + j, 6, 2)]

dequantizeQ4_KBlock(e) ==
    LET s == getScaleMin(e \div 32)
    IN  Scalar(Nibble(16 + 32 * (e \div 64) + (e % 32), Half(e, 32)), 0, s.sc, Plain, s.mn)

dequantizeQ5_KBlock(e) ==
    LET s == getScaleMin(e \div 32)
    IN  Scalar(Nibble(48 + 32 * (e \div 64) + (e % 32), Half(e, 32))
                 \o Bits(16 + (e % 32), e \div 32, 1), 0, s.sc, Plain, s.mn)

\* Quarter k of half n: nibble k \div 2 of ql, bits 2k of qh.
dequantizeQ6_KBlock(e) ==
    LET n == e \div 128
        k == (e \div 32) % 4
        l == (e % 32)
    IN  Scalar(Nibble(64 * n + l + 32 * (k % 2), k \div 2) \o Bits(128 + 32 * n + l, 2 * k, 2),
               32, Byte(192 + 8 * n + l \div 16 + 2 * k), Plain, <<>>)

dequantizeQ2_KBlock(e) ==
    LET n == e \div 128
        j == (e \div 32) % 4
        s == 8 * n + 2 * j + Half(e, 16)
    IN  Scalar(Bits(16 + 32 * n + (e % 32), 2 * j, 2), 0, Nibble(s, 0), Plain, Nibble(s, 1))

\* The 16 six-bit scales of a Q3_K block, unpacked through aux[] from 12 bytes.
auxScale(s) == Nibble(96 + (s % 8), s \div 8) \o Bits(104 + (s % 4), 2 * (s \div 4), 2)

dequantizeQ3_KBlock(e) ==
    LET n == e \div 128
        j == (e \div 32) % 4
    IN  Scalar(Bits(32 + 32 * n + (e % 32), 2 * j, 2) \o Bits((e % 32), 4 * n + j, 1), 4,
               auxScale(8 * n + 2 * j + Half(e, 16)), Centred, <<>>)
-----------------------------------------------------------------------------
(* Codebook formats: a sub-block of 32 weights, four groups l of eight.    *)
Sub(e) == e \div 32
Group(e) == (e \div 8) % 4
Lane(e) == (e % 8)

dequantizeIQ2_XXSBlock(e) ==          \* aux32 = 8 bytes at qs + 4 * ib32
    LET aux == 2 + 4 * Sub(e)
    IN  Codebook(Byte(aux + Group(e)), Lane(e), Bits(aux + 4, 7 * Group(e), 7), Lane(e),
                 Bits(aux + 4, 28, 4), Odd(8))

dequantizeIQ2_XSBlock(e) ==
    LET w == 2 + 2 * (4 * Sub(e) + Group(e))
    IN  Codebook(Bits(w, 0, 9), Lane(e), Bits(w, 9, 7), Lane(e),
                 Nibble(66 + Sub(e), Group(e) \div 2), Odd(8))

dequantizeIQ2_SBlock(e) ==
    LET k == 4 * Sub(e) + Group(e)
    IN  Codebook(Byte(2 + k) \o Bits(66 + Sub(e), 2 * Group(e), 2), Lane(e),
                 Byte(34 + k), Lane(e), Nibble(74 + Sub(e), Group(e) \div 2), Odd(8))

\* Two entries of four weights per group; the second takes lanes 4..7.
dequantizeIQ3_XXSBlock(e) ==
    LET aux == 66 + 4 * Sub(e)
    IN  Codebook(Byte(2 + 8 * Sub(e) + 2 * Group(e) + Lane(e) \div 4), (e % 4),
                 Bits(aux, 7 * Group(e), 7), Lane(e), Bits(aux, 28, 4), Odd(4))

dequantizeIQ3_SBlock(e) ==
    LET h == 2 * Group(e) + Lane(e) \div 4
    IN  Codebook(Byte(2 + 8 * Sub(e) + h) \o Bits(66 + Sub(e), h, 1), (e % 4),
                 Byte(74 + 4 * Sub(e) + Group(e)), Lane(e),
                 Nibble(106 + Sub(e) \div 2, Sub(e) % 2), Odd(1))

dequantizeIQ4_NLBlock(e) ==           \* a nibble indexes kvalues_iq4nl
    Codebook(Nibble(2 + (e % 16), Half(e, 16)), 0, <<>>, 0, <<>>, Plain)

dequantizeIQ4_XSBlock(e) ==
    LET ib == Sub(e)
    IN  Codebook(Nibble(8 + 16 * ib + (e % 16), Half(e, 16)), 0, <<>>, 0,
                 Nibble(4 + ib \div 2, (ib % 2)) \o Bits(2, 2 * ib, 2), Centred)

dequantizePQ2_0Block(e) ==
    Scalar(Bits(2 + e \div 4, 2 * (e % 4), 2), 1, <<>>, Plain, <<>>)
-----------------------------------------------------------------------------
dequantizeBlock(f, e) ==
    CASE f = "Q5_0" -> dequantizeQ5_0Block(e)
      [] f = "Q5_1" -> dequantizeQ5_1Block(e)
      [] f = "Q8_0" -> dequantizeQ8_0Block(e)
      [] f = "Q8_1" -> dequantizeQ8_1Block(e)
      [] f = "Q8_K" -> dequantizeQ8_KBlock(e)
      [] f = "Q2_K" -> dequantizeQ2_KBlock(e)
      [] f = "Q3_K" -> dequantizeQ3_KBlock(e)
      [] f = "Q4_K" -> dequantizeQ4_KBlock(e)
      [] f = "Q5_K" -> dequantizeQ5_KBlock(e)
      [] f = "Q6_K" -> dequantizeQ6_KBlock(e)
      [] f = "IQ2_XXS" -> dequantizeIQ2_XXSBlock(e)
      [] f = "IQ2_XS" -> dequantizeIQ2_XSBlock(e)
      [] f = "IQ2_S" -> dequantizeIQ2_SBlock(e)
      [] f = "IQ3_XXS" -> dequantizeIQ3_XXSBlock(e)
      [] f = "IQ3_S" -> dequantizeIQ3_SBlock(e)
      [] f = "IQ4_NL" -> dequantizeIQ4_NLBlock(e)
      [] f = "IQ4_XS" -> dequantizeIQ4_XSBlock(e)
      [] f = "PQ2_0" -> dequantizePQ2_0Block(e)

\* The weights of a block of each format, in element order.
StoredWeight ==
    [f \in Formats |-> [e \in 0..(BlockSize[f] - 1) |-> dequantizeBlock(f, e)]]
=============================================================================
