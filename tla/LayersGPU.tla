------------------------------ MODULE LayersGPU ------------------------------
(* The layers on the device, kernel by kernel in stream order: the dense   *)
(* decoder (GPUModel::forward) and the hybrid one (forwardQwen35Prefix).   *)
(* A launcher maps the device memory before it to the memory after it.     *)
EXTENDS LayerState

-----------------------------------------------------------------------------
(* Operands.  A quantized or half-precision row is <<format, row>>; a      *)
(* kernel that finds another format in its operand computes garbage.       *)

Coded(format, x) == <<format, x>>
Dot(w, format, operand) ==
    IF operand[1] = format THEN Mul(w, operand[2]) ELSE <<"garbled", w, operand>>

Stride(format) == IF format = "q81" THEN 320 ELSE 304   \* bytes per 256 columns

\* q8k_ grows when it is too small, and loses what it held.
Grown(d, bytes) ==
    IF d.q8k.cap >= bytes THEN d ELSE [d EXCEPT !.q8k = [cap |-> bytes, row |-> Junk]]
\* Mutant: a buffer that already holds a row of the format is not written again.
QuantizeOnce(d, format, x, blocks) ==
    LET e == Grown(d, blocks * Stride(format))
    IN  IF e.q8k.row[1] = format THEN e ELSE [e EXCEPT !.q8k.row = Coded(format, x)]
Quantize(d, format, x, blocks) ==
    [Grown(d, blocks * Stride(format)) EXCEPT !.q8k.row = Coded(format, x)]

Q8KFamily == {"IQ2_S", "IQ2_XS", "IQ3_XXS", "IQ3_S", "Q5_K", "Q4_K", "Q6_K", "IQ4_XS"}
FloatFamily == {"IQ2_XXS", "Q5_0", "IQ4_NL", "F32", "EXL3"}
KnownTypes == Q8KFamily \cup FloatFamily \cup {"Q2_K", "Q3_K", "Q8_0", "PQ2_0"}

\* The format in which a matrix wants its operand, by the switches.
WantsQ2K ==
    IF (On("Q2K_Q81") \/ On("Q2K_Q81_MMVQ")) /\ c.quads THEN "q81"
    ELSE IF On("Q2K_MMVQ") \/ (On("Q2K_MQ4XW") /\ c.quads) THEN "q8k" ELSE "float"
WantsQ3K == IF On("Q3K_MMVQ") THEN "q81" ELSE "float"
Wants(type) ==
    CASE type \in Q8KFamily /\ (type = "IQ2_XS" => On("IQ2XS_INT")) -> "q8k"
      [] type = "Q2_K" -> WantsQ2K
      [] type = "Q3_K" -> WantsQ3K
      [] type = "Q8_0" -> "q80"
      [] OTHER -> "float"

\* The product itself.  PQ2_0 weights of a Prism model are stored rotated and
\* want a folded row; an unknown type gives zeros.
Product(w, type, x) ==
    CASE type = "PQ2_0" /\ c.prism -> RotatedMul(w, x)
      [] type \in KnownTypes /\ ~(type = "PQ2_0" /\ c.prism) -> Mul(w, x)
      [] OTHER -> Zeros

launchQGemv(d, w, type, blocks, x, b, t) ==
    LET f == Wants(type)
        e == Quantize(d, f, x, blocks)
    IN  IF f = "float" THEN Put(d, b, t, Product(w, type, x))
        ELSE Put(e, b, t, Dot(w, f, e.q8k.row))

\* out = acc + W x in one launch; "done" is the launcher's result.  pre says
\* that the caller's producer has already quantized x into q8k_.
launchQGemvResid(d, w, type, blocks, x, acc, t, pre) ==
    LET e == IF pre THEN d ELSE Quantize(d, "q81", x, blocks)
        sum(dd, y) == [done |-> TRUE, d |-> Put(dd, acc, t, Plus(Row(dd, acc, t), y))]
    IN  CASE type = "Q2_K" /\ On("Q2K_4XW") /\ c.quads -> sum(d, Mul(w, x))
          [] type = "Q3_K" /\ On("Q3K_MMVQ") -> sum(e, Dot(w, "q81", e.q8k.row))
          [] type = "Q3_K" /\ ~On("Q3K_MMVQ") -> sum(d, Mul(w, x))
          [] OTHER -> [done |-> FALSE, d |-> d]

\* silu(gate) * up in one launch.
launchQGemvFusedGU(d, wg, wu, type, blocks, x, b, t, pre) ==
    LET format == IF type = "Q2_K" /\ ~On("Q2K_INTGU") THEN "q81" ELSE "q8k"
        e == IF pre /\ format = "q81" THEN d ELSE Quantize(d, format, x, blocks)
        glu(f) == Times(Silu(Dot(wg, format, f)), Dot(wu, format, f))
    IN  IF \/ type = "Q2_K" /\ ~On("Q2K_INTGU") /\ ~(On("GLU_Q81") /\ c.h1536)
           \/ type = "IQ2_XS" /\ ~On("IQ2XS_INT")
        THEN Put(d, b, t, Times(Silu(Mul(wg, x)), Mul(wu, x)))
        ELSE Put(e, b, t, glu(e.q8k.row))

\* A GEMM reads a matrix in half precision: the copy made at upload, the one
\* decoded last, or one decoded now.
dequantMatrixF16(d, w, name) ==
    IF name \in c.twins \/ d.wF16 = w THEN d ELSE [d EXCEPT !.wF16 = w]
Half(d, w, name) == IF name \in c.twins THEN w ELSE d.wF16
Gemm(d, name, from, to) ==
    LET w == Weight(pass.L, name)
        e == dequantMatrixF16(d, w, name)
    IN  PutAll(e, to, [t \in Tokens |-> Dot(Half(e, w, name), "f16", Row(e, from, t))])
ToF16(d, from, to) == Each(d, to, LAMBDA t : Coded("f16", Row(d, from, t)))

\* One matrix times one row of buffer from.
Gemv(d, name, from, to, t) ==
    launchQGemv(d, Weight(pass.L, name), Type(name), Width(name), Row(d, from, t), to, t)

kRMSNormRow(d, weight) == Each(d, "norm", LAMBDA t : Norm(Weight(pass.L, weight), Row(d, "hidden", t)))
kAddBias(d, b, name) ==
    IF Has(c, name) THEN Each(d, b, LAMBDA t : Bias(Weight(pass.L, name), Row(d, b, t))) ELSE d
kAddResidual(d, b) == Each(d, "hidden", LAMBDA t : Plus(Row(d, "hidden", t), Row(d, b, t)))
kSiluMul(d) == Each(d, "gate", LAMBDA t : Times(Silu(Row(d, "gate", t)), Row(d, "up", t)))

-----------------------------------------------------------------------------
(* The dense decoder.                                                      *)

\* The norm also writes its row as Q8_1, when a later launch can use it and
\* the buffer is there.
FoldsNorm == pass.T = 1 /\ On("FUSE_Q81") /\ c.h1536 /\ dev.q8k.cap >= c.hidden * 320
kRMSNormRowQ81(d, weight, fold) ==
    LET e == kRMSNormRow(d, weight)
    IN  IF fold THEN [e EXCEPT !.q8k.row = Coded("q81", Row(e, "norm", 1))] ELSE e

AttnNorm ==
    /\ Stage("dense", "norm")
    /\ LET fold == FoldsNorm /\ On("QKV_DP4A")
       IN  /\ dev' = kRMSNormRowQ81(dev, "rmsNormAttn", fold)
           /\ pass' = [pass EXCEPT !.stage = "qkv", !.fold = fold]
    /\ UNCHANGED <<c, host, kv, rec, kvPos, logits>>

FuseQK == Type("attnQ") = "Q2_K" /\ Type("attnK") = "Q2_K"
FuseQKV == FuseQK /\ Type("attnV") = "Q4_K" /\ On("FUSE_QKV")
AddBiases(d) == kAddBias(kAddBias(kAddBias(d, "q", "attnQBias"), "k", "attnKBias"), "v", "attnVBias")

\* One launch for Q, K and V, biases included; it reads the Q8_1 row of the
\* norm when there is one.
kQGemvFusedQKV(d) ==
    LET y(name) == IF pass.fold THEN Dot(Weight(pass.L, name), "q81", d.q8k.row)
                   ELSE Mul(Weight(pass.L, name), Row(d, "norm", 1))
        biased(name, bias) == IF Has(c, bias) THEN Bias(Weight(pass.L, bias), y(name)) ELSE y(name)
    IN  Put(Put(Put(d, "q", 1, biased("attnQ", "attnQBias")),
                "k", 1, biased("attnK", "attnKBias")), "v", 1, biased("attnV", "attnVBias"))
kQGemvFusedQK_Q2K(d) ==
    Put(Put(d, "q", 1, Mul(Weight(pass.L, "attnQ"), Row(d, "norm", 1))),
        "k", 1, Mul(Weight(pass.L, "attnK"), Row(d, "norm", 1)))

DecodeQKV ==
    /\ Stage("dense", "qkv") /\ pass.T = 1
    /\ dev' = IF FuseQKV THEN kQGemvFusedQKV(dev)
              ELSE LET d == IF FuseQK THEN kQGemvFusedQK_Q2K(dev)
                            ELSE Gemv(Gemv(dev, "attnQ", "norm", "q", 1), "attnK", "norm", "k", 1)
                   IN  AddBiases(Gemv(d, "attnV", "norm", "v", 1))
    /\ Goto("attention")
    /\ UNCHANGED <<c, host, kv, rec, kvPos, logits>>

PrefillQKV ==
    /\ Stage("dense", "qkv") /\ pass.T > 1
    /\ LET d == ToF16(dev, "norm", "hiddenF16")
       IN  dev' = AddBiases(Gemm(Gemm(Gemm(d, "attnQ", "hiddenF16", "q"), "attnK", "hiddenF16", "k"),
                                 "attnV", "hiddenF16", "v"))
    /\ Goto("attention")
    /\ UNCHANGED <<c, host, kv, rec, kvPos, logits>>

SplitAttn == pass.T = 1 /\ c.split
\* The combine of a split attention may write its row as Q8_1 for attnO.
combineQ81 == pass.T = 1 /\ On("FUSE_Q81") /\ On("COMBINE4")
WrittenByCombine == combineQ81 /\ SplitAttn

DenseAttention ==
    /\ Stage("dense", "attention")
    /\ LET q(t) == Rope(PosOf(t), Row(dev, "q", t))
           k == [t \in Tokens |-> Rope(PosOf(t), Row(dev, "k", t))]
           v == [t \in Tokens |-> Row(dev, "v", t)]
           cache == Stored(kv[kvLayerOffset(pass.L)], k, v)
           d == IF combineQ81 THEN Grown(dev, c.hidden * 320) ELSE dev
           e == Each(Each(d, "q", q), "attnOut",
                     LAMBDA t : Attention(q(t), KeysTo(cache, PosOf(t)), ValuesTo(cache, PosOf(t))))
       IN  /\ kv' = [kv EXCEPT ![kvLayerOffset(pass.L)] = cache]
           /\ dev' = IF WrittenByCombine
                     THEN [e EXCEPT !.q8k.row = Coded("q81", Row(e, "attnOut", 1))] ELSE e
    /\ pass' = [pass EXCEPT !.stage = "attnO", !.combine = combineQ81]
    /\ UNCHANGED <<c, host, rec, kvPos, logits>>

DecodeAttnO ==
    /\ Stage("dense", "attnO") /\ pass.T = 1
    /\ LET r == IF On("FUSE_ATTNO_RESID")
                THEN launchQGemvResid(dev, Weight(pass.L, "attnO"), Type("attnO"), c.hidden,
                                      Row(dev, "attnOut", 1), "hidden", 1, pass.combine)
                ELSE [done |-> FALSE, d |-> dev]
       IN  dev' = IF r.done THEN r.d
                  ELSE kAddResidual(Gemv(r.d, "attnO", "attnOut", "attnProj", 1), "attnProj")
    /\ Goto("ffn")
    /\ UNCHANGED <<c, host, kv, rec, kvPos, logits>>

PrefillAttnO ==
    /\ Stage("dense", "attnO") /\ pass.T > 1
    /\ dev' = kAddResidual(Gemm(ToF16(dev, "attnOut", "attnOutF16"), "attnO", "attnOutF16", "attnProj"),
                           "attnProj")
    /\ Goto("ffn")
    /\ UNCHANGED <<c, host, kv, rec, kvPos, logits>>

\* The whole feed-forward block in one persistent kernel.
FfnPersist ==
    On("FFN_PERSIST") /\ pass.T = 1 /\ Type("ffnGate") = "Q2_K" /\ Type("ffnUp") = "Q2_K"
    /\ Type("ffnDown") = "Q3_K"
PersistentFFN ==
    /\ Stage("dense", "ffn") /\ FfnPersist
    /\ LET x == Norm(Weight(pass.L, "rmsNormFFN"), Row(dev, "hidden", 1))
           g == Times(Silu(Mul(Weight(pass.L, "ffnGate"), x)), Mul(Weight(pass.L, "ffnUp"), x))
       IN  dev' = Put(Put(dev, "gate", 1, g), "hidden", 1,
                      Plus(Row(dev, "hidden", 1), Mul(Weight(pass.L, "ffnDown"), g)))
    /\ Goto("out")
    /\ UNCHANGED <<c, host, kv, rec, kvPos, logits>>

FfnNormRow ==
    /\ Stage("dense", "ffn") /\ ~FfnPersist
    /\ dev' = kRMSNormRowQ81(dev, "rmsNormFFN", FoldsNorm)
    /\ pass' = [pass EXCEPT !.stage = "gateUp", !.fold = FoldsNorm]
    /\ UNCHANGED <<c, host, kv, rec, kvPos, logits>>

FuseGU ==
    /\ pass.T = 1 /\ Type("ffnGate") = Type("ffnUp")
    /\ \/ Type("ffnGate") = "Q2_K" /\ On("FUSE_GU_Q2K")
       \/ Type("ffnGate") \in {"IQ2_XS", "IQ2_S", "IQ3_XXS", "IQ3_S"}
TcFFN == pass.T = 1 /\ On("TC_FFN") /\ {"ffnGate", "ffnUp"} \subseteq c.twins

GateUp ==
    /\ Stage("dense", "gateUp")
    /\ LET h == ToF16(dev, "norm", "hiddenF16")
           gemms == Gemm(Gemm(h, "ffnGate", "hiddenF16", "gate"), "ffnUp", "hiddenF16", "up")
           fused == launchQGemvFusedGU(dev, Weight(pass.L, "ffnGate"), Weight(pass.L, "ffnUp"),
                                       Type("ffnGate"), c.hidden, Row(dev, "norm", 1), "gate", 1, pass.fold)
           d == CASE TcFFN \/ pass.T > 1 -> gemms
                  [] FuseGU /\ ~TcFFN -> fused
                  [] OTHER -> Gemv(Gemv(dev, "ffnGate", "norm", "gate", 1), "ffnUp", "norm", "up", 1)
       IN  dev' = IF FuseGU THEN d ELSE kSiluMul(d)
    /\ Goto("down")
    /\ UNCHANGED <<c, host, kv, rec, kvPos, logits>>

TcDown == TcFFN /\ "ffnDown" \in c.twins
DownGemm(d) == kAddResidual(Gemm(ToF16(d, "gate", "gateF16"), "ffnDown", "gateF16", "ffnOut"), "ffnOut")
Down ==
    /\ Stage("dense", "down")
    /\ LET r == IF On("FUSE_DOWN_RESID") /\ ~TcDown
                THEN launchQGemvResid(dev, Weight(pass.L, "ffnDown"), Type("ffnDown"), c.inter,
                                      Row(dev, "gate", 1), "hidden", 1, FALSE)
                ELSE [done |-> FALSE, d |-> dev]
       IN  dev' = CASE pass.T > 1 \/ TcDown -> DownGemm(dev)
                    [] pass.T = 1 /\ ~TcDown /\ r.done -> r.d
                    [] OTHER -> kAddResidual(Gemv(r.d, "ffnDown", "gate", "ffnOut", 1), "ffnOut")
    /\ Goto("out")
    /\ UNCHANGED <<c, host, kv, rec, kvPos, logits>>

DenseGPU ==
    \/ AttnNorm \/ DecodeQKV \/ PrefillQKV \/ DenseAttention \/ DecodeAttnO \/ PrefillAttnO
    \/ PersistentFFN \/ FfnNormRow \/ GateUp \/ Down
=============================================================================
