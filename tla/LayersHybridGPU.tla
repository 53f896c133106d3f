--------------------------- MODULE LayersHybridGPU ---------------------------
(* The hybrid decoder on the device (forwardQwen35Prefix): three of four   *)
(* layers keep a recurrent state, the others attend, and no projection is  *)
(* a half-precision GEMM.                                                   *)
EXTENDS LayersGPU

\* Prism: a matrix stored rotated wants its operand rotated, in one shared
\* buffer that every projection writes again.
prismFoldForward(d, x, gdnPerm) == Put(d, "fold", 1, Fold(gdnPerm, x))

\* One projection of all rows: a batched Q8_K GEMM where it has the type, one
\* launchQGemv per row otherwise.
BatchTypes == {"Q4_K", "Q5_K", "IQ4_XS", "Q6_K"}
gemvRow(d, t, m) ==
    LET w == Weight(pass.L, m.name)
        x == Row(d, m.from, t)
        f == prismFoldForward(d, x, m.name = "ssmOut")
    IN  IF c.prism /\ Type(m.name) = "PQ2_0"
        THEN launchQGemv(f, w, Type(m.name), Width(m.name), Row(f, "fold", 1), m.to, t)
        ELSE launchQGemv(d, w, Type(m.name), Width(m.name), x, m.to, t)
gemv(d, name, from, to) ==
    IF pass.T > 1 /\ ~c.prism /\ Type(name) \in BatchTypes
    THEN Each(d, to, LAMBDA t : Mul(Weight(pass.L, name), Row(d, from, t)))
    ELSE FoldLeft(LAMBDA e, t : gemvRow(e, t, [name |-> name, from |-> from, to |-> to]), d,
                  [t \in Tokens |-> t])

HybridNorm ==
    /\ Stage("hybrid", "norm")
    /\ dev' = kRMSNormRow(dev, "rmsNormAttn")
    /\ Goto(IF Recurrent(c, pass.L) THEN "recurrent" ELSE "attention")
    /\ UNCHANGED <<c, host, kv, rec, kvPos, logits>>

kQ35BetaGate(d) ==
    Each(Each(d, "q35Beta", LAMBDA t : Sigmoid(Row(d, "q35Beta", t))),
         "q35GateV", LAMBDA t : Softplus(Weight(pass.L, "ssmA"), Row(d, "q35GateV", t)))

RecurrentProjections ==
    /\ Stage("hybrid", "recurrent")
    /\ LET qkvz == gemv(gemv(dev, "attnQKV", "norm", "qkv"), "attnGate", "norm", "q35z")
       IN  dev' = kQ35BetaGate(gemv(gemv(qkvz, "ssmBeta", "norm", "q35Beta"),
                                    "ssmAlpha", "norm", "q35GateV"))
    /\ Goto("recurrence")
    /\ UNCHANGED <<c, host, kv, rec, kvPos, logits>>

\* The recurrence, token by token: convOut has one row, and the window and the
\* state of the layer stay from token to token and from pass to pass.
\* Mutant: the convolution of every token sees the window the pass began with.
kQ35ConvStepBatch(m, t) ==
    LET x == Row(m.d, "qkv", t)
    IN  [m EXCEPT !.d = Put(m.d, "convOut", 1, Silu(Conv(Weight(pass.L, "ssmConv1d"), m.conv, x))),
                  !.conv = IF t = pass.T THEN Append(Tail(m.conv), x) ELSE m.conv]
kQ35ConvStep(m, t) ==
    LET x == Row(m.d, "qkv", t)
    IN  [m EXCEPT !.d = Put(m.d, "convOut", 1, Silu(Conv(Weight(pass.L, "ssmConv1d"), m.conv, x))),
                  !.conv = Append(Tail(m.conv), x)]
kQ35L2NormRepeat(y) == [q |-> Unit("q", y), k |-> Unit("k", y), v |-> Unit("v", y)]
kQ35GdnStepBatch(m, t) ==
    LET y == kQ35L2NormRepeat(Row(m.d, "convOut", 1))
        S == Delta(m.gdn, y.k, y.v, Row(m.d, "q35Beta", t), Row(m.d, "q35GateV", t))
    IN  [m EXCEPT !.gdn = S, !.d = Put(m.d, "gdnOut", t, Read(S, y.q))]
TokenStep(m, t) == kQ35GdnStepBatch(kQ35ConvStep(m, t), t)
kQ35GatedRmsNorm(d) ==
    Each(d, "gdnOut", LAMBDA t : Times(Norm(Weight(pass.L, "ssmNorm"), Row(d, "gdnOut", t)),
                                       Silu(Row(d, "q35z", t))))

Recurrence ==
    /\ Stage("hybrid", "recurrence")
    /\ LET m == FoldLeft(TokenStep, [d |-> dev, conv |-> rec[pass.L].conv, gdn |-> rec[pass.L].gdn],
                         [t \in Tokens |-> t])
       IN  /\ dev' = gemv(kQ35GatedRmsNorm(m.d), "ssmOut", "gdnOut", "attnProj")
           /\ rec' = [rec EXCEPT ![pass.L] = [conv |-> m.conv, gdn |-> m.gdn]]
    /\ Goto("ffn")
    /\ UNCHANGED <<c, host, kv, kvPos, logits>>

\* Full attention: the query row carries a gate beside each head.
QueryKeyValue(d) ==
    gemv(gemv(gemv(d, "attnQ", "norm", "q35QGate"), "attnK", "norm", "k"), "attnV", "norm", "v")
kQ35HeadRmsNorm2(d) ==
    Each(d, "q", LAMBDA t : HeadNorm(c, pass.L, "attnQNorm", Part("query", Row(d, "q35QGate", t))))
kQ35HeadRmsNorm(d) == Each(d, "k", LAMBDA t : HeadNorm(c, pass.L, "attnKNorm", Row(d, "k", t)))
kQ35MRoPE(d, b) == Each(d, b, LAMBDA t : Rope(PosOf(t), Row(d, b, t)))
kQ35StoreKV(d, cache) ==
    Stored(cache, [t \in Tokens |-> Row(d, "k", t)], [t \in Tokens |-> Row(d, "v", t)])
kQ35SigmoidGate(d) ==
    Each(d, "attnOut", LAMBDA t : Times(Row(d, "attnOut", t), Sigmoid(Part("gate", Row(d, "q35QGate", t)))))
HybridAttention ==
    /\ Stage("hybrid", "attention")
    /\ LET n == kQ35HeadRmsNorm(kQ35HeadRmsNorm2(QueryKeyValue(dev)))
           d == kQ35MRoPE(kQ35MRoPE(n, "q"), "k")
           cache == kQ35StoreKV(d, kv[kvLayerOffset(pass.L)])
           out(t) == Attention(Row(d, "q", t), KeysTo(cache, PosOf(t)), ValuesTo(cache, PosOf(t)))
       IN  /\ kv' = [kv EXCEPT ![kvLayerOffset(pass.L)] = cache]
           /\ dev' = gemv(kQ35SigmoidGate(Each(d, "attnOut", out)), "attnO", "attnOut", "attnProj")
    /\ Goto("ffn")
    /\ UNCHANGED <<c, host, rec, kvPos, logits>>

HybridFFN ==
    /\ Stage("hybrid", "ffn") /\ ~c.moe
    /\ LET d == kRMSNormRow(kAddResidual(dev, "attnProj"), "postAttnNorm")
           g == kSiluMul(gemv(gemv(d, "ffnGate", "norm", "gate"), "ffnUp", "norm", "up"))
       IN  dev' = kAddResidual(gemv(g, "ffnDown", "gate", "ffnOut"), "ffnOut")
    /\ Goto("out")
    /\ UNCHANGED <<c, host, kv, rec, kvPos, logits>>

HybridGPU ==
    \/ HybridNorm \/ RecurrentProjections \/ Recurrence \/ HybridAttention \/ HybridFFN

-----------------------------------------------------------------------------
(* Both decoders: the embedding that starts the pass and the head.          *)

\* The kernel that decodes an embedding row, by type; a row of another format
\* comes out garbled.
EmbedKernel(type) ==
    CASE type \in {"F16", "Q8_0", "IQ4_NL", "Q4_K", "Q5_K"} -> type
      [] type = "Q5_0" -> IF c.arch = "qwen35" THEN "Q5_K" ELSE "Q5_0"
      [] type = "IQ3_S" /\ c.arch # "qwen35" -> "IQ3_S"
      [] type = "PQ2_0" /\ c.arch = "qwen35" /\ ~c.moe -> "PQ2_0"
      [] OTHER -> "Q2_K"
EmbedRow(p) == IF EmbedKernel(Type("embed")) = Type("embed") THEN Embed(Token(p))
               ELSE <<"garbled", Token(p)>>
EmbedTokens(d) == Each(d, "hidden", LAMBDA t : EmbedRow(PosOf(t)))

\* The rows of logits of a pass: all of them, or the last in row 1.
LogitRowsFirst == IF pass.all THEN Tokens ELSE {1}      \* mutant
LogitRows == IF pass.all THEN Tokens ELSE {pass.T}
headRow(d, t) ==
    LET folded == c.prism /\ Type("lmHead") = "PQ2_0"
        x == IF folded THEN Fold(FALSE, Row(d, "hidden", t)) ELSE Row(d, "hidden", t)
    IN  IF t \in LogitRows
        THEN launchQGemv(d, Weight(0, "lmHead"), Type("lmHead"), c.hidden, x, "logits", t) ELSE d
HeadOf(d) ==
    FoldLeft(headRow, Each(d, "hidden", LAMBDA t : Norm(Weight(0, "finalNorm"), Row(d, "hidden", t))),
             [t \in Tokens |-> t])
=============================================================================
