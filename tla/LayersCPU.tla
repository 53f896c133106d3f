------------------------------ MODULE LayersCPU ------------------------------
(* The layers on the host: the dense and Gemma 4 decoder of Model::forward *)
(* and the hybrid layers of ModelQwen35.cpp.                                *)
EXTENDS ExpertsCPU

rmsNorm(h, weight, from, to) == Each(h, to, LAMBDA t : Norm(W(weight), Row(h, from, t)))
add(h, from) == Each(h, "hidden", LAMBDA t : Plus(Row(h, "hidden", t), Row(h, from, t)))
scaled(x) == IF Has(c, "scale") THEN Scale(W("scale"), x) ELSE x

\* The products by matrix type: a batch kernel over the file's blocks, or the
\* half-precision copy made at load.  All yield the same row.
Product0(name, x) == Mul(W(name), x)
matMulVecBatch(h, name, from, to) == Each(h, to, LAMBDA t : Product0(name, Row(h, from, t)))
addBias(h, b, name) == IF Has(c, name) THEN Each(h, b, LAMBDA t : Bias(W(name), Row(h, b, t))) ELSE h

-----------------------------------------------------------------------------
(* Dense and Gemma 4.                                                      *)

HostNorm ==
    /\ Stage("cpu", "norm")
    /\ host' = rmsNorm(host, "rmsNormAttn", "hidden", "attnNorm")
    /\ Goto("qkv")
    /\ UNCHANGED <<c, dev, kv, rec, kvPos, logits>>

\* A prefill adds whatever biases there are, a decode step those of Qwen2.
HostQKV ==
    /\ Stage("cpu", "qkv")
    /\ LET h == matMulVecBatch(matMulVecBatch(matMulVecBatch(host, "attnQ", "attnNorm", "q"),
                                              "attnK", "attnNorm", "k"), "attnV", "attnNorm", "v")
       IN  host' = IF pass.T > 1 \/ c.arch = "qwen2"
                   THEN addBias(addBias(addBias(h, "q", "attnQBias"), "k", "attnKBias"),
                                "v", "attnVBias")
                   ELSE h
    /\ Goto("attention")
    /\ UNCHANGED <<c, dev, kv, rec, kvPos, logits>>

\* Head norms of Gemma 4, then Q rotated in place and K as it is stored.
HostAttention ==
    /\ Stage("cpu", "attention")
    /\ LET normed == c.arch = "gemma4" /\ {"attnQNorm", "attnKNorm"} \subseteq c.has
           applyQKNorms(name, x) == IF normed THEN Norm(W(name), x) ELSE x
           q(t) == Rope(PosOf(t), applyQKNorms("attnQNorm", Row(host, "q", t)))
           k == [t \in Tokens |-> Rope(PosOf(t), applyQKNorms("attnKNorm", Row(host, "k", t)))]
           cache == Stored(kv[pass.L], k, [t \in Tokens |-> Row(host, "v", t)])
       IN  /\ kv' = [kv EXCEPT ![pass.L] = cache]
           /\ host' = Each(Each(host, "q", q), "attnOut", LAMBDA t :
                           Attention(q(t), KeysTo(cache, PosOf(t)), ValuesTo(cache, PosOf(t))))
    /\ Goto("attnO")
    /\ UNCHANGED <<c, dev, rec, kvPos, logits>>

\* The Q3_K kernel of a decode step adds to hidden itself; the others write
\* attnProj.  Gemma 4 norms and scales the sum.
attnResidualFused == pass.T = 1 /\ Type("attnO") = "Q3_K"
HostAttnO ==
    /\ Stage("cpu", "attnO")
    /\ LET x(t) == Product0("attnO", Row(host, "attnOut", t))
           h == IF attnResidualFused
                THEN Each(host, "hidden", LAMBDA t : Plus(Row(host, "hidden", t), x(t)))
                ELSE Each(host, "attnProj", x)
           post == Each(add(h, "attnProj"), "hidden", LAMBDA t :
                        scaled(Norm(W("attnPostNorm"), Row(add(h, "attnProj"), "hidden", t))))
       IN  host' = CASE Has(c, "attnPostNorm") -> post
                     [] ~Has(c, "attnPostNorm") /\ attnResidualFused -> h
                     [] OTHER -> add(h, "attnProj")
    /\ Goto("ffn")
    /\ UNCHANGED <<c, dev, kv, rec, kvPos, logits>>

HostFfnNorm ==
    /\ Stage("cpu", "ffn")
    /\ host' = rmsNorm(host, "rmsNormFFN", "hidden", "ffnNorm")
    /\ Goto(IF c.moe THEN "experts" ELSE IF pass.T > 1 THEN "prefillFfn" ELSE "decodeFfn")
    /\ UNCHANGED <<c, dev, kv, rec, kvPos, logits>>

\* The routed block of Gemma 4.
HostExperts ==
    /\ Stage("cpu", "experts")
    /\ LET h == Each(host, "ffnOut", computeGemma4MoE)
       IN  host' = Each(add(h, "ffnOut"), "hidden", LAMBDA t : scaled(Row(add(h, "ffnOut"), "hidden", t)))
    /\ Goto("out")
    /\ UNCHANGED <<c, dev, kv, rec, kvPos, logits>>

\* gate becomes the activated row where the route applies the activation; up
\* keeps the raw projection.
GateUpRows(h, applied) ==
    LET g(t) == Product0("ffnGate", Row(h, "ffnNorm", t))
        u(t) == Product0("ffnUp", Row(h, "ffnNorm", t))
    IN  Each(Each(h, "up", u), "gate", LAMBDA t : IF applied THEN Times(Silu(g(t)), u(t)) ELSE g(t))
SameType == Type("ffnGate") = Type("ffnUp")
\* One row: the route for matrices of two types leaves out the activation.
matMulVecFusedGateUp(h, applySwish) == GateUpRows(h, applySwish /\ SameType)
\* A batch: so does the route for prepacked rows with an incomplete block.
matMulVecFusedGateUp_Batch(h, applySwish) ==
    GateUpRows(h, applySwish /\ (SameType /\ Type("ffnGate") = "Q2_K" => c.whole))
gelu(h) == Each(h, "gate", LAMBDA t : Times(Gelu(Row(h, "gate", t)), Row(h, "up", t)))
GatedRows(h, FusedGateUp(_, _)) ==
    IF c.arch = "gemma4" THEN gelu(FusedGateUp(h, FALSE)) ELSE FusedGateUp(h, TRUE)
PostFFW(h) ==
    IF Has(c, "postFFWNorm")
    THEN Each(h, "hidden", LAMBDA t : scaled(Norm(W("postFFWNorm"), Row(h, "hidden", t)))) ELSE h

HostPrefillFfn ==
    /\ Stage("cpu", "prefillFfn")
    /\ host' = PostFFW(add(matMulVecBatch(GatedRows(host, matMulVecFusedGateUp_Batch), "ffnDown", "gate", "ffnOut"), "ffnOut"))
    /\ Goto("out")
    /\ UNCHANGED <<c, dev, kv, rec, kvPos, logits>>

\* One token: Gemma 4 stops after the activation; Q2_K, Q2_K, Q3_K go through
\* one kernel that adds to hidden; the rest as in a prefill.
FusedGateUpDown == {Type("ffnGate"), Type("ffnUp")} = {"Q2_K"} /\ Type("ffnDown") = "Q3_K"
HostDecodeFfn ==
    /\ Stage("cpu", "decodeFfn")
    /\ LET glu == Times(Silu(Product0("ffnGate", Row(host, "ffnNorm", 1))),
                        Product0("ffnUp", Row(host, "ffnNorm", 1)))
           fused == Put(host, "hidden", 1, Plus(Row(host, "hidden", 1), Product0("ffnDown", glu)))
           h == GatedRows(host, matMulVecFusedGateUp)
       IN  host' = CASE c.arch = "gemma4" -> PostFFW(h)
                     [] c.arch # "gemma4" /\ FusedGateUpDown -> fused
                     [] OTHER -> add(matMulVecBatch(h, "ffnDown", "gate", "ffnOut"), "ffnOut")
    /\ Goto("out")
    /\ UNCHANGED <<c, dev, kv, rec, kvPos, logits>>

-----------------------------------------------------------------------------
(* The hybrid layers, token by token.  A Prism model folds the operand of  *)
(* every projection into one shared row; the file's rotated matrices want  *)
(* it so.                                                                  *)

applyPrismTransform(h, x, gdnPerm) == IF c.prism THEN Put(h, "prismAct", 1, Fold(gdnPerm, x)) ELSE h
Operand(h, x) == IF c.prism THEN Row(h, "prismAct", 1) ELSE x
matMulVec(name, x) ==
    IF c.prism /\ Type(name) = "PQ2_0" THEN RotatedMul(W(name), x) ELSE Mul(W(name), x)
\* Row t of from, through the matrices of names, to their rows t.
projectRow(h, i, m) == Put(h, m.rows[i][1], m.rows[i][2], matMulVec(m.names[i], m.x))
Project(h, x, names, rows) ==
    LET e == applyPrismTransform(h, x, names = <<"ssmOut">>)
        m == [names |-> names, rows |-> rows, x |-> Operand(e, x)]
    IN  FoldLeft(LAMBDA g, i : projectRow(g, i, m), e, [i \in 1..Len(names) |-> i])
EachToken(Step(_, _), m) == FoldLeft(Step, m, [t \in Tokens |-> t])

Q35Norm ==
    /\ Stage("q35cpu", "norm")
    /\ host' = rmsNorm(host, "rmsNormAttn", "hidden", "attnNorm")
    /\ Goto(IF Recurrent(c, pass.L) THEN "recurrent" ELSE "attention")
    /\ UNCHANGED <<c, dev, kv, rec, kvPos, logits>>

\* One token of a recurrent layer: projections, convolution over the window,
\* the shift of the window, the delta rule, the gated norm and ssmOut.  Beta
\* and alpha take the row unfolded.
ConvStep(m, t) ==
    LET x == Row(m.h, "attnNorm", t)
        p == Project(m.h, x, <<"attnQKV", "attnGate">>, <<<<"qkv", 1>>, <<"z", 1>>>>)
        b == Put(p, "beta", 1, Sigmoid(matMulVec("ssmBeta", x)))
        g == Put(b, "gateV", 1, Softplus(W("ssmA"), matMulVec("ssmAlpha", x)))
        y == Silu(Conv(W("ssmConv1d"), m.conv, Row(g, "qkv", 1)))
    IN  [m EXCEPT !.h = Put(g, "convOut", 1, y), !.conv = Append(Tail(m.conv), Row(g, "qkv", 1))]
GdnStep(m, t) ==
    LET y == Row(m.h, "convOut", 1)
        S == Delta(m.gdn, Unit("k", y), Unit("v", y), Row(m.h, "beta", 1), Row(m.h, "gateV", 1))
        n == Times(Norm(W("ssmNorm"), Read(S, Unit("q", y))), Silu(Row(m.h, "z", 1)))
    IN  [m EXCEPT !.gdn = S,
                  !.h = Project(Put(m.h, "normOut", 1, n), n, <<"ssmOut">>, <<<<"attnProj", t>>>>)]

RecurrentStep(m, t) == GdnStep(ConvStep(m, t), t)

forwardQwen35Recurrent ==
    /\ Stage("q35cpu", "recurrent")
    /\ LET m == EachToken(RecurrentStep,
                          [h |-> host, conv |-> rec[pass.L].conv, gdn |-> rec[pass.L].gdn])
       IN  /\ host' = add(m.h, "attnProj")
           /\ rec' = [rec EXCEPT ![pass.L] = [conv |-> m.conv, gdn |-> m.gdn]]
    /\ Goto("ffn")
    /\ UNCHANGED <<c, dev, kv, kvPos, logits>>

QkvRow(h, t) == Project(h, Row(h, "attnNorm", t), <<"attnQ", "attnK", "attnV">>,
                        <<<<"qGate", t>>, <<"k", t>>, <<"v", t>>>>)
OutRow(h, t) == Project(h, Row(h, "attnOut", t), <<"attnO">>, <<<<"attnProj", t>>>>)
forwardQwen35FullAttention ==
    /\ Stage("q35cpu", "attention")
    /\ LET p == EachToken(QkvRow, host)
           q(t) == Rope(PosOf(t), HeadNorm(c, pass.L, "attnQNorm", Part("query", Row(p, "qGate", t))))
           k == [t \in Tokens |-> Rope(PosOf(t), HeadNorm(c, pass.L, "attnKNorm", Row(p, "k", t)))]
           cache == Stored(kv[pass.L], k, [t \in Tokens |-> Row(p, "v", t)])
           gated(t) == Times(Attention(q(t), KeysTo(cache, PosOf(t)), ValuesTo(cache, PosOf(t))),
                             Sigmoid(Part("gate", Row(p, "qGate", t))))
           a == Each(PutAll(Each(p, "q", q), "k", k), "attnOut", gated)
       IN  /\ kv' = [kv EXCEPT ![pass.L] = cache]
           /\ host' = add(EachToken(OutRow, a), "attnProj")
    /\ Goto("ffn")
    /\ UNCHANGED <<c, dev, rec, kvPos, logits>>

\* The feed-forward block; a routed layer takes computeQwen35MoE.
FfnRow(h, t) ==
    LET x == Row(h, "ffnNorm", t)
        p == Project(h, x, <<"ffnGate", "ffnUp">>, <<<<"gate", t>>, <<"up", t>>>>)
        g == Times(Silu(Row(p, "gate", t)), Row(p, "up", t))
    IN  Project(Put(p, "gate", t, g), g, <<"ffnDown">>, <<<<"ffnOut", t>>>>)
Q35Ffn ==
    /\ Stage("q35cpu", "ffn")
    /\ LET n == rmsNorm(host, "postAttnNorm", "hidden", "ffnNorm")
       IN  host' = add(IF c.moe THEN Each(n, "ffnOut", LAMBDA t : computeQwen35MoE(Row(n, "ffnNorm", t), t))
                       ELSE EachToken(FfnRow, n), "ffnOut")
    /\ Goto("out")
    /\ UNCHANGED <<c, dev, kv, rec, kvPos, logits>>

HostLayers ==
    \/ HostNorm \/ HostQKV \/ HostAttention \/ HostAttnO \/ HostFfnNorm \/ HostExperts
    \/ HostPrefillFfn \/ HostDecodeFfn
    \/ Q35Norm \/ forwardQwen35Recurrent \/ forwardQwen35FullAttention \/ Q35Ffn

-----------------------------------------------------------------------------
(* The shared tail of Model::forward.  Every branch of the LM head yields  *)
(* the product; a folded head wants a folded row.                          *)

finalNorm(h) == Each(h, "hidden", LAMBDA t : Norm(Weight(0, "finalNorm"), Row(h, "hidden", t)))
foldedHead == c.prism /\ Type("lmHead") = "PQ2_0"
logitOf(h, t) ==
    LET x == Row(h, "hidden", t)
        y == IF foldedHead THEN RotatedMul(Weight(0, "lmHead"), Fold(FALSE, x))
             ELSE Mul(Weight(0, "lmHead"), x)
    IN  IF c.arch = "gemma4" /\ Has(c, "softcap") THEN Cap(y) ELSE y
logitStart == IF pass.all THEN 1 ELSE pass.T
HostHead(h) ==
    LET n == finalNorm(h)
    IN  PutAll(n, "logits", [t \in Tokens |-> IF t >= logitStart THEN logitOf(n, t)
                                              ELSE Row(n, "logits", t)])
=============================================================================
