----------------------------- MODULE LayerTerms -----------------------------
(* What a layer computes, as a term: a tuple <<operation, operands...>>    *)
(* over the weights and the row <<"x", L, p>> that enters layer L for the  *)
(* token at position p.  The reference against which the engines of        *)
(* LayersGPU and LayersCPU are checked; rounding is not part of a term.    *)
EXTENDS Naturals, Sequences, SequencesExt

Weight(L, name) == <<"weight", L, name>>
X(L, p) == <<"x", L, p>>                 \* the row of token p entering layer L
Token(p) == <<"token", p>>               \* the token at position p
Junk == <<"junk">>                       \* memory nobody has written
Zeros == <<"zeros">>

Embed(token) == <<"embed", token>>
Mul(w, x) == <<"mul", w, x>>
Norm(w, x) == <<"norm", w, x>>
Plus(x, y) == <<"plus", x, y>>
Bias(w, x) == <<"bias", w, x>>
Scale(w, x) == <<"scale", w, x>>
Rope(p, x) == <<"rope", p, x>>
Silu(x) == <<"silu", x>>
Gelu(x) == <<"gelu", x>>
Times(x, y) == <<"times", x, y>>
Sigmoid(x) == <<"sigmoid", x>>
Attention(q, keys, values) == <<"attention", q, keys, values>>
Part(n, x) == <<"part", n, x>>           \* the query or the gate half of a row
Conv(w, window, x) == <<"conv", w, window, x>>
Unit(n, x) == <<"unit", n, x>>           \* L2 norm of the q, k or v of a row
Softplus(w, x) == <<"softplus", w, x>>
Delta(S, k, v, beta, gate) == <<"delta", S, k, v, beta, gate>>
Read(S, q) == <<"read", S, q>>
Cap(x) == <<"tanh", x>>
Fold(perm, x) == <<"fold", perm, x>>     \* the Prism transform of a row
RouteWeight(r, scores) == <<"route", r, scores>>   \* weight of the expert of rank r

-----------------------------------------------------------------------------
(* c is the configuration: arch "qwen2", "gemma4" or "qwen35", biases and  *)
(* optional weights present (has), moe, interval of full attention.         *)

Has(c, name) == name \in c.has
Recurrent(c, L) == c.arch = "qwen35" /\ (L % c.interval) # 0

\* The value of a projection of x, with its bias.
Projected(c, L, name, bias, x) ==
    LET y == Mul(Weight(L, name), x)
    IN  IF Has(c, bias) THEN Bias(Weight(L, bias), y) ELSE y

AttnIn(L, p) == Norm(Weight(L, "rmsNormAttn"), X(L, p))

\* A head norm of Q or K, where the architecture has one.
HeadNorm(c, L, name, x) == IF Has(c, name) THEN Norm(Weight(L, name), x) ELSE x

KeyOf(c, L, p) ==
    Rope(p, HeadNorm(c, L, "attnKNorm", Projected(c, L, "attnK", "attnKBias", AttnIn(L, p))))
ValueOf(c, L, p) == Projected(c, L, "attnV", "attnVBias", AttnIn(L, p))
Keys(c, L, p) == [i \in 1..(p + 1) |-> KeyOf(c, L, i - 1)]
Values(c, L, p) == [i \in 1..(p + 1) |-> ValueOf(c, L, i - 1)]

QueryOf(c, L, p) ==
    LET y == Projected(c, L, "attnQ", "attnQBias", AttnIn(L, p))
        half == IF c.arch = "qwen35" THEN Part("query", y) ELSE y
    IN  Rope(p, HeadNorm(c, L, "attnQNorm", half))

Attended(c, L, p) ==
    LET a == Attention(QueryOf(c, L, p), Keys(c, L, p), Values(c, L, p))
    IN  IF c.arch # "qwen35" THEN a
        ELSE Times(a, Sigmoid(Part("gate", Mul(Weight(L, "attnQ"), AttnIn(L, p)))))

\* The recurrent layer: a convolution over the last tokens, and the state of
\* the gated delta rule, both advanced once per token in order.
QKVOf(L, p) == Mul(Weight(L, "attnQKV"), AttnIn(L, p))
Window(c, L, p) == [i \in 1..(c.convK - 1) |->
                       IF p - c.convK + i >= 0 THEN QKVOf(L, p - c.convK + i) ELSE Zeros]
Convolved(c, L, p) == Silu(Conv(Weight(L, "ssmConv1d"), Window(c, L, p), QKVOf(L, p)))
BetaOf(L, p) == Sigmoid(Mul(Weight(L, "ssmBeta"), AttnIn(L, p)))
GateOf(L, p) == Softplus(Weight(L, "ssmA"), Mul(Weight(L, "ssmAlpha"), AttnIn(L, p)))
StateStep(S, p, at) ==
    LET y == Convolved(at.config, at.layer, p)
    IN  Delta(S, Unit("k", y), Unit("v", y), BetaOf(at.layer, p), GateOf(at.layer, p))
StateAt(c, L, n) ==
    FoldLeft(LAMBDA S, p : StateStep(S, p, [config |-> c, layer |-> L]), Zeros, [m \in 1..n |-> m - 1])
Recurred(c, L, p) ==
    Times(Norm(Weight(L, "ssmNorm"), Read(StateAt(c, L, p + 1), Unit("q", Convolved(c, L, p)))),
          Silu(Mul(Weight(L, "attnGate"), AttnIn(L, p))))

\* The row after the attention block and its residual.
Mixed(c, L, p) ==
    LET y == IF Recurrent(c, L) THEN Mul(Weight(L, "ssmOut"), Recurred(c, L, p))
             ELSE Mul(Weight(L, "attnO"), Attended(c, L, p))
        r == Plus(X(L, p), y)
        n == IF Has(c, "attnPostNorm") THEN Norm(Weight(L, "attnPostNorm"), r) ELSE r
    IN  IF Has(c, "attnPostNorm") /\ Has(c, "scale") THEN Scale(Weight(L, "scale"), n) ELSE n

Activated(arch, g, u) == Times(IF arch = "gemma4" THEN Gelu(g) ELSE Silu(g), u)
Gated(L, arch, x) ==
    Mul(Weight(L, "ffnDown"),
        Activated(arch, Mul(Weight(L, "ffnGate"), x), Mul(Weight(L, "ffnUp"), x)))

\* A mixture of experts.  Which experts the router's scores rank highest is
\* data of the session (c.route, by position); the weighted rows are summed in
\* rank order, and an expert shared by all tokens comes last.
Route(c, p) == c.route[p + 1]
Expert(arch, L, e, x) ==
    Mul(Weight(L, <<"down", e>>),
        Activated(arch, Mul(Weight(L, <<"gate", e>>), x), Mul(Weight(L, <<"up", e>>), x)))
RankTerm(c, L, p, x, r) ==
    Times(RouteWeight(r, Mul(Weight(L, "ffnGateInp"), x)), Expert(c.arch, L, Route(c, p)[r], x))
Routed(c, L, p, x) ==
    FoldLeft(LAMBDA acc, r : Plus(acc, RankTerm(c, L, p, x, r)), Zeros,
             [r \in 1..Len(Route(c, p)) |-> r])
Shared(L, x) ==
    Times(Sigmoid(Mul(Weight(L, "ffnGateInpShexp"), x)),
          Mul(Weight(L, "ffnDownShexp"),
              Times(Silu(Mul(Weight(L, "ffnGateShexp"), x)), Mul(Weight(L, "ffnUpShexp"), x))))
Mixture(c, L, p, x) ==
    IF c.arch = "qwen35" THEN Plus(Routed(c, L, p, x), Shared(L, x))
    ELSE Norm(Weight(L, "postFFWNorm2"),
              Norm(Weight(L, "postFFWNorm1"), Routed(c, L, p, Norm(Weight(L, "preFFWNorm2"), x))))

\* The row the feed-forward block starts from.
FfnNorm(c) == IF c.arch = "qwen35" THEN "postAttnNorm" ELSE "rmsNormFFN"
FfnIn(c, L, p) == Norm(Weight(L, FfnNorm(c)), Mixed(c, L, p))
FfnOut(c, L, p) ==
    IF c.moe THEN Mixture(c, L, p, FfnIn(c, L, p)) ELSE Gated(L, c.arch, FfnIn(c, L, p))

\* The row that leaves layer L.
Layer(c, L, p) ==
    LET r == Plus(Mixed(c, L, p), FfnOut(c, L, p))
        n == IF Has(c, "postFFWNorm") /\ ~c.moe THEN Norm(Weight(L, "postFFWNorm"), r) ELSE r
    IN  IF Has(c, "scale") /\ (Has(c, "postFFWNorm") \/ c.moe)
        THEN Scale(Weight(L, "scale"), n) ELSE n

\* The logits of the token at position p after layer N.
LogitsOf(c, N, p) ==
    LET y == Mul(Weight(0, "lmHead"), Norm(Weight(0, "finalNorm"), X(N + 1, p)))
    IN  IF Has(c, "softcap") THEN Cap(y) ELSE y
=============================================================================
