----------------------------- MODULE ExpertsCPU -----------------------------
(* The mixture of experts on the host (ModelMoE.cpp): the router, the      *)
(* routed experts token by token or grouped by expert, the experts that    *)
(* are not resident on the device, and the shared expert.                   *)
EXTENDS LayerState

W(name) == Weight(pass.L, name)
Ranks == 1..Len(c.route[1])
InOrder(S) == SetToSortSeq(S, <)

\* The experts of a layer are stacked in one matrix; slice i of a stack of
\* gate and up rows together holds the gate or the up rows of expert i / 2.
Slice(stack, i) ==
    CASE stack = "ffnGateUpExps" -> W(<<IF i % 2 = 0 THEN "gate" ELSE "up", i \div 2>>)
      [] stack = "ffnGateExps" -> W(<<"gate", i>>)
      [] stack = "ffnUpExps" -> W(<<"up", i>>)
      [] stack = "ffnDownExps" -> W(<<"down", i>>)
gateRows(e) == IF c.fused THEN Slice("ffnGateUpExps", 2 * e) ELSE Slice("ffnGateExps", e)
upRows(e) == IF c.fused THEN Slice("ffnGateUpExps", 2 * e + 1) ELSE Slice("ffnUpExps", e)
downRows(e) == Slice("ffnDownExps", e)
SwiGLU(g, u) == Times(Silu(g), u)
expertRow(e, x) == Mul(downRows(e), SwiGLU(Mul(gateRows(e), x), Mul(upRows(e), x)))

\* acc + the weighted rows of the ranks, in rank order.
SumOfRanks(rankRow(_)) ==
    FoldLeft(LAMBDA acc, r : Plus(acc, rankRow(r)), Zeros, [r \in Ranks |-> r])

\* Gemma 4: raw scores as weights, GELU, norms before and after.
computeGemma4MoE(t) ==
    LET x == Norm(W("preFFWNorm2"), Row(host, "ffnNorm", t))
        idx == Route(c, PosOf(t))
        row(e) == Mul(downRows(e), Times(Gelu(Mul(Slice("ffnGateUpExps", 2 * e), x)),
                                         Mul(Slice("ffnGateUpExps", 2 * e + 1), x)))
        out == SumOfRanks(LAMBDA r : Times(RouteWeight(r, Mul(W("ffnGateInp"), x)), row(idx[r])))
    IN  Norm(W("postFFWNorm2"), Norm(W("postFFWNorm1"), out))

\* Softmax over all experts, the highest ranks, their weights normalised.
router(x, t) == [idx |-> Route(c, PosOf(t)),
                 wgt |-> [r \in Ranks |-> RouteWeight(r, Mul(W("ffnGateInp"), x))]]

computeQwen35MoE(x, t) ==
    LET s == router(x, t)
        routed == SumOfRanks(LAMBDA r : Times(s.wgt[r], expertRow(s.idx[r], x)))
        shared == Mul(W("ffnDownShexp"), SwiGLU(Mul(W("ffnGateShexp"), x), Mul(W("ffnUpShexp"), x)))
    IN  Plus(routed, Times(Sigmoid(Mul(W("ffnGateInpShexp"), x)), shared))

\* The callback of the device engine: tables by token and rank ...
computeQwen35MoERouterOnly(h, x) ==
    [h EXCEPT !.moeRouterIdx = [t \in Tokens |-> router(x[t], t).idx],
              !.moeRouterWgt = [t \in Tokens |-> router(x[t], t).wgt]]

\* ... the unweighted rows, rank-major, of the experts the device lacks ...
computeQwen35MoENonResident(x, idx, resident) ==
    [r \in Ranks |-> [t \in Tokens |->
        IF idx[t][r] \in resident THEN Zeros ELSE expertRow(idx[t][r], x[t])]]

\* ... or all of them: tokens gathered by expert, one product per expert, the
\* weighted rows scattered to their token and rank and summed in rank order.
Members(tables, e) ==
    LET at == {n \in 0..(pass.T * Len(c.route[1]) - 1) :
                   tables[(n \div Len(c.route[1])) + 1].idx[(n % Len(c.route[1])) + 1] = e}
    IN  [m \in 1..Cardinality(at) |-> LET n == InOrder(at)[m]
                                      IN  <<(n \div Len(c.route[1])) + 1, (n % Len(c.route[1])) + 1>>]
routeBatch(e, grpX) == [m \in DOMAIN grpX |-> expertRow(e, grpX[m])]
computeQwen35MoEFromLogits(x) ==
    LET tables == [t \in Tokens |-> router(x[t], t)]
        group(partial, e) ==
            LET members == Members(tables, e)
                grpD == routeBatch(e, [m \in DOMAIN members |-> x[members[m][1]]])
                scatter(p, m) == [p EXCEPT ![members[m][1]][members[m][2]] =
                                      Times(tables[members[m][1]].wgt[members[m][2]], grpD[m])]
            IN  FoldLeft(scatter, partial, [m \in DOMAIN members |-> m])
        partial == FoldLeft(group, [t \in Tokens |-> [r \in Ranks |-> Zeros]], InOrder(c.experts))
    IN  [t \in Tokens |-> SumOfRanks(LAMBDA r : partial[t][r])]
=============================================================================
