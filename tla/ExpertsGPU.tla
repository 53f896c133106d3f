----------------------------- MODULE ExpertsGPU -----------------------------
(* The mixture of experts of the device engine (forwardQwen35MoePrefix):   *)
(* all of it on the device, or the router on the host through a callback   *)
(* and the experts on the device (cache or resident arenas), on the host,  *)
(* or on both.  The slots of the cache are ExpertCache's; here an expert's *)
(* weights are in place when its product is launched.                       *)
EXTENDS LayersHybridGPU, ExpertsCPU

FfnInput(d) == kRMSNormRow(kAddResidual(d, "attnProj"), "postAttnNorm")

\* gemv of this engine: one launchQGemv per row, for every type.
oneRow(d, t, m) == launchQGemv(d, m.w, m.type, m.blocks, Row(d, m.from, t), m.to, t)
Rows(d, w, type, blocks, from, to) ==
    FoldLeft(LAMBDA e, t : oneRow(e, t, [w |-> w, type |-> type, blocks |-> blocks,
                                         from |-> from, to |-> to]), d, [t \in Tokens |-> t])
kSiluMulRows(d, g, u) == Each(d, g, LAMBDA t : SwiGLU(Row(d, g, t), Row(d, u, t)))

sharedExpert(d) ==
    LET gate == Each(d, "moeShexpGate", LAMBDA t : Sigmoid(Mul(W("ffnGateInpShexp"), Row(d, "norm", t))))
        g == Rows(gate, W("ffnGateShexp"), Type("shexp"), c.hidden, "norm", "moeShexpGateUp")
        u == Rows(g, W("ffnUpShexp"), Type("shexp"), c.hidden, "norm", "moeShexpGateUp2")
    IN  Rows(kSiluMulRows(u, "moeShexpGateUp", "moeShexpGateUp2"), W("ffnDownShexp"), Type("shexp"),
             c.expertFF, "moeShexpGateUp", "moeShexpDown")
kAddScaled(d) ==
    Each(d, "moeExpertOut", LAMBDA t : Plus(Row(d, "moeExpertOut", t),
                                            Times(Row(d, "moeShexpGate", t), Row(d, "moeShexpDown", t))))
Cleared(d) == Each(d, "moeExpertOut", LAMBDA t : Zeros)
kQ35MoeAccumScaled(d, r, src(_)) ==
    Each(d, "moeExpertOut", LAMBDA t : Plus(Row(d, "moeExpertOut", t), Times(d.moeWgt[t][r], src(t))))

-----------------------------------------------------------------------------
(* One rank of the generic loop, for the whole batch when its tokens chose *)
(* the same expert, token by token otherwise.                               *)

SameExpert(idx, r) == \A t \in Tokens : idx[t][r] = idx[1][r]
rankBatch(d, e, r) ==
    LET g == Rows(d, W(<<"gate", e>>), Type("expertGate"), c.hidden, "norm", "moeGateUp")
        u == Rows(g, W(<<"up", e>>), Type("expertGate"), c.hidden, "norm", "moeGateUp2")
        y == Rows(kSiluMulRows(u, "moeGateUp", "moeGateUp2"), W(<<"down", e>>), Type("expertDown"),
                  c.expertFF, "moeGateUp", "moeDown")
    IN  kQ35MoeAccumScaled(y, r, LAMBDA t : Row(y, "moeDown", t))
rankToken(d, e, wgt, t) ==
    LET g == launchQGemv(d, W(<<"gate", e>>), Type("expertGate"), c.hidden, Row(d, "norm", t), "moeGateUp", t)
        u == launchQGemv(g, W(<<"up", e>>), Type("expertGate"), c.hidden, Row(g, "norm", t), "moeGateUp2", t)
        a == Put(u, "moeGateUp", t, SwiGLU(Row(u, "moeGateUp", t), Row(u, "moeGateUp2", t)))
        y == launchQGemv(a, W(<<"down", e>>), Type("expertDown"), c.expertFF, Row(a, "moeGateUp", t), "moeDown", t)
    IN  Put(y, "moeExpertOut", t, Plus(Row(y, "moeExpertOut", t), Times(wgt, Row(y, "moeDown", t))))
rankOf(d, t, m) == rankToken(d, m.idx[t][m.r], m.wgt[t][m.r], t)
genericRank(d, r, m) ==
    IF SameExpert(m.idx, r) THEN rankBatch(d, m.idx[1][r], r)
    ELSE FoldLeft(LAMBDA e, t : rankOf(e, t, [idx |-> m.idx, wgt |-> m.wgt, r |-> r]), d,
                  [t \in Tokens |-> t])
perRank(d, idx, wgt) ==
    FoldLeft(LAMBDA e, r : genericRank(e, r, [idx |-> idx, wgt |-> wgt]), d, [r \in Ranks |-> r])

-----------------------------------------------------------------------------
(* A decode step with Q8_0 experts quantizes the norm once, into q8kN_; the *)
(* operand of the down matrix goes to q8k_ or to a row per rank.            *)

launchQuantQ8_0x32(x) == Coded("q80", x)
FastPath == pass.T = 1 /\ Type("expertGate") = "Q8_0" /\ ~On("MOE_SLOW")
fastRank(d, r, idx) ==
    LET e == idx[r]
        glu == SwiGLU(Dot(W(<<"gate", e>>), "q80", d.q8kN), Dot(W(<<"up", e>>), "q80", d.q8kN))
        q == [Put(d, "moeGateUp", 1, glu) EXCEPT !.q8k.row = launchQuantQ8_0x32(glu)]
        y == Put(q, "moeDown", 1, Dot(W(<<"down", e>>), "q80", q.q8k.row))
    IN  kQ35MoeAccumScaled(y, r, LAMBDA t : Row(y, "moeDown", t))
\* All ranks in one launch of each kernel.
fastDown(d, r, m) ==
    LET gateUpP == SwiGLU(Dot(W(<<"gate", m.idx[r]>>), "q80", m.x), Dot(W(<<"up", m.idx[r]>>), "q80", m.x))
        downP == Dot(W(<<"down", m.idx[r]>>), "q80", launchQuantQ8_0x32(gateUpP))
    IN  kQ35MoeAccumScaled(d, r, LAMBDA t : downP)
fastBatch(d, idx) ==
    FoldLeft(LAMBDA e, r : fastDown(e, r, [idx |-> idx, x |-> d.q8kN]), d, [r \in Ranks |-> r])

\* The resident ranks of a decode step, in a compact list with their rank, into
\* their rows of the rank-major table the host has filled for the others.
ResidentFormat == IF Type("expertGate") = "Q4_K" THEN "q8k" ELSE "q80"
downR(d, r, idx) ==
    LET gu == SwiGLU(Dot(W(<<"gate", idx[r]>>), ResidentFormat, d.q8kN),
                     Dot(W(<<"up", idx[r]>>), ResidentFormat, d.q8kN))
    IN  [d EXCEPT !.moeDownTable[r][1] =
            Dot(W(<<"down", idx[r]>>), ResidentFormat, Coded(ResidentFormat, gu))]
listed(ranks, r, idx) == IF idx[r] \in c.resident THEN Append(ranks, r) ELSE ranks
scheduleResidentExperts(d, idx) ==
    LET ranks == FoldLeft(LAMBDA l, r : listed(l, r, idx), <<>>, [r \in Ranks |-> r])
        q == [d EXCEPT !.q8kN = Coded(ResidentFormat, Row(d, "norm", 1))]
    IN  IF ranks = <<>> THEN d ELSE FoldLeft(LAMBDA e, r : downR(e, r, idx), q, ranks)

-----------------------------------------------------------------------------

\* All on the device: the router kernel's choice comes back to the host, which
\* launches the experts.
ExpertsOnDevice ==
    /\ Stage("hybrid", "ffn") /\ c.moe /\ ~c.moeCpuFn
    /\ LET n == Rows(FfnInput(dev), W("ffnGateInp"), "F32", c.hidden, "norm", "moeLogits")
           idx == [t \in Tokens |-> Route(c, PosOf(t))]
           wgt == [t \in Tokens |-> [r \in Ranks |-> RouteWeight(r, Row(n, "moeLogits", t))]]
           d == perRank(Cleared([n EXCEPT !.moeWgt = wgt]), idx, wgt)
       IN  dev' = kAddResidual(kAddScaled(sharedExpert(d)), "moeExpertOut")
    /\ Goto("out")
    /\ UNCHANGED <<c, host, kv, rec, kvPos, logits>>

\* The norm goes to the host, and the shared expert runs meanwhile.
HandOff ==
    /\ Stage("hybrid", "ffn") /\ c.moe /\ c.moeCpuFn
    /\ LET n == FfnInput(dev)
       IN  /\ dev' = sharedExpert(n)
           /\ host' = [host EXCEPT !.moeNorm[host.moeBufFlip] =
                           [t \in Slots |-> IF t \in Tokens THEN Row(n, "norm", t) ELSE @[t]]]
    /\ Goto("callback")
    /\ UNCHANGED <<c, kv, rec, kvPos, logits>>

\* The resident experts serve decode steps only.
residentOn == c.resident # {} /\ pass.T = 1 /\ ~On("MOE_FALLBACK")
cacheOn == c.expertCacheBuilt /\ ~On("MOE_FALLBACK")
moeCpuFn ==
    /\ Stage("hybrid", "callback")
    /\ LET x == host.moeNorm[host.moeBufFlip]
           h == computeQwen35MoERouterOnly(host, x)
           table == computeQwen35MoENonResident(x, h.moeRouterIdx, c.resident)
           full == [host EXCEPT !.moeFfnOut[host.moeBufFlip] = computeQwen35MoEFromLogits(x)]
       IN  host' = CASE residentOn -> [h EXCEPT !.moeDownTable[host.moeBufFlip] = table]
                     [] ~residentOn /\ cacheOn -> h
                     [] OTHER -> full
    /\ Goto("ranks")
    /\ UNCHANGED <<c, dev, kv, rec, kvPos, logits>>

\* moeAddShared, the residual and the other mirror for the next layer.
AddShared(d) ==
    /\ dev' = kAddResidual(kAddScaled(d), "moeExpertOut")
    /\ host' = [host EXCEPT !.moeBufFlip = 1 - @]
    /\ Goto("out")
    /\ UNCHANGED <<c, kv, rec, kvPos, logits>>

residentRank(d, r) == kQ35MoeAccumScaled(d, r, LAMBDA t : d.moeDownTable[r][t])
ResidentRanks ==
    /\ Stage("hybrid", "ranks") /\ residentOn
    /\ LET d == [Cleared(dev) EXCEPT !.moeDownTable = host.moeDownTable[host.moeBufFlip],
                                     !.moeWgt = host.moeRouterWgt]
           e == scheduleResidentExperts(d, host.moeRouterIdx[1])
       IN  AddShared(FoldLeft(residentRank, e, [r \in Ranks |-> r]))

\* Through the cache.  The launch of all ranks at once gives way to one rank at
\* a time when two experts would share a slot of the cache.
CachedRanks ==
    /\ Stage("hybrid", "ranks") /\ ~residentOn /\ cacheOn
    /\ \E moeSlotConflict \in BOOLEAN :
           LET d == [Cleared(dev) EXCEPT !.moeWgt = host.moeRouterWgt]
               q == [d EXCEPT !.q8kN = launchQuantQ8_0x32(Row(d, "norm", 1))]
               idx == host.moeRouterIdx
           IN  AddShared(CASE FastPath /\ ~moeSlotConflict -> fastBatch(q, idx[1])
                           [] FastPath /\ moeSlotConflict ->
                                FoldLeft(LAMBDA e, r : fastRank(e, r, idx[1]), q, [r \in Ranks |-> r])
                           [] OTHER -> perRank(d, idx, host.moeRouterWgt))

\* The host has computed the routed rows.
HostRanks ==
    /\ Stage("hybrid", "ranks") /\ ~residentOn /\ ~cacheOn
    /\ AddShared(PutAll(dev, "moeExpertOut", host.moeFfnOut[host.moeBufFlip]))

ExpertsNext ==
    \/ ExpertsOnDevice \/ HandOff \/ moeCpuFn \/ ResidentRanks \/ CachedRanks \/ HostRanks
=============================================================================
