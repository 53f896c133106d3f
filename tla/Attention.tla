------------------------------ MODULE Attention ------------------------------
(* Causal attention over the K/V cache, for one layer of a session: the    *)
(* rotation of Q and K, the rows stored, and the online softmax of each    *)
(* engine (one warp per head, the cache split over warps and merged, and   *)
(* the CPU's tiles).  A partial result is the running maximum m and the    *)
(* terms added so far, each with the exponent e its weight now has: the    *)
(* exponential of score - m is the integer score - m, and a product of     *)
(* exponentials is a sum of integers.                                      *)
EXTENDS Integers, SequencesExt, Bags

CONSTANTS Configs,        \* engines and settings
          Scores,         \* scores of the keys by position
          MaxSeqLen,      \* rows of the cache
          MaxBatch,       \* tokens of a prefill
          MaxSessions,    \* sessions, each cleared before the next
          Tile,           \* keys the CPU scores before it rescales (BLOCK)
          WideFrom        \* chunks from which eight warps combine

ASSUME SizesAssumption ==
    /\ MaxSeqLen \in Nat \ {0} /\ MaxBatch \in Nat \ {0} /\ MaxSessions \in Nat \ {0}
    /\ Tile \in Nat \ {0} /\ WideFrom \in Nat
    /\ \A c \in Configs : c.nKVHeads \in Nat \ {0} /\ c.chunk \in Nat \ {0}
\* Every K/V head serves the same number of query heads.
ASSUME HeadsAssumption ==
    \A c \in Configs :
       /\ c.subWarp \in Nat /\ c.split \in BOOLEAN
       /\ c.nHeads \in Nat \ {0} /\ c.nHeads % c.nKVHeads = 0
\* -1e30f is below every score.
ASSUME ScoresAssumption ==
    \A f \in Scores : f \in [0..(MaxSeqLen - 1) -> Int] /\ \A i \in 0..(MaxSeqLen - 1) : f[i] >= -1000

VARIABLES config, score,  \* the instance
          epoch, kvPos,   \* session, tokens consumed
          graphPos,       \* device scalar read by captured kernels
          pass,           \* tokens, captured or not, the kernel to run
          q, k,           \* position each token's Q (and K) is rotated to
          kCache, vCache, part, out,
          grid            \* blocks done, the one running, its warps and memory
vars == <<config, score, epoch, kvPos, graphPos, pass, q, k, kCache, vCache, part, out, grid>>

Rows == 0..(MaxSeqLen - 1)
KVHeads == 0..(config.nKVHeads - 1)
QHeads == 0..(config.nHeads - 1)
Tokens == 0..(pass.T - 1)
Raw == -1                 \* not rotated

Value(e, p, h) == [epoch |-> e, pos |-> p, head |-> h]
Key(e, p, h, rot) == [epoch |-> e, pos |-> p, head |-> h, rot |-> rot]
-----------------------------------------------------------------------------
(* Partial results.                                                        *)
Bottom == -1000           \* -1e30f
Nothing == [m |-> Bottom, l |-> EmptyBag, acc |-> EmptyBag]
Unset == [m |-> 0, l |-> SetToBag({[k |-> Key(-1, 0, 0, Raw), e |-> 0]}), acc |-> EmptyBag]

\* Every weight times the exponential of d.
Shift(terms, d) ==
    [t \in {[u EXCEPT !.e = @ + d] : u \in DOMAIN terms} |-> terms[[t EXCEPT !.e = @ - d]]]

Rescaled(p, M) == [m |-> M, l |-> Shift(p.l, p.m - M), acc |-> Shift(p.acc, p.m - M)]

Weigh(p, key, v) ==
    LET e == score[key.pos] - p.m
    IN  [m |-> p.m,
         l |-> p.l (+) SetToBag({[k |-> key, e |-> e]}),
         acc |-> p.acc (+) SetToBag({[k |-> key, v |-> v, e |-> e]})]

\* Row cs of K/V head h, at the present scale.
WeighRow(p, cs, h) == Weigh(p, kCache[cs][h], vCache[cs][h])

\* One step of the online softmax over the rows cs of K/V head h.
Absorb(p, cs, h) ==
    LET s == score[kCache[cs][h].pos]
    IN  WeighRow(IF s > p.m THEN Rescaled(p, s) ELSE p, cs, h)

Range4(lo, hi) == [i \in 1..(hi - lo + 1) |-> lo + i - 1]
Scan(lo, hi, h) == FoldLeft(LAMBDA p, cs : Absorb(p, cs, h), Nothing, Range4(lo, hi))

\* Partial results put together under their common maximum.
Maximum(ps) == Max({Bottom} \cup {ps[i].m : i \in DOMAIN ps})
BagsOf(bags) == FoldFunction((+), EmptyBag, bags)
MergedAt(ps, M) ==
    [m |-> M,
     l |-> BagsOf([i \in DOMAIN ps |-> Rescaled(ps[i], M).l]),
     acc |-> BagsOf([i \in DOMAIN ps |-> Rescaled(ps[i], M).acc])]
\* Mutant: the partial results are added as they are.
MergedRaw(ps) ==
    [m |-> Maximum(ps), l |-> BagsOf([i \in DOMAIN ps |-> ps[i].l]),
     acc |-> BagsOf([i \in DOMAIN ps |-> ps[i].acc])]
Merged(ps) == MergedAt(ps, Maximum(ps))
-----------------------------------------------------------------------------
(* The host's choices.                                                     *)
attnChunks == (MaxSeqLen + config.chunk - 1) \div config.chunk
\* Mutant: the span of a sub-warp is rounded down.
wsubUnchecked == IF config.subWarp > 1 THEN config.subWarp ELSE 1
wsub == IF config.subWarp > 1 /\ (config.chunk % config.subWarp) = 0 THEN config.subWarp ELSE 1
nw == IF config.combineW8 /\ attnChunks >= WideFrom THEN 8 ELSE 4
splitAttn == pass.T = 1 /\ config.split /\ attnChunks > 1

\* A decode step recorded for the graph reads its position on the device.
pos == IF pass.captured THEN graphPos ELSE kvPos

\* A pass runs its kernels one after another.
Running(stage, engine) == pass.stage = stage /\ config.engine = engine
Then(stage) == pass' = [pass EXCEPT !.stage = stage]

NoBlock == <<>>
Fresh == [done |-> {}, block |-> NoBlock, warp |-> <<>>, shared |-> <<>>]
Idle == [T |-> 0, captured |-> FALSE, stage |-> "idle"]

Init ==
    /\ config \in Configs /\ score \in Scores
    /\ epoch = 1 /\ kvPos = 0 /\ graphPos = 0
    /\ pass = Idle /\ q = <<>> /\ k = <<>> /\ out = <<>>
    /\ kCache = [p \in Rows |-> [h \in KVHeads |-> Key(0, p, h, Raw)]]
    /\ vCache = [p \in Rows |-> [h \in KVHeads |-> Value(0, p, h)]]
    /\ part = [i \in 0..(config.nHeads * attnChunks - 1) |-> Unset]
    /\ grid = Fresh

Forward(T, captured) ==
    /\ pass = Idle
    /\ kvPos + T <= MaxSeqLen
    /\ captured => T = 1 /\ config.graph /\ config.engine = "cuda"
    /\ pass' = [T |-> T, captured |-> captured, stage |-> "rotate"]
    /\ graphPos' = IF captured THEN kvPos ELSE graphPos
    /\ UNCHANGED <<config, score, epoch, kvPos, q, k, kCache, vCache, part, out, grid>>

Return ==
    /\ pass.stage = "end"
    /\ kvPos' = kvPos + pass.T
    /\ pass' = Idle /\ q' = <<>> /\ k' = <<>> /\ out' = <<>>
    /\ UNCHANGED <<config, score, epoch, graphPos, kCache, vCache, part, grid>>

\* The rows of the session that ends stay in the cache.
clearKVCache ==
    /\ pass = Idle /\ kvPos > 0 /\ epoch < MaxSessions
    /\ epoch' = epoch + 1 /\ kvPos' = 0
    /\ UNCHANGED <<config, score, graphPos, pass, q, k, kCache, vCache, part, out, grid>>
-----------------------------------------------------------------------------
(* Rotation and storage: a block per token, none touching another's rows.  *)
Rotate(engine) ==
    /\ Running("rotate", engine) /\ Then("store")
    /\ q' = [s \in Tokens |-> pos + s]
    /\ UNCHANGED <<config, score, epoch, kvPos, graphPos, kCache, vCache, part, out, grid>>

kRoPEQ == Rotate("cuda") /\ k' = [s \in Tokens |-> Raw]
kQ35MRoPE == Rotate("q35") /\ k' = [s \in Tokens |-> pos + s]
applyRoPE == Rotate("cpu") /\ k' = [s \in Tokens |-> Raw]
applyMRoPE == Rotate("q35cpu") /\ k' = [s \in Tokens |-> pos + s]

\* Token s of the pass is the session's token kvPos + s; its row is first + s.
StoreRows(engine, first, rotation(_)) ==
    /\ Running("store", engine) /\ Then("attend")
    /\ kCache' = [cs \in Rows |->
                    IF cs - first \in Tokens
                    THEN [h \in KVHeads |-> Key(epoch, kvPos + cs - first, h, rotation(cs - first))]
                    ELSE kCache[cs]]
    /\ vCache' = [cs \in Rows |->
                    IF cs - first \in Tokens
                    THEN [h \in KVHeads |-> Value(epoch, kvPos + cs - first, h)]
                    ELSE vCache[cs]]
    /\ UNCHANGED <<config, score, epoch, kvPos, graphPos, q, k, part, out, grid>>

\* Mutant: K is rotated to its place in the batch: right at position 0.
kStoreKVRopeFromZero == StoreRows("cuda", pos, LAMBDA s : s)
kStoreKVRope == StoreRows("cuda", pos, LAMBDA s : pos + s)
kQ35StoreKV == StoreRows("q35", pos, LAMBDA s : k[s])
storeKVWithRoPE == StoreRows("cpu", kvPos, LAMBDA s : kvPos + s)
storeKV == StoreRows("q35cpu", kvPos, LAMBDA s : k[s])
-----------------------------------------------------------------------------
(* Attention.  The blocks of a launch run in any order; what they write is *)
(* apart, so one is followed at a time, the warps within it interleaved.   *)
Blocks ==
    CASE pass.stage = "attend" /\ config.engine = "cuda" /\ splitAttn ->
           {0} \X QHeads \X (0..(attnChunks - 1))
      [] config.engine \in {"cpu", "q35cpu"} -> Tokens \X KVHeads \X {0}
      [] OTHER -> Tokens \X QHeads \X {0}

kvHead(qHead) == qHead \div (config.nHeads \div config.nKVHeads)
csEnd(s) == pos + s

WriteOut(s, heads, result(_)) ==
    out' = [sh \in DOMAIN out \cup ({s} \X heads) |->
              IF sh \in {s} \X heads THEN [rot |-> q[s], p |-> result(sh[2])] ELSE out[sh]]

\* The last block of a launch ends the kernel.
AfterKernel == IF pass.stage = "attend" /\ config.engine = "cuda" /\ splitAttn THEN "combine" ELSE "end"
Leave(b) ==
    IF grid.done \cup {b} = Blocks
    THEN grid' = Fresh /\ Then(AfterKernel)
    ELSE grid' = [Fresh EXCEPT !.done = grid.done \cup {b}] /\ UNCHANGED pass

Kept == UNCHANGED <<config, score, epoch, kvPos, graphPos, q, k, kCache, vCache>>
OneWarp(stage, engine, b) == Running(stage, engine) /\ b \in Blocks \ grid.done /\ Leave(b) /\ Kept

kWarpAttention(b) ==
    /\ ~splitAttn /\ OneWarp("attend", "cuda", b)
    /\ WriteOut(b[1], {b[2]}, LAMBDA h : Scan(0, csEnd(b[1]), kvHead(h)))
    /\ UNCHANGED part

kQ35WarpAttention(b) ==
    /\ OneWarp("attend", "q35", b)
    /\ WriteOut(b[1], {b[2]}, LAMBDA h : Scan(0, csEnd(b[1]), kvHead(h)))
    /\ UNCHANGED part

\* The CPU: item (s, g) serves the query heads of K/V head g.
nGroups == config.nHeads \div config.nKVHeads
GroupHeads(g) == {g * nGroups + h : h \in 0..(nGroups - 1)}

\* A tile is scored first: its maximum rescales once, then its keys are added.
AbsorbTile(p, i, h) ==
    LET first == i * Tile
        last == first + Tile - 1
        mNew == Max({p.m} \cup {score[kCache[cs][h].pos] : cs \in first..last})
    IN  FoldLeft(LAMBDA r, cs : WeighRow(r, cs, h), Rescaled(p, mNew), Range4(first, last))

FusedScan(last, h) ==
    LET tiles == (last + 1) \div Tile
        main == FoldLeft(LAMBDA p, i : AbsorbTile(p, i, h), Nothing, Range4(0, tiles - 1))
    IN  FoldLeft(LAMBDA p, cs : Absorb(p, cs, h), main, Range4(tiles * Tile, last))

attentionFused(b) ==
    /\ OneWarp("attend", "cpu", b)
    /\ WriteOut(b[1], GroupHeads(b[2]), LAMBDA h : FusedScan(kvPos + b[1], b[2]))
    /\ UNCHANGED part

attentionGeneric(b) ==
    /\ OneWarp("attend", "q35cpu", b)
    /\ WriteOut(b[1], GroupHeads(b[2]), LAMBDA h : Scan(0, kvPos + b[1], b[2]))
    /\ UNCHANGED part
-----------------------------------------------------------------------------
(* The cache split in chunks, a chunk over the wsub warps of a block.      *)
pidx(s, h, c) == (s * config.nHeads + h) * attnChunks + c

SpanScan(b, w) ==
    LET span == config.chunk \div wsub
        lo == b[3] * config.chunk + w * span
        last == csEnd(b[1])
    IN  IF lo <= last
        THEN Scan(lo, Min({lo + span - 1, last}), kvHead(b[2]))
        ELSE Nothing

Warps == 0..((IF pass.stage = "combine" THEN nw ELSE wsub) - 1)
\* Mutant: no __syncthreads.
ArrivedAlone(w) == grid.warp[w] # "run"
Arrived(w) == \A v \in Warps : grid.warp[v] # "run"

\* A warp of the current block computes its part and stops at the barrier.
Enter(b) ==
    IF grid.block = NoBlock
    THEN [grid EXCEPT !.block = b, !.warp = [w \in Warps |-> "run"], !.shared = [w \in Warps |-> Unset]]
    ELSE grid

ShareWhere(b, w, p) ==
    /\ b \in Blocks \ grid.done /\ grid.block \in {NoBlock, b}
    /\ Enter(b).warp[w] = "run"
    /\ grid' = [Enter(b) EXCEPT !.warp[w] = "barrier", !.shared[w] = p]
    /\ Kept /\ UNCHANGED <<pass, part, out>>

AtBarrier(b, w) == grid.block = b /\ b # NoBlock /\ grid.warp[w] = "barrier" /\ Arrived(w)

kWarpAttentionSplit(b) ==             \* wsub = 1: the partial result as it is
    /\ splitAttn /\ wsub = 1
    /\ OneWarp("attend", "cuda", b)
    /\ part' = [part EXCEPT ![pidx(b[1], b[2], b[3])] = SpanScan(b, 0)]
    /\ UNCHANGED out

ScanSpan(b, w) ==
    /\ Running("attend", "cuda") /\ splitAttn /\ wsub > 1
    /\ ShareWhere(b, w, SpanScan(b, w))

\* Every warp merges all of them and writes the same partial result.
MergeSpans(b, w) ==
    /\ Running("attend", "cuda") /\ AtBarrier(b, w)
    /\ part' = [part EXCEPT ![pidx(b[1], b[2], b[3])] = Merged(grid.shared)]
    /\ IF \A v \in Warps \ {w} : grid.warp[v] = "end"
       THEN Leave(b)
       ELSE grid' = [grid EXCEPT !.warp[w] = "end"] /\ UNCHANGED pass
    /\ Kept /\ UNCHANGED out

\* Chunks without keys are skipped.
ChunkParts(b, chunks) ==
    [c \in {d \in chunks : part[pidx(b[1], b[2], d)].l # EmptyBag} |-> part[pidx(b[1], b[2], c)]]
ChunkMaximum(b, chunks) == Maximum([c \in chunks |-> part[pidx(b[1], b[2], c)]])
FoldOf(b, chunks) == MergedAt(ChunkParts(b, chunks), ChunkMaximum(b, chunks))

kAttnCombinePartial(b) ==
    /\ ~config.combine4 /\ OneWarp("combine", "cuda", b)
    /\ WriteOut(b[1], {b[2]}, LAMBDA h : FoldOf(b, 0..(attnChunks - 1)))
    /\ UNCHANGED part

FoldChunks(b, w) ==
    /\ Running("combine", "cuda") /\ config.combine4
    /\ ShareWhere(b, w, FoldOf(b, {c \in 0..(attnChunks - 1) : c % nw = w}))

kAttnCombinePartialW4(b) ==
    /\ Running("combine", "cuda") /\ AtBarrier(b, 0)
    /\ WriteOut(b[1], {b[2]}, LAMBDA h : Merged(grid.shared))
    /\ Leave(b)
    /\ Kept /\ UNCHANGED part
-----------------------------------------------------------------------------
Store == kStoreKVRope \/ kQ35StoreKV \/ storeKVWithRoPE \/ storeKV
RotateQ == kRoPEQ \/ kQ35MRoPE \/ applyRoPE \/ applyMRoPE
OneWarpBlock(b) == \/ kWarpAttention(b) \/ kQ35WarpAttention(b) \/ attentionFused(b)
                   \/ attentionGeneric(b) \/ kWarpAttentionSplit(b) \/ kAttnCombinePartial(b)
BlockStep(b) ==
    \/ OneWarpBlock(b)
    \/ \E w \in Warps : ScanSpan(b, w) \/ MergeSpans(b, w) \/ FoldChunks(b, w)
    \/ kAttnCombinePartialW4(b)

\* The last session the bounds allow has filled the cache.
Full == pass = Idle /\ kvPos = MaxSeqLen /\ epoch = MaxSessions /\ UNCHANGED vars

Next ==
    \/ \E T \in 1..MaxBatch, captured \in BOOLEAN : Forward(T, captured)
    \/ Return \/ clearKVCache
    \/ RotateQ \/ Store
    \/ \E b \in Blocks : BlockStep(b)
    \/ Full

Spec == Init /\ [][Next]_vars
-----------------------------------------------------------------------------
(* Properties.                                                             *)

KeysOf(p) == {t.k : t \in DOMAIN p.l}

\* No result is made of memory nobody has written: every term in a partial
\* result or an output is a row of the cache.
TypeOK ==
    /\ config \in Configs /\ score \in Scores
    /\ epoch \in 1..MaxSessions /\ kvPos \in 0..MaxSeqLen /\ graphPos \in Rows
    /\ pass \in [T : 0..MaxBatch, captured : BOOLEAN,
                 stage : {"idle", "rotate", "store", "attend", "combine", "end"}]
    /\ \A s \in DOMAIN q : q[s] \in Rows
    /\ \A sh \in DOMAIN out : \A key \in KeysOf(out[sh].p) : key.epoch \in 0..epoch

\* Both caches hold the whole session and nothing else below kvPos, each key
\* rotated to its own position, whatever engine and whatever mixture of
\* prefills, eager and captured steps stored them.
CacheHoldsSession ==
    \A cs \in 0..(kvPos - 1), h \in KVHeads :
       /\ kCache[cs][h] = Key(epoch, cs, h, cs)
       /\ vCache[cs][h] = Value(epoch, cs, h)

\* When the combine starts, the chunks share out the keys of the context:
\* none in two chunks, none left over from an earlier step or session.
ChunksShareContext ==
    pass.stage = "combine" =>
      \A h \in QHeads, c \in 0..(attnChunks - 1) :
         {key.pos : key \in KeysOf(part[pidx(0, h, c)])}
           = {p \in 0..kvPos : p \div config.chunk = c}

\* The result the softmax of a token's scores defines: every key of its
\* context, and of its own K/V head, once, weighted against the largest.
SoftmaxOf(p, h) ==
    LET g == CHOOSE g \in KVHeads : h \in GroupHeads(g)
        M == Max({score[i] : i \in 0..p})
        term(i) == [k |-> Key(epoch, i, g, i), e |-> score[i] - M]
    IN  [rot |-> p,
         p |-> [m |-> M, l |-> SetToBag({term(i) : i \in 0..p}),
                acc |-> SetToBag({[k |-> term(i).k, v |-> Value(epoch, i, g), e |-> term(i).e]
                                    : i \in 0..p})]]

\* Whatever engine, split and order of warps, each token of a pass attends to
\* exactly the tokens up to itself, none of an earlier session, none of the
\* tokens after it in the batch, and all weights have the same scale.
AttendsToContext ==
    pass.stage = "end" =>
      \A s \in Tokens, h \in QHeads : out[<<s, h>>] = SoftmaxOf(kvPos + s, h)
=============================================================================
