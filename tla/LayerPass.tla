------------------------------ MODULE LayerPass ------------------------------
(* A pass of Model::forward through every layer, on the device, on the     *)
(* host, or on the device for the first layers of a hybrid model and on    *)
(* the host for the rest, over a session of several passes.  What leaves a *)
(* layer is compared with LayerTerms and then named X(L + 1, p), so that a *)
(* term never nests more than one layer.                                    *)
EXTENDS ExpertsGPU, LayersCPU

OnDevice(L) == L <= c.ngl
DeviceEngine == IF c.arch = "qwen35" THEN "hybrid" ELSE "dense"
HostEngine == IF c.arch = "qwen35" THEN "q35cpu" ELSE "cpu"
\* Layers that predict further tokens are skipped by both.
LastLayer == NumLayers - c.nextn

OnGpu == pass.engine \in {"dense", "hybrid"}
HiddenOf(t) == IF OnGpu THEN Row(dev, "hidden", t) ELSE Row(host, "hidden", t)

\* Tokens come in, embedded where the first layer runs.
Start(T, all) ==
    /\ pass.stage = "idle" /\ kvPos + T <= MaxPos
    /\ pass' = [Idle EXCEPT !.T = T, !.all = all, !.stage = "embed",
                            !.engine = IF c.ngl > 0 THEN DeviceEngine ELSE HostEngine]
    /\ UNCHANGED <<c, dev, host, kv, rec, kvPos, logits>>
EmbedPass ==
    /\ pass.stage = "embed"
    /\ dev' = IF OnGpu THEN EmbedTokens(dev) ELSE dev
    /\ host' = IF OnGpu THEN host ELSE Each(host, "hidden", LAMBDA t : Embed(Token(PosOf(t))))
    /\ Goto("out")
    /\ UNCHANGED <<c, kv, rec, kvPos, logits>>

\* The device has run its prefix; the host resumes on a copy of its rows.
gpuCopyHiddenOut ==
    /\ pass.stage = "out" /\ OnGpu /\ pass.L = c.ngl /\ pass.L < NumLayers
    /\ host' = Each(host, "hidden", LAMBDA t : Row(dev, "hidden", t))
    /\ pass' = [pass EXCEPT !.engine = HostEngine]
    /\ UNCHANGED <<c, dev, kv, rec, kvPos, logits>>

\* The next layer: the rows entering it get their names.
NextLayer ==
    /\ pass.stage = "out" /\ pass.L < LastLayer /\ OnGpu = OnDevice(pass.L + 1)
    /\ LET named(d) == Each(d, "hidden", LAMBDA t : X(pass.L + 1, PosOf(t)))
       IN  /\ dev' = IF OnGpu THEN named(dev) ELSE dev
           /\ host' = IF OnGpu THEN host ELSE named(host)
    /\ pass' = [pass EXCEPT !.L = @ + 1, !.stage = "norm"]
    /\ UNCHANGED <<c, kv, rec, kvPos, logits>>

\* The head, and the end of the pass.
\* Mutant: a pass advances the position by the capacity of a batch.
AdvancedByBatch == kvPos + MaxBatch
Advanced == kvPos + pass.T
HeadReached == pass.stage = "out" /\ pass.L = LastLayer /\ (OnGpu => c.ngl = NumLayers)
NamedRows(d) == Each(d, "hidden", LAMBDA t : X(LastLayer + 1, PosOf(t)))
LMHead ==
    /\ HeadReached
    /\ dev' = IF OnGpu THEN HeadOf(NamedRows(dev)) ELSE dev
    /\ host' = IF OnGpu THEN host ELSE HostHead(NamedRows(host))
    /\ LET row(t) == IF OnGpu THEN Row(dev', "logits", t) ELSE Row(host', "logits", t)
       IN  logits' = [from |-> kvPos, all |-> pass.all, rows |-> [t \in Tokens |-> row(t)]]
    /\ kvPos' = Advanced /\ pass' = Idle
    /\ UNCHANGED <<c, kv, rec>>

clearKVCache ==
    /\ pass.stage = "idle" /\ kvPos > 0
    /\ kvPos' = 0 /\ logits' = <<>>
    /\ rec' = [L \in Layers |-> [conv |-> [i \in 1..(c.convK - 1) |-> Zeros], gdn |-> Zeros]]
    /\ UNCHANGED <<c, dev, host, kv, pass>>

Next ==
    \/ \E T \in 1..MaxBatch, all \in BOOLEAN : Start(T, all)
    \/ EmbedPass \/ gpuCopyHiddenOut \/ NextLayer \/ LMHead \/ clearKVCache
    \/ DenseGPU \/ HybridGPU \/ ExpertsNext \/ HostLayers
Spec == Init /\ [][Next]_vars

\* Files whose recurrent projections the kernels can compute: known types, and
\* of a Prism file attn_qkv is stored rotated while ssm_beta and ssm_alpha are
\* not.
Knows(d) ==
    /\ {d.types["attnQKV"], d.types["ssmBeta"], d.types["ssmAlpha"]} \subseteq KnownTypes
    /\ d.prism => d.types["attnQKV"] = "PQ2_0" /\ "PQ2_0" \notin {d.types["ssmBeta"], d.types["ssmAlpha"]}
KnownProjections == \A d \in Configs : d.arch = "qwen35" => Knows(d)
\* Heads that the engines can compute: of a known type on the device, and
\* capped only by Gemma 4, which never runs there.
KnownHeads ==
    \A d \in Configs :
        /\ d.ngl = NumLayers => d.types["lmHead"] \in KnownTypes
        /\ Has(d, "softcap") => d.arch = "gemma4" /\ d.ngl = 0

\* Files whose keys and values the engines can compute.  A file of Qwen2 has
\* biases and no head norms, the others the reverse, and only Gemma 4 asks for
\* both norms.  On the device the types are known, and Gemma 4 never runs
\* there; a Prism file stores all three matrices rotated.
KnowsAttention(d) ==
    LET types == {d.types["attnQ"], d.types["attnK"], d.types["attnV"]}
    IN  /\ d.arch \in {"qwen2", "gemma4", "qwen35"} /\ d.interval \in Nat \ {0}
        /\ d.ngl > 0 => types \subseteq KnownTypes /\ d.arch # "gemma4"
        /\ d.prism => types = {"PQ2_0"} /\ d.arch = "qwen35"
        /\ IF d.arch = "qwen2" THEN ~Has(d, "attnKNorm") ELSE ~Has(d, "attnKBias") /\ ~Has(d, "attnVBias")
        /\ d.arch = "gemma4" /\ Has(d, "attnKNorm") => Has(d, "attnQNorm")
KnownAttention == \A d \in Configs : KnowsAttention(d)

-----------------------------------------------------------------------------
(* Properties.                                                             *)

\* Shape of the state; the position never leaves the cache.
TypeOK ==
    /\ kvPos \in 0..MaxPos /\ pass.T \in 0..MaxBatch /\ pass.L \in 0..NumLayers
    /\ kvPos + pass.T <= MaxPos
    /\ dev.q8k.cap \in Nat
    /\ DOMAIN dev.rows = DevBuffers /\ DOMAIN host.rows = HostBuffers
    /\ \A L \in Layers : DOMAIN kv[L] = Positions /\ Len(rec[L].conv) = c.convK - 1

\* Whatever engine, types, switches and split into kernels, and whatever the
\* scratch buffers held, each row that leaves a layer is the layer's function
\* of the rows that entered it.
LayerComputed ==
    pass.stage = "out" =>
        \A t \in Tokens :
            HiddenOf(t) = IF pass.L = 0 THEN Embed(Token(PosOf(t))) ELSE Layer(c, pass.L, PosOf(t))

\* Between passes, an attention layer's cache holds the rotated key and the
\* value of every token of the session, in the slot the reader will use.
CacheHoldsKeys ==
    pass.stage = "idle" =>
        \A L \in 1..LastLayer : ~Recurrent(c, L) =>
            \A p \in 0..(kvPos - 1) :
                kv[IF OnDevice(L) THEN kvLayerOffset(L) ELSE L][p]
                    = [k |-> KeyOf(c, L, p), v |-> ValueOf(c, L, p)]

\* Between passes, a recurrent layer has advanced its window and its state
\* exactly once per token, in order, however the tokens were split in passes.
StateAdvancedOnce ==
    pass.stage = "idle" =>
        \A L \in 1..LastLayer : Recurrent(c, L) =>
            rec[L] = [conv |-> Window(c, L, kvPos), gdn |-> StateAt(c, L, kvPos)]

\* The caller gets the logits of the last token, and of every token when it
\* asked for all.
LogitsOfLastToken ==
    pass.stage = "idle" /\ logits # <<>> =>
        \A t \in DOMAIN logits.rows :
            logits.all \/ t = Len(logits.rows) =>
                logits.rows[t] = LogitsOf(c, LastLayer, logits.from + t - 1)
=============================================================================
