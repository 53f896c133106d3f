----------------------------- MODULE MCLayerPass -----------------------------
(* Models and settings for LayerPass.                                       *)
EXTENDS LayerPass

Dense == [expertGate |-> "Q8_0", expertDown |-> "Q8_0", shexp |-> "Q8_0", attnQ |-> "Q2_K", attnK |-> "Q2_K", attnV |-> "Q4_K", attnO |-> "Q3_K",
          ffnGate |-> "Q2_K", ffnUp |-> "Q2_K", ffnDown |-> "Q3_K", embed |-> "Q2_K", lmHead |-> "Q6_K"]
Uniform(type) == [n \in DOMAIN Dense |-> IF n = "embed" THEN "Q2_K" ELSE type]
Recurrences == {"attnQKV", "attnGate", "ssmOut", "ssmBeta", "ssmAlpha"}
HybridTypes(type) == [n \in DOMAIN Dense \cup Recurrences |->
                         CASE n \in {"ssmBeta", "ssmAlpha"} -> "F32"
                           [] OTHER -> type]
Biases == {"attnQBias", "attnKBias", "attnVBias"}

Qwen2 == [arch |-> "qwen2", has |-> Biases, moe |-> FALSE, interval |-> 1, convK |-> 3, nextn |-> 0,
          types |-> Dense, ngl |-> NumLayers, env |-> {}, h1536 |-> FALSE, hidden |-> 1, inter |-> 2,
          twins |-> {}, split |-> FALSE, q8k |-> 0, prism |-> FALSE, quads |-> TRUE, whole |-> TRUE,
          experts |-> 0..2, route |-> <<<<0, 1>>, <<0, 2>>, <<2, 1>>>>, fused |-> FALSE, expertFF |-> 1,
          moeCpuFn |-> FALSE, expertCacheBuilt |-> FALSE, resident |-> {}]
Fused == {"FUSE_Q81", "QKV_DP4A", "FUSE_QKV", "COMBINE4", "FUSE_ATTNO_RESID", "FUSE_DOWN_RESID",
          "FUSE_GU_Q2K", "GLU_Q81", "Q3K_MMVQ", "IQ2XS_INT", "Q2K_INTGU"}
Gemma == [Qwen2 EXCEPT !.arch = "gemma4", !.ngl = 0, !.types = Uniform("Q6_K"),
          !.has = {"attnQNorm", "attnKNorm", "attnPostNorm", "postFFWNorm", "scale", "softcap"}]
Qwen35 == [Qwen2 EXCEPT !.arch = "qwen35", !.interval = 2, !.has = {"attnQNorm", "attnKNorm"},
           !.types = HybridTypes("Q4_K")]

DenseConfigs ==
    {Qwen2,
     [Qwen2 EXCEPT !.env = Fused, !.h1536 = TRUE, !.split = TRUE],
     [Qwen2 EXCEPT !.env = Fused \ {"Q2K_INTGU"}, !.h1536 = TRUE, !.split = TRUE, !.q8k = 640],
     [Qwen2 EXCEPT !.env = {"FUSE_Q81", "FUSE_ATTNO_RESID", "Q2K_4XW", "Q2K_Q81"}, !.h1536 = TRUE,
                   !.types = Uniform("Q2_K"), !.q8k = 640],
     [Qwen2 EXCEPT !.env = {"Q2K_MMVQ", "Q3K_MMVQ", "FUSE_DOWN_RESID"}, !.has = {},
                   !.twins = {"attnQ", "ffnDown"}],
     [Qwen2 EXCEPT !.env = {"FFN_PERSIST"}],
     [Qwen2 EXCEPT !.env = {"TC_FFN"}, !.twins = {"ffnGate", "ffnUp", "ffnDown"},
                   !.types = Uniform("Q4_K")],
     [Qwen2 EXCEPT !.env = {"FUSE_Q81", "Q2K_Q81_MMVQ", "Q2K_MQ4XW", "Q2K_Q81"}, !.types = Uniform("Q2_K")],
     [Qwen2 EXCEPT !.types = Uniform("IQ2_XS"), !.env = {"IQ2XS_INT"}],
     [Qwen2 EXCEPT !.types = Uniform("IQ3_S")],
     [Qwen2 EXCEPT !.types = Uniform("Q8_0")]}
HostConfigs ==
    {[Qwen2 EXCEPT !.ngl = 0],
     [Qwen2 EXCEPT !.ngl = 0, !.types = Uniform("IQ3_S")],
     [Qwen2 EXCEPT !.ngl = 0, !.types = Uniform("Q4_K")],
     [Gemma EXCEPT !.moe = TRUE]}
HybridConfigs ==
    {[Qwen35 EXCEPT !.ngl = n] : n \in 0..NumLayers} \cup
    {[Qwen35 EXCEPT !.ngl = n, !.prism = TRUE, !.types = HybridTypes("PQ2_0")] : n \in 0..NumLayers} \cup
    {[Qwen35 EXCEPT !.nextn = 1, !.types = HybridTypes("Q8_0")]}
Moe == [Qwen35 EXCEPT !.moe = TRUE]
Callback == [Moe EXCEPT !.moeCpuFn = TRUE, !.types = HybridTypes("Q8_0")]
MoeConfigs ==
    {[Moe EXCEPT !.ngl = 0, !.fused = f] : f \in BOOLEAN} \cup
    {Moe, Callback,
     [Callback EXCEPT !.expertCacheBuilt = TRUE],
     [Callback EXCEPT !.expertCacheBuilt = TRUE, !.env = {"MOE_SLOW"}],
     [Callback EXCEPT !.expertCacheBuilt = TRUE, !.resident = {0}, !.env = {"MOE_FALLBACK"}],
     [Callback EXCEPT !.expertCacheBuilt = TRUE, !.resident = {0, 2},
                      !.types["expertGate"] = "Q4_K", !.types["expertDown"] = "Q6_K"]}
MCConfigs == DenseConfigs \cup HostConfigs \cup HybridConfigs \cup MoeConfigs
ASSUME FilesAssumption == KnownProjections /\ KnownHeads /\ KnownAttention

\* A file whose gate and up matrices have different types.
MixedConfigs == {[Qwen2 EXCEPT !.ngl = 0, !.types["ffnUp"] = "Q4_K"]}
=============================================================================
