--------------------------- MODULE MCModelSession ---------------------------
(* Small instances of ModelSession for TLC: models of two layers.          *)
EXTENDS ModelSession

MCConfig(a, r, n, g) ==
    [arch |-> a, recurrent |-> r, nGpu |-> n, gpu |-> g, bounds |-> TRUE,
     supported |-> TRUE, resident |-> a = "qwen35moe"]

\* A dense model on the GPU; the qwen35 hybrid split at either kind of layer,
\* and fully on the GPU; the MoE hybrid; and models the CPU runs alone.
MCConfigs == { MCConfig("qwen2", {}, 2, TRUE),
               MCConfig("qwen35", {1}, 1, TRUE),
               MCConfig("qwen35", {2}, 1, TRUE),
               MCConfig("qwen35", {1}, 2, TRUE),
               MCConfig("qwen35moe", {1}, 2, TRUE),
               MCConfig("qwen35", {1}, 2, FALSE),
               MCConfig("other", {}, 2, TRUE),
               [MCConfig("qwen2", {}, 2, TRUE) EXCEPT !.supported = FALSE] }

MCCpuOnly == { MCConfig("other", {}, 2, FALSE) }
=============================================================================
