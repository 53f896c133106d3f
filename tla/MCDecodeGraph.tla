---------------------------- MODULE MCDecodeGraph ---------------------------
(* Small instances of DecodeGraph for TLC.                                 *)
EXTENDS DecodeGraph

\* The repository's default model: Q2_K attnQ/attnK and gate/up, Q4_K attnV,
\* Q3_K attnO and down, Q6_K LM head; 1536 = 6 blocks, 8960 = 35 blocks.
Default == [qkv |-> "fused", attnO |-> "q81", gateUp |-> "q81", down |-> "q81",
            head |-> "q8k", hidden |-> 6, inter |-> 35, fold |-> TRUE, dp4a |-> TRUE,
            split |-> TRUE, graph |-> TRUE, warm |-> FALSE]

MCCold == {Default}
\* The model after an eager decode step; the graph, the folds or the split
\* attention switched off; float kernels throughout; an all-integer model narrower than 1536.
MCConfigs ==
    {[Default EXCEPT !.warm = TRUE],
     [Default EXCEPT !.warm = TRUE, !.dp4a = FALSE],
     [Default EXCEPT !.warm = TRUE, !.fold = FALSE],
     [Default EXCEPT !.warm = TRUE, !.attnO = "float", !.split = FALSE],
     [Default EXCEPT !.graph = FALSE],
     [Default EXCEPT !.fold = FALSE, !.attnO = "float", !.gateUp = "float", !.down = "float"],
     [Default EXCEPT !.warm = TRUE, !.qkv = "q8k", !.attnO = "q8k", !.gateUp = "q8k",
                     !.down = "q8k", !.hidden = 4, !.inter = 12]}

\* What the theorems ask of a configuration holds of these, and not of MCCold.
ASSUME MCHypotheses == \A c \in MCConfigs : HasRoom(c) /\ IsFed(c)
ASSUME MCColdHasNoRoom == \A c \in MCCold : IsFed(c) /\ ~HasRoom(c)
=============================================================================
