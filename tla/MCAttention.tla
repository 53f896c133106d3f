----------------------------- MODULE MCAttention -----------------------------
(* Small instances of Attention for TLC.                                   *)
EXTENDS Attention

Base == [engine |-> "cuda", nHeads |-> 2, nKVHeads |-> 1, split |-> TRUE, chunk |-> 2,
         subWarp |-> 2, combine4 |-> TRUE, combineW8 |-> FALSE, graph |-> FALSE]

\* Two, four and no sub-warps, chunks that the sub-warps do not divide, the
\* three combines, the unsplit kernels, and the other engines.
MCConfigs ==
    {Base,
     [Base EXCEPT !.nKVHeads = 2, !.combine4 = FALSE],
     [Base EXCEPT !.chunk = 3, !.graph = TRUE],
     [Base EXCEPT !.chunk = 4, !.subWarp = 4, !.nHeads = 1],
     [Base EXCEPT !.chunk = 1, !.subWarp = 1, !.nHeads = 1, !.combineW8 = TRUE],
     [Base EXCEPT !.split = FALSE, !.graph = TRUE],
     [Base EXCEPT !.engine = "q35", !.nHeads = 4, !.nKVHeads = 2],
     [Base EXCEPT !.engine = "cpu", !.nHeads = 4, !.nKVHeads = 2],
     [Base EXCEPT !.engine = "q35cpu", !.nHeads = 4, !.nKVHeads = 2]}

\* Rising and falling scores, and a maximum met twice.
MCScores == {[p \in 0..4 |-> p], [p \in 0..4 |-> 4 - p], 
             [p \in 0..4 |-> IF p \in {1, 3} THEN 3 ELSE p \div 2]}
=============================================================================
