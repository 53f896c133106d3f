---------------------------- MODULE MCRowKernels ----------------------------
(* Every launch of every format over rows of a few blocks: one block, an   *)
(* odd number below a batch, the six of the default model's rows, two full *)
(* batches, the fourteen of a hidden size of 3584, and more than two.      *)
EXTENDS RowKernels

MCRowBlocks == {1, 3, 6, 8, 14, 18}
MCRowCounts == {6, 64}

\* Launches that go wrong, each a hazard or a finding: the column order of
\* IQ4_XS in the fp16 prefill, embeddings given a kernel of another format,
\* a split row shorter than its warps, the persistent FFN over a number of
\* rows that is no multiple of four.
Misread == {"kDequantF16_IQ4XS"} \X {"IQ4_XS"} \X MCRowBlocks \X MCRowCounts
WrongEmbedding == {"kEmbedDequant", "kEmbedDequantQ5K"} \X {"PQ2_0", "IQ3_S", "Q5_0"}
                    \X MCRowBlocks \X MCRowCounts
ShortSplit == ({"kQGemvSplitK2", "kQGemvSplitK4"} \X {"Q3_K"} \X {1} \X MCRowCounts)
                \cup ({"kQGemvSplitK4"} \X {"Q3_K"} \X {3} \X MCRowCounts)
OddFfn == {"kFfnQ2KRowDot4W", "kFfnQ2KRowDot4W_Q81", "kFfnQ3KRowDot4W"} \X {"Q2_K", "Q3_K"}
            \X MCRowBlocks \X {rows \in MCRowCounts : rows % 4 # 0}
\* Four stripes that batch past the end of the row.
ShortBatch == {"kQGemvQ2KxSplit4"} \X {"Q2_K"} \X {n \in MCRowBlocks : n % 16 >= 12} \X MCRowCounts
\* Eight warps in every order: two launches of the kernel are enough.
MoreRows == {"kEmbedDequantPQ2_0"} \X {"PQ2_0"} \X (MCRowBlocks \ {3, 18}) \X MCRowCounts
              \cup {"kEmbedDequantPQ2_0"} \X {"PQ2_0"} \X {3, 18} \X {6}
\* Hosts without AVX2, and with AVX-512, over repacked Q2_K.
ScalarQ8 == {"dotProductQ2_K_PrePacked_Q8_Scalar"} \X {"Q2_K"} \X MCRowBlocks \X MCRowCounts
OtherHosts == {"dotProductQ2_K_PrePacked_Scalar", "dotProductQ2_K_PrePacked_Q8_AVX512"}
                \X {"Q2_K"} \X MCRowBlocks \X MCRowCounts
MCExcluded == Misread \cup WrongEmbedding \cup ShortSplit \cup ShortBatch \cup OddFfn \cup MoreRows
                \cup ScalarQ8 \cup OtherHosts
WithMisread == MCExcluded \ Misread

\* The hypotheses of the theorems hold of the launches that are checked.
ASSUME FitAssumption == Excluded = MCExcluded => StripesFit /\ ChunksFit /\ FfnRowsFit
=============================================================================
