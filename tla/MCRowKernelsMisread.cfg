CONSTANTS
    RowBlocks <- MCRowBlocks
    RowCounts <- MCRowCounts
    Excluded <- WithMisread
SPECIFICATION Spec
INVARIANT SameWeightAsDequantizer
