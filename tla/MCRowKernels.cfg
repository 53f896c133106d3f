CONSTANTS
    RowBlocks <- MCRowBlocks
    RowCounts <- MCRowCounts
    Excluded <- MCExcluded
SPECIFICATION Spec
INVARIANTS
    TypeOK
    RowComplete
    RowsWritten
    SameWeightAsDequantizer
    
