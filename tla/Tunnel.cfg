SPECIFICATION FairSpec
CONSTANTS
    BufLen = 2
    MaxBytes = 3
INVARIANTS EndsAfterAll TxExact CountedOnce
PROPERTIES Reaches TunnelEnds ProbeEnds
