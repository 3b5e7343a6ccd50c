\* Two sessions, every fault, output that can fill the buffer.
SPECIFICATION FairSpec
CONSTANTS
    SampleBytes = 2
    Expand = 2
    CHUNK = 4
    INT_RANGE = 128
    max_header_size = 3
    HeaderSizes = {1, 3}
    Faults <- AllFaults
    MaxSessions = 2
    MaxSize = 12
INVARIANTS TypeOK FedBehindHeader WrittenIsPrefix SuccessMeansComplete
PROPERTY DecompressReturns
CHECK_DEADLOCK FALSE
