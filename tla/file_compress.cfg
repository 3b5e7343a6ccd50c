\* Two sessions, every fault, output that can fill the buffer.
SPECIFICATION FairSpec
CONSTANTS
    SampleBytes = 2
    Gain = 1
    Hold = 4
    CHUNK = 4
    INT_RANGE = 64
    Faults <- AllFaults
    MaxSessions = 2
    MaxSize = 9
INVARIANTS TypeOK ReadInOrder WrittenIsPrefix SuccessMeansComplete
PROPERTY CompressReturns
CHECK_DEADLOCK FALSE
