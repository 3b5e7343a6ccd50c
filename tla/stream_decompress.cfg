\* Two sessions, every fault, a chunk that can expand beyond the buffer.
SPECIFICATION FairSpec
CONSTANTS
    SampleBytes = 2
    Expand = 3
    STREAM_CHUNK = 3
    CHUNK = 6
    Faults <- AllFaults
    MaxSessions = 2
    MaxBytes = 7
    MaxCall = 7
INVARIANTS TypeOK DeliveryInOrder BufferBounded WrittenIsPrefix OutputComplete
PROPERTY CallReturns
CHECK_DEADLOCK FALSE
