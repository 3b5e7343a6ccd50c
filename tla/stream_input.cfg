\* Two sessions, every fault, a buffer with room for all the coder puts out.
SPECIFICATION Spec
CONSTANTS
    SampleBytes = 2
    Gain = 1
    Hold = 1
    STREAM_CHUNK = 6
    CHUNK = 16
    Faults <- AllFaults
    MaxSessions = 2
    MaxBytes = 14
    MaxCall = 7
INVARIANTS TypeOK DeliveryInOrder BufferBounded WrittenIsPrefix
CHECK_DEADLOCK FALSE
