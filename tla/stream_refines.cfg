\* One session without faults against ChunkedDelivery.
SPECIFICATION FairSpec
CONSTANTS
    SampleBytes = 2
    Gain = 1
    Hold = 1
    STREAM_CHUNK = 6
    CHUNK = 16
    Faults <- NoFaults
    MaxSessions = 1
    MaxBytes = 14
    MaxCall = 7
PROPERTY ImplementsDelivery
CHECK_DEADLOCK FALSE
