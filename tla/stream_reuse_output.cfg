\* A second session on one object: the bytes in the file.
SPECIFICATION Spec
CONSTANTS
    SampleBytes = 2
    Gain = 1
    Hold = 1
    STREAM_CHUNK = 6
    CHUNK = 16
    Faults <- NoFaults
    MaxSessions = 2
    MaxBytes = 6
    MaxCall = 2
INVARIANT SuccessMeansComplete
CHECK_DEADLOCK FALSE
