\* Three-byte samples: the buffer is not a whole number of samples.
SPECIFICATION FairSpec
CONSTANTS
    SampleBytes = 3
    Gain = 1
    Hold = 2
    CHUNK = 4
    INT_RANGE = 64
    Faults <- NoFaults
    MaxSessions = 1
    MaxSize = 6
PROPERTY CompressReturns
CHECK_DEADLOCK FALSE
