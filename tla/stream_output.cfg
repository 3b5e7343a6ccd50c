\* One session, a buffer that the coder can fill.
SPECIFICATION FairSpec
CONSTANTS
    SampleBytes = 2
    Gain = 1
    Hold = 2
    STREAM_CHUNK = 6
    CHUNK = 3
    Faults <- EncodeFaults
    MaxSessions = 1
    MaxBytes = 14
    MaxCall = 7
INVARIANT OutputComplete
PROPERTY CallReturns
CHECK_DEADLOCK FALSE
