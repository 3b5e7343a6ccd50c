\* One archive through both programs, every fault, every kind of header.
SPECIFICATION FairRSpec
CONSTANTS
    SampleBytes = 2
    Gain = 1
    Hold = 2
    Expand = 2
    CHUNK = 4
    INT_RANGE = 128
    Faults <- AllFaults
    DecompressFaults <- AllDecompressFaults
    max_header_size = 18
    Headers <- AllHeaders
    MaxSessions = 1
    MaxSize = 5
INVARIANTS FedIsCoded ExitMeansRestored
PROPERTY BothEnd
CHECK_DEADLOCK FALSE
