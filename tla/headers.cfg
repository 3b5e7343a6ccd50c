\* Either object, in zeroed or used memory: a number for each field of a segment
\* and one more, legal or not, in any order.  Then every kind of block size and
\* option of a whole header, and files too short to parse.
SPECIFICATION MCSpec
CONSTANTS
    Memory <- SomeMemory
    Samples <- EdgeSamples
    Received <- OneReceived
    CipMemory <- SomeCipMemory
    CipConfigs <- TwoConfigs
    CipSamples <- CipEdgeSamples
    CipReceived <- OneCipReceived
    MaxRewrites = 1
    Configs <- AllConfigs
    HeaderMemory <- ClearedMemory
    Payloads <- AllPayloads
INVARIANTS HeaderFieldsAccumulate HeaderLengthAgrees StreamConfigured FieldsSurvive
CHECK_DEADLOCK FALSE
