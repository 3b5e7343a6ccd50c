\* Restricted codes, samples of 32 bits and a byte order, in a header that has no
\* extension for the last.
SPECIFICATION IqzipSpec
CONSTANTS
    Configs <- LostConfigs
    HeaderMemory <- ClearedMemory
    Payloads <- ZeroPayloads
INVARIANT AutomaticallyConfigured
CHECK_DEADLOCK FALSE
