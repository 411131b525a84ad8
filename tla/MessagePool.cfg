SPECIFICATION PoolSpec
CONSTANTS
    KeyLen = 1
    LenBytes = 1
    Base = 8
    WriteHandlerType = 5
    ReadHandlerType = 2
    PoolSize = 6
    MaxRead = 7
    MaxTrail = 1
    Keys <- MCKeys
    Payloads <- MCPayloads
INVARIANTS FrameIgnoresBuffer DecodeExact
