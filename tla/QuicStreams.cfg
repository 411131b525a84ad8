SPECIFICATION StreamsSpec
CONSTANTS
    KeyLen = 1
    LenBytes = 1
    Base = 8
    WriteHandlerType = 5
    ReadHandlerType = 2
    Keys <- MCKeys
    Payloads <- MCPayloads
    s1 = s1
    s2 = s2
    Streams = {s1, s2}
    OtherHandlers = {3}
    BufSize = 4
    MaxMsgs = 2
    MaxOthers = 1
SYMMETRY Symmetry
CHECK_DEADLOCK FALSE
INVARIANTS StreamInv MonotonicReads AnswerOnItsWay
