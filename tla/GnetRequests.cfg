SPECIFICATION RequestsSpec
CONSTANTS
    KeyLen = 1
    LenBytes = 1
    Base = 8
    WriteHandlerType = 5
    ReadHandlerType = 2
    OtherHandlers = {7}
    MaxFrame = 5
    MaxPending = 2
    Transports = {"udp", "dummy", "uds", "tcp"}
    MaxMsgs = 2
    Keys <- MCKeys
    Payloads <- MCPayloads
INVARIANTS RequestsInv AnswersMatch
