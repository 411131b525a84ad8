SPECIFICATION RequestsSpec
CONSTANTS
    KeyLen = 1
    LenBytes = 1
    Base = 8
    WriteHandlerType = 5
    ReadHandlerType = 2
    OtherHandlers = {7}
    MaxFrame = 5
    MaxPending = 1
    Transports = {"udp"}
    MaxMsgs = 0
    Keys <- MCKeys
    Payloads <- MCPayloads
INVARIANTS ValueIsRemainingPart
