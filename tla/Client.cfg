SPECIFICATION ClientSpec
CONSTANTS
    s1 = s1
    s2 = s2
    Senders = {s1, s2}
    MaxConnects = 2
    MaxSends = 1
    MaxCloses = 1
    Others = {"quic"}
CHECK_DEADLOCK FALSE
INVARIANTS ClientInv PanicNeedsClose CloseLeavesReplaced
PROPERTIES ClientCallsReturn
