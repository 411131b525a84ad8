SPECIFICATION TransportSpec
CONSTANTS
    Conns = {c1, c2}
    MaxStarts = 2
    MaxStops = 2
    MaxRuns = 2
CHECK_DEADLOCK FALSE
INVARIANTS QuicInv QuietAfterStop TlsSound
PROPERTIES StopCompletes
