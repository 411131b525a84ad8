SPECIFICATION FairSpec
CONSTANTS
    c1 = c1
    c2 = c2
    Clients <- MCClients
    MessagesPerClient = 3
    Sampling = 2
    Suites = {"quic", "dummy", "uds", "tcp", "udp"}
    Types = {"write", "read"}
CHECK_DEADLOCK FALSE
INVARIANTS BenchmarkInv ReportComplete
PROPERTIES Ends
