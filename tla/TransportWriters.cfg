SPECIFICATION FairSpec
CONSTANTS
  k1 = k1
  c1 = c1
  NoKey = NoKey
  Keys = {k1}
  FirstByte <- MCFirstByte
  Callers = {c1}
  NumWorkers = 1
  MaxBatchSize = 2
  ChanCap = 1
  MaxWrites = 3
  MaxWritesTcp = 1
CHECK_DEADLOCK FALSE
INVARIANTS SettlesToNewest
PROPERTIES OvertakenByOther AcceptedReachesStore BufferWriteReturns WorkersStop
