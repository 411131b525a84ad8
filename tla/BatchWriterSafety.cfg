SPECIFICATION Spec
CONSTANTS
  k1 = k1
  k2 = k2
  k3 = k3
  c1 = c1
  NoKey = NoKey
  Keys <- MCKeys
  FirstByte <- MCFirstByte
  Callers = {c1}
  NumWorkers = 2
  MaxBatchSize = 2
  ChanCap = 2
  MaxWrites = 2
  MayFail = TRUE
  MayCrash = TRUE
  MayStop = TRUE
INVARIANTS WriterInv NewestAccounted BatchBounded
PROPERTIES WholeBatches RefinesWriteBehind
