\* Split pile-up, no visualisation, every event accepted; threads are fair.
CONSTANTS
  Workers = {w1, w2}
  Callers = {c1, c2}
  Payloads = {p1, p2, p3}
  MaxPileUp = 2
  SplitPileUp = TRUE
  PostProcessing = FALSE
  MaxGrips = 0
  MayReject = FALSE
  Hoard = FALSE
  SizeMax = 7
  NoWorker = NoWorker
  NoPayload = NoPayload
SPECIFICATION FairSpec
INVARIANT SentinelConserved
INVARIANT NothingStranded
INVARIANT StartsTogether
PROPERTY ShutdownCompletes
PROPERTY ImplementsFairService
