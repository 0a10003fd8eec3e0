\* Merged pile-up with a visualisation manager. Workers may wait for ever at
\* the post-processing barrier (see the README), so no deadlock check.
CONSTANTS
  Workers = {w1, w2}
  Callers = {c1, c2}
  Payloads = {p1, p2, p3}
  MaxPileUp = 1
  SplitPileUp = FALSE
  PostProcessing = TRUE
  MaxGrips = 1
  MayReject = TRUE
  Hoard = FALSE
  SizeMax = 7
  NoWorker = NoWorker
  NoPayload = NoPayload
SPECIFICATION Spec
SYMMETRY Symmetry
PROPERTY DeletedByCreator
INVARIANT ReachableEventsLive
INVARIANT NeverDeletedTwice
INVARIANT AccountsBalance
INVARIANT NoEventLost
INVARIANT TeardownAfterPostProcessing
CHECK_DEADLOCK FALSE
