SPECIFICATION FairSpec
CONSTANTS
  Events = {e1, e2, e3, e4}
  NRedecay = 3
  ParallelOriginal = 2
  EvtMax = 4
  Threads = 4
  Slots = 4
  MayFail = TRUE
  NoEvent = NoEvent
INVARIANTS
  UsesBalance
  NeverOrphaned
  OriginalDataKept
  ErasedWhenUsedUp
  CountersTellCompletion
  NoSuperfluousOriginal
PROPERTIES
  EventsLeave
  ImplementsReuse
