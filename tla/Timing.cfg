SPECIFICATION FairSpec
CONSTANTS
  EvtMax = 8
  FirstTiming = 5
  Threads = 3
  Slots = 4
INVARIANTS
  TimedEventsKnown
  ClockStartsTogether
PROPERTIES
  EveryEventDone
