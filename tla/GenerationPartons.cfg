SPECIFICATION Spec
CONSTANTS
  Events = 2
  MaxTries = 2
  MaxPile = 2
  MaxRepetitions = 2
  UIntSize = 2
  SignalFromOthers = TRUE
INVARIANTS
  OwnPartons
