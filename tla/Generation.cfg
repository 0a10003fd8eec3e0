SPECIFICATION Spec
CONSTANTS
  Events = 2
  MaxTries = 2
  MaxPile = 2
  MaxRepetitions = 2
  UIntSize = 2
  SignalFromOthers = FALSE
INVARIANTS
  SignalUnique
  OwnPartons
  CountersAgree
