\* Five generated particles: two lines of descent may part, one of them passed
\* over, and meet again with a third particle.
SPECIFICATION Spec
CONSTANTS
  Generated = 5
  MaxDeclared = 2
INVARIANTS
  StructureVerified
  ParentsFromHepMC
  NothingStale
  RecordIsWhatHappened
