SPECIFICATION Spec
CONSTANTS
  MaxTracks = 6
  ga = ga
  gb = gb
  gc = gc
  gd = gd
  Particles = {ga,gb,gc}
  Mother <- MCMother
  NoParticle = NoParticle
  StorePrimaries = TRUE
  StoreDecayProducts = TRUE
  AddEndVertices = TRUE
  MaxSuspensions = 1
INVARIANTS
  ParentsRecorded
  FlaggedRecorded
  HitsRecorded
  ClosestAncestor
  SiblingsAgree
  RegisteredOnce
