SPECIFICATION FairSpec
CONSTANTS
  MaxRest = 2
INVARIANTS
  TypeOK
  ServesLiveSockets
  ResidueMeansSocketDown
  FaultsHaveACause
PROPERTIES
  BreaksAreRepaired
  SessionsEnd
  PingsResume
  InterruptEnds
CHECK_DEADLOCK FALSE
