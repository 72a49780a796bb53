\* The README on broken connections against a restart that fails.
SPECIFICATION FairSpec
CONSTANTS
  MaxRest = 1
PROPERTIES
  BrokenConnectionRestored
CHECK_DEADLOCK FALSE
