\* The comment of decl_header.hpp on client_id against a message of two elements.
SPECIFICATION Spec
CONSTANTS
  Markets <- TwoMarkets
  Commands <- AllCommands
  Scripts <- BatchScripts
  MaxOrders = 1
  MaxBreaks = 0
  Wrong = Wrong
INVARIANTS
  ClientIdGivenByCore
CHECK_DEADLOCK FALSE
