\* The comment on the result of cancel_all_orders against a left-over error.
SPECIFICATION FairSpec
CONSTANTS
  MaxRest = 1
PROPERTIES
  CancelReportedTruthfully
CHECK_DEADLOCK FALSE
