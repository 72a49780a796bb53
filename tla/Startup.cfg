\* Every source; the agent sends three documents at any time, the longest of them too long
\* for one poll.
SPECIFICATION FairSpec
CONSTANTS
  Documents <- AllDocuments
  MaxPolls = 5
  FragmentLimit = 2
  MaxDocuments = 3
INVARIANTS
  TypeOK
  ServesOnlyWhole
  NeverServesWithoutKeys
  OneDocumentUsed
  GivesUpOnlyUnanswered
PROPERTIES
  StartEnds
CHECK_DEADLOCK FALSE
