CONSTANTS
  b1 = b1
  b2 = b2
  b3 = b3
  Branches <- MCBranches
  Configs <- MCConfigs
SPECIFICATION FairSpec
\* The node's work ends.
CHECK_DEADLOCK FALSE
INVARIANTS
  JoinExact
  CancelsWhenSettled
  NoOrphans
  ResultsComplete
  WinnerExact
PROPERTIES
  HandlerEnds
