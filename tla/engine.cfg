CONSTANTS
  a = a
  b = b
  c = c
  d = d
  s = s
  x = x
  NoNode = NoNode
  Nodes <- MCNodes
  Rank <- MCRank
  Keys <- MCKeys
  Labels <- MCLabels
  Normal <- MCNormal
  Graphs <- MCGraphs
  MaxGateRetries = 3
SPECIFICATION FairSpec
\* run() returns: a finished engine takes no further step.
CHECK_DEADLOCK FALSE
INVARIANTS
  NoHandlerSeesFailedInput
  BlameIsGrounded
  SuccessMeansGatesHeld
  LabelFromThisIteration
PROPERTIES
  WalkKept
  ArtifactContract
  Termination
