CONSTANTS
  c1 = c1
  c2 = c2
  j = j
  x = x
  k1 = k1
  k2 = k2
  NoNode = NoNode
  Nodes <- MCNodes
  Rank <- MCRank
  Keys = {}
  Labels <- MCLabels
  Normal <- MCNormal
  Graphs <- MCGraphs
  Managers <- MCManagers
  GateRetries = 1
  Given <- MCGiven
  Targets <- MCTargets
  Critic <- MCCritic
  Texts = {"text"}
  MaxCritiques = 2
  MaxIterations = 3
  LongLoops <- MCLongLoops
SPECIFICATION FairSpec
INVARIANTS
  LabelFromThisChild
  ChannelIsRecentHistory
PROPERTIES
  ManagerVerdict
  ManagerEnds
