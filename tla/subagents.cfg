CONSTANTS
  a1 = a1
  a2 = a2
  m1 = m1
  m2 = m2
  Agents <- MCAgents
  Messages <- MCMessages
  Slots <- MCSlots
  Family <- MCFamily
  Mountings <- MCMountings
  Configs <- MCConfigs
SPECIFICATION Spec
SYMMETRY Symmetry
\* A session nobody can open stays closed.
CHECK_DEADLOCK FALSE
INVARIANTS
  QuietMessagesKept
  NodeGetsItsModel
PROPERTIES
  VerdictStands
