CONSTANTS
  c1 = c1
  c2 = c2
  s1 = s1
  f1 = f1
  f2 = f2
  Calls <- MCCalls
  SteeringMsgs <- MCSteering
  FollowUpMsgs <- MCFollowUps
  AnswerSizes <- MCSizes
  Configs <- MCConfigs
SPECIFICATION FairSpec
\* The host may have no task left to start.
CHECK_DEADLOCK FALSE
INVARIANTS
  RequestsWellFormed
  MessagesAccounted
  EndAnnounced
PROPERTIES
  ConversationKept
  CallsEnd
