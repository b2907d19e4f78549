--------------------------- MODULE MCAgentSession ---------------------------
(***************************************************************************)
(* A small session: two tasks of the host, two follow-ups, one steering     *)
(* message, and configurations limited by rounds or by turns.             *)
(***************************************************************************)
EXTENDS AgentSession

CONSTANTS c1, c2, s1, f1, f2

MCCalls == {c1, c2}
MCSteering == <<s1>>
MCFollowUps == <<f1, f2>>
MCSizes == {0, 2}
MCConfigs ==
  {[maxRounds |-> 1, maxTurns |-> 0, parallel |-> TRUE, detect |-> FALSE,
    steers |-> 0, follows |-> 2],
   [maxRounds |-> 0, maxTurns |-> 4, parallel |-> FALSE, detect |-> TRUE,
    steers |-> 1, follows |-> 1]}

=============================================================================
