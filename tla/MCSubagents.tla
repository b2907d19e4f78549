---------------------------- MODULE MCSubagents ----------------------------
(***************************************************************************)
(* Two children, two messages and rounds of three calls, so that two waits   *)
(* of one child can overlap with a message or a close.  The provider names   *)
(* cover both kinds of name the code tells apart: of a known family, and    *)
(* (azure-openai) of none although the text of one occurs in it.           *)
(***************************************************************************)
EXTENDS Subagents

CONSTANTS a1, a2, m1, m2

MCAgents == {a1, a2}
MCMessages == {m1, m2}
MCSlots == 1 .. 3

MCFamily ==
  [p \in {"openai", "provider-openai", "azure-openai", "custom"} |->
     IF p \in {"openai", "provider-openai"} THEN "openai" ELSE None]
MCMountings ==
  {<<"openai", "azure-openai">>, <<"custom", "provider-openai">>, <<"azure-openai">>}

(* Every choice of provider and prompt for a session without subagents, and *)
(* the two ways of running a round's calls for one that has them.          *)
MCConfigs ==
  [explicit: {None, "openai", "azure-openai"}, prompt: {"inline", "file", "default"},
   found: BOOLEAN, depth: {1}, maxDepth: {1}, parallel: {TRUE}]
    \cup [explicit: {"openai"}, prompt: {"inline"}, found: {TRUE},
          depth: {0}, maxDepth: {1}, parallel: BOOLEAN]

Symmetry == Permutations(MCAgents) \cup Permutations(MCMessages)

=============================================================================
