-------------------------- MODULE SubagentsProofs --------------------------
(***************************************************************************)
(* What the subagent tools keep, for any children, messages and rounds of   *)
(* calls.                                                                  *)
(***************************************************************************)
EXTENDS Subagents, SequenceTheorems, WellFoundedInduction, TLAPS

Pending == UNION {agents[a].pending : a \in Agents}
Fields == {"status", "pending", "result"}

(* What a running child still has queued, and may lose when it completes,   *)
(* was handed to it or came while it ran.                                  *)
MessagesInv ==
  /\ DOMAIN agents = Agents /\ \A a \in Agents : DOMAIN agents[a] = Fields
  /\ call \in [Slots -> Agents \cup {"todo", "done"}]
  /\ quiet \subseteq accepted
  /\ \A a \in Agents : agents[a].pending \subseteq accepted
  /\ \A a \in Agents : Running(a) => agents[a].pending \cap quiet \subseteq carried
  /\ quiet \subseteq carried \cup dropped \cup Pending

LEMMA MessagesInit == Init => MessagesInv
<1> SUFFICES ASSUME Init PROVE MessagesInv
  OBVIOUS
<1>1. DOMAIN Absent = Fields /\ Absent.pending = {}
  BY DEF Absent, Fields
<1>2. DOMAIN agents = Agents /\ \A a \in Agents : agents[a] = Absent
  BY DEF Init
<1> QED
  BY <1>1, <1>2 DEF Init, MessagesInv, Running

(* A step that leaves the children alone and starts none.                   *)
LEMMA NoChildStarts ==
  ASSUME MessagesInv, UNCHANGED <<agents, ghosts>>,
         call' \in [Slots -> Agents \cup {"todo", "done"}],
         \A a \in Agents : Running(a)' => Running(a)
  PROVE  MessagesInv'
<1>1. UNCHANGED <<accepted, quiet, carried, dropped>> /\ Pending' = Pending
  BY DEF ghosts, Pending
<1> QED
  BY <1>1 DEF MessagesInv

LEMMA ReturnStartsNone ==
  ASSUME MessagesInv, NEW s \in Slots, Return(s)
  PROVE  /\ call' \in [Slots -> Agents \cup {"todo", "done"}]
         /\ \A a \in Agents : Running(a)' => Running(a)
BY AgentsAssumption DEF MessagesInv, Return, Running

LEMMA SendKeeps ==
  ASSUME MessagesInv, NEW s \in Slots, NEW a \in Agents, NEW m \in Messages, SendInput(s, a, m)
  PROVE  MessagesInv'
<1>1. /\ call' \in [Slots -> Agents \cup {"todo", "done"}]
      /\ \A b \in Agents : Running(b)' => Running(b)
  BY ReturnStartsNone DEF SendInput
<1>2. /\ DOMAIN agents' = Agents /\ \A b \in Agents : DOMAIN agents'[b] = Fields
      /\ agents'[a].pending = agents[a].pending \cup {m}
      /\ \A b \in Agents \ {a} : agents'[b] = agents[b]
      /\ accepted' = accepted \cup {m} /\ UNCHANGED <<carried, dropped>> /\ m \notin accepted
      /\ quiet' = IF Running(a) THEN quiet ELSE quiet \cup {m}
  BY DEF MessagesInv, SendInput, Fields
<1>3. \A b \in Agents : agents[b].pending \subseteq agents'[b].pending
  BY <1>2
<1>4. quiet' \subseteq carried' \cup dropped' \cup Pending'
  BY <1>2, <1>3 DEF MessagesInv, Pending
<1>5. ASSUME NEW b \in Agents, Running(b)'
      PROVE  agents'[b].pending \cap quiet' \subseteq carried'
  BY <1>1, <1>2, <1>5 DEF MessagesInv
<1> QED
  BY <1>1, <1>2, <1>4, <1>5 DEF MessagesInv

LEMMA WaitKeeps ==
  ASSUME MessagesInv, NEW s \in Slots, NEW a \in Agents, WaitRuns(s, a)
  PROVE  MessagesInv'
<1>1. /\ DOMAIN agents' = Agents /\ \A b \in Agents : DOMAIN agents'[b] = Fields
      /\ \A b \in Agents : agents'[b].pending = agents[b].pending
      /\ UNCHANGED <<accepted, quiet, dropped>> /\ carried' = carried \cup agents[a].pending
  BY DEF MessagesInv, WaitRuns, Instruction, Fields
<1>2. /\ call' \in [Slots -> Agents \cup {"todo", "done"}]
      /\ \A b \in Agents \ {a} : Running(b)' => Running(b)
  BY DEF MessagesInv, WaitRuns, Running
<1>3. Pending' = Pending
  BY <1>1 DEF Pending
<1> QED
  BY <1>1, <1>2, <1>3 DEF MessagesInv

LEMMA RunEndsKeeps ==
  ASSUME MessagesInv, NEW s \in Slots, NEW ok \in BOOLEAN, RunEnds(s, ok)
  PROVE  MessagesInv'
<1> DEFINE a == call[s]
<1>1. a \in Agents /\ Running(a)
  BY DEF MessagesInv, RunEnds, InFlight, Running
<1>2. /\ call' \in [Slots -> Agents \cup {"todo", "done"}]
      /\ \A b \in Agents : Running(b)' => Running(b)
  BY ReturnStartsNone DEF RunEnds
<1>3. agents' = [agents EXCEPT ![a] = IF ok THEN Completed(a, s) ELSE Failed(a, s)]
  BY DEF RunEnds
<1>4. UNCHANGED <<accepted, quiet, carried, dropped>>
  BY DEF RunEnds, ghosts
<1> HIDE DEF a
<1>5. /\ DOMAIN agents' = Agents /\ \A b \in Agents : DOMAIN agents'[b] = Fields
      /\ agents'[a].pending \in {{}, agents[a].pending}
      /\ \A b \in Agents \ {a} : agents'[b] = agents[b]
  BY <1>1, <1>3 DEF MessagesInv, Completed, Failed, Fields
<1>6. agents[a].pending \cap quiet \subseteq carried
  BY <1>1 DEF MessagesInv
<1>7. quiet \subseteq carried \cup dropped \cup Pending'
  BY <1>1, <1>5, <1>6 DEF MessagesInv, Pending
<1>8. \A b \in Agents : agents'[b].pending \subseteq agents[b].pending
  BY <1>1, <1>5
<1> QED
  BY <1>2, <1>4, <1>5, <1>7, <1>8 DEF MessagesInv

LEMMA CloseKeeps ==
  ASSUME MessagesInv, NEW s \in Slots, NEW a \in Agents, CloseAgent(s, a)
  PROVE  MessagesInv'
<1>1. /\ call' \in [Slots -> Agents \cup {"todo", "done"}]
      /\ \A b \in Agents : Running(b)' => Running(b)
  BY ReturnStartsNone DEF CloseAgent
<1>2. /\ DOMAIN agents' = Agents /\ \A b \in Agents : DOMAIN agents'[b] = Fields
      /\ agents'[a].pending = {}
      /\ \A b \in Agents \ {a} : agents'[b] = agents[b]
      /\ UNCHANGED <<accepted, quiet, carried>> /\ dropped' = dropped \cup agents[a].pending
  BY DEF MessagesInv, CloseAgent, Fields
<1>3. quiet \subseteq carried \cup dropped' \cup Pending'
  BY <1>2 DEF MessagesInv, Pending
<1> QED
  BY <1>1, <1>2, <1>3 DEF MessagesInv

LEMMA SpawnKeeps ==
  ASSUME MessagesInv, NEW s \in Slots, NEW a \in Agents, SpawnAgent(s, a)
  PROVE  MessagesInv'
<1>1. /\ call' \in [Slots -> Agents \cup {"todo", "done"}]
      /\ \A b \in Agents : Running(b)' => Running(b)
  BY ReturnStartsNone DEF SpawnAgent
<1>2. NewAgent.pending = {} /\ Absent.pending = {} /\ DOMAIN NewAgent = Fields
  BY DEF NewAgent, Absent, Fields
<1>3. /\ DOMAIN agents' = Agents /\ \A b \in Agents : DOMAIN agents'[b] = Fields
      /\ \A b \in Agents : agents'[b].pending = agents[b].pending
      /\ UNCHANGED <<accepted, quiet, carried, dropped>>
  BY <1>2 DEF MessagesInv, SpawnAgent, ghosts
<1>4. Pending' = Pending
  BY <1>3 DEF Pending
<1> QED
  BY <1>1, <1>3, <1>4 DEF MessagesInv

LEMMA MessagesStep ==
  ASSUME MessagesInv, [Next]_vars
  PROVE  MessagesInv'
<1>1. ASSUME UNCHANGED vars \/ RegisterSpawn \/ \E mounted \in Mountings : Open(mounted)
      PROVE  MessagesInv'
  <2>1. UNCHANGED <<agents, call, ghosts>>
    BY <1>1 DEF vars, RegisterSpawn, Open, ghosts
  <2> QED
    BY <2>1, NoChildStarts DEF MessagesInv, Running
<1>2. ASSUME (\E slots \in (SUBSET Slots) \ {{}} : Round(slots)) \/ CancelRound
      PROVE  MessagesInv'
  <2>1. UNCHANGED <<agents, ghosts>> /\ call' \in [Slots -> {"todo", "done"}]
    BY <1>2 DEF Round, CancelRound
  <2> QED
    BY <2>1, NoChildStarts, AgentsAssumption DEF Running
<1>3. ASSUME NEW s \in Slots, NEW a \in Agents,
             Refused(s) \/ WaitCached(s, a) \/ WaitUnavailable(s, a)
      PROVE  MessagesInv'
  <2>1. UNCHANGED <<agents, ghosts>> /\ Return(s)
    BY <1>3 DEF Refused, WaitCached, WaitUnavailable
  <2> QED
    BY <2>1, NoChildStarts, ReturnStartsNone
<1>4. ASSUME NEW s \in Slots, Refused(s) PROVE MessagesInv'
  BY <1>4, NoChildStarts, ReturnStartsNone DEF Refused
<1>5. ASSUME NEW s \in Slots, ToolCall(s) PROVE MessagesInv'
  BY <1>3, <1>4, <1>5, SpawnKeeps, SendKeeps, WaitKeeps, CloseKeeps DEF ToolCall
<1> QED
  BY <1>1, <1>2, <1>5, RunEndsKeeps DEF Next

(* However waits, messages and closes of one round overlap and rounds are   *)
(* cancelled, a message that was acknowledged while its child was not       *)
(* running is carried, queued or thrown away by close (QuietMessagesKept).  *)
THEOREM QuietMessagesHold == Spec => []QuietMessagesKept
<1>1. MessagesInv => QuietMessagesKept
  BY DEF MessagesInv, QuietMessagesKept, Pending
<1> QED
  BY <1>1, MessagesInit, MessagesStep, PTL DEF Spec

(* A verdict nobody is about to overwrite is changed by close alone         *)
(* (VerdictStands).                                                        *)
THEOREM VerdictStandsHolds == Spec => VerdictStands
<1> DEFINE Stands(a) ==
      \/ agents'[a].status = "closed"
      \/ agents'[a].status = agents[a].status /\ agents'[a].result = agents[a].result
<1>1. ASSUME MessagesInv, [Next]_vars, NEW a \in Agents,
             agents[a].status \in {"completed", "failed"}, ~Running(a)
      PROVE  Stands(a)
  <2>0. DOMAIN agents = Agents /\ \A b \in Agents : DOMAIN agents[b] = Fields
    BY <1>1 DEF MessagesInv
  <2>1. CASE agents' = agents
    BY <2>1
  <2>2. ASSUME NEW s \in Slots, NEW b \in Agents, SpawnAgent(s, b) PROVE Stands(a)
    BY <1>1, <2>0, <2>2 DEF SpawnAgent, Absent
  <2>3. ASSUME NEW s \in Slots, NEW b \in Agents, NEW m \in Messages, SendInput(s, b, m)
        PROVE  Stands(a)
    BY <2>0, <2>3 DEF SendInput, Fields
  <2>4. ASSUME NEW s \in Slots, NEW b \in Agents, WaitRuns(s, b) PROVE Stands(a)
    BY <1>1, <2>0, <2>4 DEF WaitRuns, Settled
  <2>5. ASSUME NEW s \in Slots, NEW b \in Agents, CloseAgent(s, b) PROVE Stands(a)
    BY <2>0, <2>5 DEF CloseAgent, Fields
  <2>6. ASSUME NEW s \in Slots, NEW ok \in BOOLEAN, RunEnds(s, ok) PROVE Stands(a)
    <3>1. call[s] # a
      BY <1>1 DEF Running
    <3> QED
      BY <2>0, <2>6, <3>1 DEF RunEnds
  <2>7. ASSUME NEW s \in Slots, NEW b \in Agents,
               Refused(s) \/ WaitCached(s, b) \/ WaitUnavailable(s, b)
        PROVE  agents' = agents
    BY <2>7 DEF Refused, WaitCached, WaitUnavailable
  <2>8. ASSUME NEW s \in Slots, Refused(s) PROVE agents' = agents
    BY <2>8 DEF Refused
  <2>9. ASSUME NEW s \in Slots, ToolCall(s) PROVE Stands(a)
    BY <2>1, <2>2, <2>3, <2>4, <2>5, <2>7, <2>8, <2>9 DEF ToolCall
  <2>10. ASSUME \/ UNCHANGED vars \/ RegisterSpawn \/ CancelRound
                \/ \E mounted \in Mountings : Open(mounted)
                \/ \E slots \in (SUBSET Slots) \ {{}} : Round(slots)
         PROVE  agents' = agents
    BY <2>10 DEF vars, RegisterSpawn, CancelRound, Open, Round
  <2> QED
    BY <1>1, <2>1, <2>6, <2>9, <2>10 DEF Next
<1>2. MessagesInv /\ [Next]_vars
        => [\A a \in Agents :
              agents[a].status \in {"completed", "failed"} /\ ~Running(a) => Stands(a)]_vars
  BY <1>1
<1> QED
  BY <1>2, MessagesInit, MessagesStep, PTL DEF Spec, VerdictStands
-----------------------------------------------------------------------------
(* The provider of the session *)

LEMMA LeastIs ==
  ASSUME NEW I, I \subseteq Nat, I # {}
  PROVE  Min(I) \in I
<1> DEFINE less == OpToRel(<, Nat)
<1>0. less = {ss \in Nat \X Nat : ss[1] < ss[2]}
  BY Zenon DEF OpToRel
<1>1. \E x \in I : \A y \in I : ~(<<y, x>> \in less)
  BY NatLessThanWellFounded, WFMin
<1> HIDE DEF less
<1>2. PICK x \in I : \A y \in I : ~(<<y, x>> \in less)
  BY <1>1
<1>3. ASSUME NEW y \in I PROVE x <= y
  <2>1. x \in Nat /\ y \in Nat
    OBVIOUS
  <2>2. y < x => <<y, x>> \in less
    BY <1>0, <2>1
  <2> QED
    BY <1>2, <2>1, <2>2
<1> QED
  BY <1>3 DEF Min

(* The provider an explicit name is resolved to.                           *)
LEMMA SelectedIs ==
  ASSUME NEW mounted \in Mountings, config.explicit # None, Selected(mounted) # None
  PROVE  \/ Selected(mounted) = config.explicit
         \/ Related(config.explicit, Selected(mounted))
<1> DEFINE I == {i \in 1 .. Len(mounted) : Related(config.explicit, mounted[i])}
<1>1. I \subseteq Nat
  BY LenProperties, MountingsAssumption
<1>2. I # {} => Min(I) \in I /\ Related(config.explicit, mounted[Min(I)])
  BY <1>1, LeastIs
<1>3. I = {} \/ Min(I) \in I
  BY <1>2
<1> DEFINE first == IF I # {} THEN Min(I) ELSE 0
<1>4. Selected(mounted) = IF config.explicit \in Range(mounted) THEN config.explicit
                          ELSE IF first = 0 THEN None ELSE mounted[first]
  BY DEF Selected, SelectInSeq
<1> HIDE DEF I
<1> QED
  BY <1>2, <1>4

(* The session never runs on a model of another family than the node asked  *)
(* for, whatever providers are mounted under whatever names, and the default *)
(* base prompt is that of the model that completes.                        *)
THEOREM NodeGetsItsModelHolds == Spec => []NodeGetsItsModel
<1>1. Init => NodeGetsItsModel
  BY DEF Init, NodeGetsItsModel
<1>2. ASSUME NodeGetsItsModel, [Next]_vars
      PROVE  NodeGetsItsModel'
  <2>1. ASSUME NEW mounted \in Mountings, Open(mounted)
        PROVE  NodeGetsItsModel'
    <3> DEFINE p == Selected(mounted)
    <3>1. /\ config' = config /\ session'.provider = p /\ session'.base = BasePrompt(p)
          /\ p # None /\ BasePrompt(p) # None
      BY <2>1 DEF Open
    <3>2. config.explicit = None \/ p = config.explicit \/ Related(config.explicit, p)
      BY <3>1, SelectedIs
    <3> HIDE DEF p
    <3>3. config.prompt = "default" => BasePrompt(p) = Family[p]
      BY <3>1 DEF BasePrompt
    <3>4. \/ config.explicit \in {None, p}
          \/ Family[config.explicit] = Family[p] /\ Family[p] # None
      BY <3>2, Zenon DEF Related
    <3> QED
      BY <3>1, <3>3, <3>4 DEF NodeGetsItsModel
  <2>2. CASE UNCHANGED <<config, session>>
    BY <1>2, <2>2 DEF NodeGetsItsModel
  <2>3. ASSUME NEW s \in Slots, ToolCall(s) PROVE UNCHANGED <<config, session>>
    BY <2>3 DEF ToolCall, Refused, SpawnAgent, SendInput, WaitCached, WaitUnavailable, WaitRuns,
                CloseAgent
  <2>4. ASSUME NEW s \in Slots, NEW ok \in BOOLEAN, RunEnds(s, ok)
        PROVE  UNCHANGED <<config, session>>
    BY <2>4 DEF RunEnds
  <2>5. ASSUME \/ UNCHANGED vars \/ RegisterSpawn \/ CancelRound
               \/ \E slots \in (SUBSET Slots) \ {{}} : Round(slots)
        PROVE  UNCHANGED <<config, session>>
    BY <2>5 DEF vars, RegisterSpawn, CancelRound, Round
  <2> QED
    BY <1>2, <2>1, <2>2, <2>3, <2>4, <2>5 DEF Next
<1> QED
  BY <1>1, <1>2, PTL DEF Spec
=============================================================================
