----------------------------- MODULE Subagents -----------------------------
(***************************************************************************)
(* The subagent tools of an agent session (loop-agent/subagent_tools.py)    *)
(* and the orchestrator that opens the session and mounts them             *)
(* (loop-agent/__init__.py).                                               *)
(*                                                                         *)
(* spawn_agent only notes a task.  The child runs inside wait, which awaits *)
(* the host's session.spawn.  The model's tool calls of one round run at    *)
(* once (asyncio.gather) or one after the other, so a second wait, a        *)
(* message or a close can come while a child runs, and they all share the   *)
(* one SubagentState of the child.  A round may be cancelled: the awaits    *)
(* raise CancelledError, which wait does not catch.                        *)
(*                                                                         *)
(* call[s], for each tool call of the round:                                *)
(*   todo, done                                                            *)
(*   an agent    a wait whose child is running                              *)
(***************************************************************************)
EXTENDS Naturals, Sequences, SequencesExt

CONSTANTS
  Agents,      \* the ids uuid4 may return
  Messages,    \* what send_input may be given, each once
  Slots,       \* 1..n, the tool calls of a round
  Family,      \* provider name -> its canonical family, or None
  Mountings,   \* the sequences of provider names a host may mount
  Configs      \* the configurations of the orchestrator

None == "none"
Statuses == {"absent", "pending", "running", "completed", "failed", "closed"}

(* explicit is llm_provider of the node; prompt says where the base prompt  *)
(* comes from; found whether the file that names it exists.                *)
Config ==
  [explicit: DOMAIN Family \cup {None}, prompt: {"inline", "file", "default"}, found: BOOLEAN,
   depth: Nat, maxDepth: Nat, parallel: BOOLEAN]

(* Ids are told apart from the marks of a call, as uuids are.              *)
ASSUME AgentsAssumption == Agents \cap {"todo", "done"} = {}
ASSUME SlotsAssumption == Slots \subseteq Nat
ASSUME ConfigsAssumption == Configs \subseteq Config
ASSUME MountingsAssumption == Mountings \subseteq Seq(DOMAIN Family) \ {<<>>}

VARIABLES
  config,      \* never changes
  session,     \* the AgentSession: its provider, base prompt and tools
  agents,      \* SubagentManager._agents
  call,        \* the tool calls of the round in progress
  capability,  \* whether the host has registered session.spawn
  spawnFn,     \* what the manager has found: unchecked, None or found
  accepted,    \* messages accepted so far
  quiet,       \* of these, the ones accepted while no run of the agent was in flight
  carried,     \* messages some instruction has carried
  dropped      \* messages a close has dropped

vars == <<config, session, agents, call, capability, spawnFn, accepted, quiet, carried, dropped>>
ghosts == <<accepted, quiet, carried, dropped>>

NoSession == [provider |-> None, base |-> None, subagents |-> FALSE]
Absent == [status |-> "absent", pending |-> {}, result |-> 0]

Init ==
  /\ config \in Configs
  /\ session = NoSession
  /\ agents = [a \in Agents |-> Absent]
  /\ call = [s \in Slots |-> "done"]
  /\ capability \in BOOLEAN
  /\ spawnFn = "unchecked"
  /\ accepted = {} /\ quiet = {} /\ carried = {} /\ dropped = {}

-----------------------------------------------------------------------------
(* The orchestrator: the session is created by the first execute, and kept. *)

(* A plausible slip: a name of no family is of the family of every other such name. *)
RelatedUnchecked(name, p) == Family[p] = Family[name]

(* The provider is of the family asked for; a name outside the known        *)
(* families has no relatives.                                              *)
Related(name, p) == Family[p] = Family[name] /\ Family[p] # None

Selected(mounted) ==
  LET first == SelectInSeq(mounted, LAMBDA p : Related(config.explicit, p)) IN
  IF config.explicit = None THEN mounted[1]
  ELSE IF config.explicit \in Range(mounted) THEN config.explicit
  ELSE IF first = 0 THEN None ELSE mounted[first]

(* inline text, the configured file, or the family's default file; None     *)
(* where the code raises.                                                  *)
BasePrompt(provider) ==
  IF config.prompt = "inline" THEN "inline"
  ELSE IF ~config.found \/ (config.prompt = "default" /\ Family[provider] = None) THEN None
  ELSE IF config.prompt = "file" THEN "file" ELSE Family[provider]

(* execute with no session yet.  When selection or the prompt raises        *)
(* nothing is kept, and the next execute tries again.                      *)
Open(mounted) ==
  /\ session = NoSession
  /\ Selected(mounted) # None
  /\ BasePrompt(Selected(mounted)) # None
  /\ session' = [provider |-> Selected(mounted), base |-> BasePrompt(Selected(mounted)),
                 subagents |-> config.depth < config.maxDepth]
  /\ UNCHANGED <<config, agents, call, capability, spawnFn, ghosts>>

RegisterSpawn ==
  /\ ~capability
  /\ capability' = TRUE
  /\ UNCHANGED <<config, session, agents, call, spawnFn, ghosts>>

-----------------------------------------------------------------------------
(* The tool calls of a round                                               *)

InFlight(s) == call[s] \notin {"todo", "done"}
Running(a) == \E s \in Slots : call[s] = a

(* The model answers with some tool calls.                                 *)
Round(slots) ==
  /\ session.subagents
  /\ \A s \in Slots : call[s] = "done"
  /\ call' = [s \in Slots |-> IF s \in slots THEN "todo" ELSE "done"]
  /\ UNCHANGED <<config, session, agents, capability, spawnFn, ghosts>>

(* gather starts every call; without it a call waits for the ones before.  *)
MayStart(s) ==
  /\ call[s] = "todo"
  /\ config.parallel \/ \A t \in Slots : t < s => call[t] = "done"

Return(s) == call' = [call EXCEPT ![s] = "done"]

NewAgent == [Absent EXCEPT !.status = "pending"]

SpawnAgent(s, a) ==
  /\ MayStart(s) /\ Return(s)
  /\ config.depth < config.maxDepth
  /\ agents[a] = Absent
  /\ agents' = [agents EXCEPT ![a] = NewAgent]
  /\ UNCHANGED <<config, session, capability, spawnFn, ghosts>>

SendInput(s, a, m) ==
  /\ MayStart(s) /\ Return(s)
  /\ agents[a] # Absent /\ agents[a].status # "closed"
  /\ m \notin accepted
  /\ agents' = [agents EXCEPT ![a].pending = @ \cup {m}]
  /\ accepted' = accepted \cup {m}
  /\ quiet' = IF Running(a) THEN quiet ELSE quiet \cup {m}
  /\ UNCHANGED <<config, session, capability, spawnFn, carried, dropped>>

(* An unknown id, a missing task, a message to a closed agent.             *)
Refused(s) ==
  /\ MayStart(s) /\ Return(s)
  /\ UNCHANGED <<config, session, agents, capability, spawnFn, ghosts>>

-----------------------------------------------------------------------------
(* wait                                                                    *)

(* A plausible slip: a failed child is run again.                         *)
CompletedOnly(a) == agents[a].status = "completed"

(* wait answers from the cache.                                            *)
Settled(a) == agents[a].status \in {"completed", "failed"}

(* _get_spawn_fn asks the coordinator once and keeps the answer.           *)
Resolved == IF spawnFn # "unchecked" THEN spawnFn ELSE IF capability THEN "found" ELSE None

(* A plausible slip: messages reach only a child that has not run yet.    *)
InstructionOnce(a) == IF agents[a].status = "pending" THEN agents[a].pending ELSE {}

(* What a wait that starts the child hands to it beside the task.          *)
Instruction(a) == agents[a].pending

WaitCached(s, a) ==
  /\ MayStart(s) /\ Return(s)
  /\ Settled(a)
  /\ UNCHANGED <<config, session, agents, capability, spawnFn, ghosts>>

WaitUnavailable(s, a) ==
  /\ MayStart(s) /\ Return(s)
  /\ agents[a] # Absent /\ ~Settled(a)
  /\ Resolved = None /\ spawnFn' = None
  /\ UNCHANGED <<config, session, agents, capability, ghosts>>

(* Neither running nor closed stops it.                                    *)
WaitRuns(s, a) ==
  /\ MayStart(s)
  /\ agents[a] # Absent /\ ~Settled(a)
  /\ Resolved = "found" /\ spawnFn' = "found"
  /\ agents' = [agents EXCEPT ![a].status = "running"]
  /\ call' = [call EXCEPT ![s] = a]
  /\ carried' = carried \cup Instruction(a)
  /\ UNCHANGED <<config, session, capability, accepted, quiet, dropped>>

(* The child's session ends.                                               *)
Completed(a, s) == [agents[a] EXCEPT !.status = "completed", !.result = s, !.pending = {}]

Failed(a, s) == [agents[a] EXCEPT !.status = "failed", !.result = s]

RunEnds(s, ok) ==
  /\ InFlight(s) /\ Return(s)
  /\ agents' = [agents EXCEPT ![call[s]] =
                  IF ok THEN Completed(call[s], s) ELSE Failed(call[s], s)]
  /\ UNCHANGED <<config, session, capability, spawnFn, ghosts>>

-----------------------------------------------------------------------------
CloseAgent(s, a) ==
  /\ MayStart(s) /\ Return(s)
  /\ agents[a] # Absent
  /\ agents' = [agents EXCEPT ![a].status = "closed", ![a].pending = {}]
  /\ dropped' = dropped \cup agents[a].pending
  /\ UNCHANGED <<config, session, capability, spawnFn, accepted, quiet, carried>>

(* The round is cancelled: what runs raises CancelledError, which leaves    *)
(* the status as it is; what has not started never does.                   *)
CancelRound ==
  /\ \E s \in Slots : call[s] # "done"
  /\ call' = [s \in Slots |-> "done"]
  /\ UNCHANGED <<config, session, agents, capability, spawnFn, ghosts>>

ToolCall(s) ==
  \/ Refused(s)
  \/ \E a \in Agents :
       \/ SpawnAgent(s, a)
       \/ \E m \in Messages : SendInput(s, a, m)
       \/ WaitCached(s, a) \/ WaitUnavailable(s, a) \/ WaitRuns(s, a)
       \/ CloseAgent(s, a)

Next ==
  \/ \E mounted \in Mountings : Open(mounted)
  \/ RegisterSpawn
  \/ \E slots \in (SUBSET Slots) \ {{}} : Round(slots)
  \/ \E s \in Slots : ToolCall(s) \/ \E ok \in BOOLEAN : RunEnds(s, ok)
  \/ CancelRound

Spec == Init /\ [][Next]_vars

-----------------------------------------------------------------------------
TypeOK ==
  /\ config \in Configs
  /\ session \in [provider: DOMAIN Family \cup {None}, base: STRING, subagents: BOOLEAN]
  /\ agents \in [Agents -> [status: Statuses, pending: SUBSET Messages, result: Slots \cup {0}]]
  /\ call \in [Slots -> Agents \cup {"todo", "done"}]
  /\ capability \in BOOLEAN /\ spawnFn \in {"unchecked", None, "found"}
  /\ quiet \subseteq accepted /\ accepted \cup carried \cup dropped \subseteq Messages

(* A message that was acknowledged while its child was not running is still *)
(* queued, or an instruction has carried it, or close_agent threw it away:  *)
(* the clearing of the queue when a run completes never takes a message     *)
(* that run, or an earlier one, was not given.  (For a message accepted     *)
(* while the child runs this is false: its queue is cleared all the same.)  *)
QuietMessagesKept ==
  quiet \subseteq carried \cup dropped \cup UNION {agents[a].pending : a \in Agents}

(* Once a child has completed or failed and no other wait still runs it,    *)
(* its verdict and its result stand: every later wait, in whatever order    *)
(* with the other tools, sees them, unless close_agent comes first.  (While *)
(* another wait still runs the child, its verdict may change.)             *)
VerdictStands ==
  [][\A a \in Agents :
       agents[a].status \in {"completed", "failed"} /\ ~Running(a) =>
         \/ agents'[a].status = "closed"
         \/ agents'[a].status = agents[a].status /\ agents'[a].result = agents[a].result]_vars

(* The session never runs on a model of another family than the node asked  *)
(* for, however the host names and orders its providers, and the default    *)
(* base prompt is the one of the model that completes.                     *)
NodeGetsItsModel ==
  session # NoSession =>
    /\ \/ config.explicit \in {None, session.provider}
       \/ /\ Family[config.explicit] = Family[session.provider]
          /\ Family[session.provider] # None
    /\ config.prompt = "default" => session.base = Family[session.provider]
=============================================================================
