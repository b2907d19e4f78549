--------------------------- MODULE ChildPipelines ---------------------------
(***************************************************************************)
(* Nodes that run other nodes: run_subgraph of engine.py, the manager loop  *)
(* (handlers/manager_loop.py) that runs a subgraph or another DOT file once *)
(* per cycle, and the folder node (handlers/pipeline.py) that runs another  *)
(* DOT file once.  Both give the child a copy of the parent's context.      *)
(*                                                                         *)
(* phase:                                                                   *)
(*   parent     the parent's own nodes are running                         *)
(*   cycle      head of the manager's loop                                 *)
(*   walking    the manager's child is run by run_subgraph                  *)
(*   folder     a folder node's child engine is running                    *)
(*   dotfile    the manager's child is an engine of its own                 *)
(*   observed   the manager has the cycle's outcome                        *)
(***************************************************************************)
EXTENDS EdgeSelection

CONSTANTS
  Graphs,        \* the graphs run_subgraph may walk
  Managers,      \* the attributes a manager node may have
  GateRetries,   \* _MAX_GOAL_GATE_RETRIES
  Given          \* the outcomes of nodes whose handlers are not modelled here:
                 \* other nodes of the parent, and whole runs of a child engine

ASSUME GateRetriesAssumption == GateRetries \in Nat \ {0}
ASSUME ChildGraphsAssumption ==
  \A g \in Graphs : g.nodes \subseteq Nodes /\ g.attrs \in [g.nodes -> NodeAttrs]
ASSUME GivenAssumption == Given \subseteq Outcome

(* entry is the target of the manager's first edge, stop its stop           *)
(* condition, seed a context.preferred_label attribute; file says what the  *)
(* child_dotfile resolves to, "" when there is none.                       *)
Manager ==
  [graph: Graphs, entry: Nodes \cup {NoNode}, maxCycles: Nat, stop: SUBSET Clause, seed: Labels,
   file: {"", "missing", "invalid", "graph"}]

ASSUME ManagersAssumption == Managers \subseteq Manager

VARIABLES
  manager,          \* never changes
  phase,
  parent,           \* of the parent's context: outcome, label and declared outputs
  child,            \* the same keys of the child's copy
  cycle,
  walk,             \* run_subgraph: node, steps taken, last outcome
  observed,         \* the outcome of each cycle of this visit
  cancelled,        \* the cancel event, shared with every child
  given             \* labels the child's own nodes have given

childVars == <<manager, phase, parent, child, cycle, walk, observed, cancelled, given>>
fixed == <<manager, cancelled>>
graph == manager.graph
walkVars == <<child, walk, given>>

(* outputs: the version of the keys that outputs= declares.                *)
Context == [outcome: Status \cup {""}, label: Labels, outputs: {"old", "new"}]
EmptyContext == [outcome |-> "", label |-> "", outputs |-> "old"]
NoWalk == [node |-> NoNode, steps |-> 0, last |-> NoOutcome]
Failure == Verdict("fail", FALSE)

ChildInit ==
  /\ manager \in Managers
  /\ phase = "parent"
  /\ parent = EmptyContext /\ child = EmptyContext
  /\ cycle = 0 /\ walk = NoWalk /\ observed = <<>>
  /\ cancelled = FALSE /\ given = {}

-----------------------------------------------------------------------------
(* run_subgraph                                                            *)

Budget == Cardinality(graph.nodes) * GateRetries

(* The label stays when a node gives none.                                 *)
Updated(ctx, o) ==
  [ctx EXCEPT !.outcome = o.status, !.label = IF o.label = "" THEN @ ELSE o.label]

Observe(o) == phase' = "observed" /\ observed' = Append(observed, o)

AtNode == phase = "walking" /\ walk.steps < Budget
Terminal(n) == graph.attrs[n].exit \/ n \in graph.joins

SubgraphExceeds ==
  /\ phase = "walking" /\ walk.steps = Budget
  /\ Observe(Failure)
  /\ UNCHANGED <<fixed, parent, cycle, walkVars>>

SubgraphCancelled ==
  /\ AtNode /\ cancelled
  /\ Observe(Failure)
  /\ UNCHANGED <<fixed, parent, cycle, walkVars>>

ReachTerminal ==
  /\ AtNode /\ ~cancelled /\ Terminal(walk.node)
  /\ Observe(IF walk.last = NoOutcome THEN Verdict("success", FALSE) ELSE walk.last)
  /\ UNCHANGED <<fixed, parent, cycle, walkVars>>

(* A plausible slip: a loop whose counter nobody advances.                *)
NeverTaken == walk.steps

Taken == walk.steps + 1

MayExecute == AtNode /\ ~cancelled /\ ~Terminal(walk.node)

SubgraphNodeRaises ==
  /\ MayExecute
  /\ graph.attrs[walk.node].raises # {}
  /\ Observe(Failure)
  /\ UNCHANGED <<fixed, parent, cycle, walkVars>>

(* Unlike run(), no retries: the outcome is recorded and routed at once.    *)
SubgraphNode(o) ==
  LET edges == SelectEdge(graph, walk.node, o, Updated(child, o))
  IN  /\ MayExecute
      /\ o \in graph.attrs[walk.node].results
      /\ child' = Updated(child, o)
      /\ given' = given \cup ({o.label} \ {""})
      /\ \/ /\ edges # {}
            /\ \E e \in edges : walk' = [node |-> e.to, steps |-> Taken, last |-> o]
            /\ UNCHANGED <<phase, observed>>
         \/ /\ edges = {}
            /\ Observe(IF Outgoing(graph, walk.node) = {} THEN o ELSE Failure)
            /\ UNCHANGED walk
      /\ UNCHANGED <<fixed, parent, cycle>>

-----------------------------------------------------------------------------
(* The manager                                                             *)

(* The handler returns, its locals and the child's context go, and the      *)
(* parent engine records the outcome.                                      *)
Return(o, outputs) ==
  /\ parent' = [Updated(parent, o) EXCEPT !.outputs = outputs]
  /\ phase' = "parent"
  /\ child' = EmptyContext /\ given' = {}
  /\ cycle' = 0 /\ walk' = NoWalk /\ observed' = <<>>

(* Nothing to supervise.                                                   *)
ManagerRefuses ==
  /\ phase = "parent"
  /\ manager.file = "" /\ manager.entry = NoNode
  /\ Return(Failure, parent.outputs)
  /\ UNCHANGED fixed

EnterManager ==
  /\ phase = "parent"
  /\ manager.file # "" \/ manager.entry # NoNode
  /\ phase' = "cycle"
  /\ UNCHANGED <<fixed, parent, cycle, observed, walkVars>>

(* A plausible slip: the copy keeps the label of whatever ran before.     *)
InheritedContext(seed) == IF seed = "" THEN parent ELSE [parent EXCEPT !.label = seed]

(* A clone without the label, and with the label the node's own attribute   *)
(* asks for.                                                               *)
ChildContext(seed) == [parent EXCEPT !.label = seed]

BeginCycle ==
  /\ phase = "cycle" /\ cycle < manager.maxCycles
  /\ cycle' = cycle + 1
  /\ child' = ChildContext(manager.seed)
  /\ given' = {manager.seed} \ {""}
  /\ IF manager.file = ""
     THEN /\ phase' = "walking"
          /\ walk' = [NoWalk EXCEPT !.node = manager.entry]
          /\ UNCHANGED observed
     ELSE /\ IF manager.file = "graph" THEN phase' = "dotfile" /\ UNCHANGED observed
             ELSE Observe(Failure)
          /\ UNCHANGED walk
  /\ UNCHANGED <<fixed, parent>>

(* A plausible slip: anything but a failure is taken for a success.       *)
NotFailed(o) == o.status # "fail"

DefaultGuard(o) == IsSuccess(o)

(* The stop condition reads the child's outcome and the PARENT's context.  *)
StopHolds(o) ==
  IF manager.stop = {} THEN DefaultGuard(o)
  ELSE \A c \in manager.stop : ClauseHolds(c, o, parent)

Latest == observed[Len(observed)]

ManagerStops ==
  /\ phase = "observed" /\ StopHolds(Latest)
  /\ Return([Latest EXCEPT !.label = "", !.suggest = <<>>], parent.outputs)
  /\ UNCHANGED fixed

NextCycle ==
  /\ phase = "observed" /\ ~StopHolds(Latest)
  /\ phase' = "cycle"
  /\ UNCHANGED <<fixed, parent, cycle, observed, walkVars>>

Exhausted ==
  /\ phase = "cycle" /\ cycle = manager.maxCycles
  /\ Return(Failure, parent.outputs)
  /\ UNCHANGED fixed

(* The child is an engine of its own, or raises.                           *)
ChildEngineEnds(o) ==
  /\ phase = "dotfile"
  /\ o \in Given \cup {Failure}
  /\ Observe(o)
  /\ UNCHANGED <<fixed, parent, cycle, walkVars>>

-----------------------------------------------------------------------------
(* The folder node                                                         *)

(* No dot_file, no such file, not a graph.                                 *)
FolderRefuses ==
  /\ phase = "parent"
  /\ Return(Failure, parent.outputs)
  /\ UNCHANGED fixed

EnterFolder ==
  /\ phase = "parent"
  /\ phase' = "folder"
  /\ child' = ChildContext(manager.seed)
  /\ given' = {manager.seed} \ {""}
  /\ UNCHANGED <<fixed, parent, cycle, walk, observed>>

FolderNode(o, outputs) ==
  /\ phase = "folder"
  /\ child' = [Updated(child, o) EXCEPT !.outputs = outputs]
  /\ given' = given \cup ({o.label} \ {""})
  /\ UNCHANGED <<fixed, phase, parent, cycle, walk, observed>>

(* Only a success hands its declared outputs to the parent.                *)
Merged(o) == IF IsSuccess(o) THEN child.outputs ELSE parent.outputs

FolderEnds(o) ==
  /\ phase = "folder"
  /\ Return(o, Merged(o))
  /\ UNCHANGED fixed

-----------------------------------------------------------------------------
(* Another node of the parent.                                             *)
ParentNode(o) ==
  /\ phase = "parent"
  /\ parent' = Updated(parent, o)
  /\ UNCHANGED <<fixed, phase, cycle, walkVars, observed>>

Cancel ==
  /\ ~cancelled /\ cancelled' = TRUE
  /\ UNCHANGED <<manager, phase, parent, cycle, walkVars, observed>>

SubgraphStep ==
  \/ SubgraphExceeds \/ SubgraphCancelled \/ ReachTerminal \/ SubgraphNodeRaises
  \/ \E n \in graph.nodes : \E o \in graph.attrs[n].results : n = walk.node /\ SubgraphNode(o)

ManagerStep ==
  \/ SubgraphStep
  \/ BeginCycle \/ ManagerStops \/ NextCycle \/ Exhausted
  \/ \E o \in Given \cup {Failure} : ChildEngineEnds(o)

ParentStep ==
  \/ ManagerRefuses \/ EnterManager
  \/ FolderRefuses \/ EnterFolder
  \/ \E o \in Given : (\E v \in {"old", "new"} : FolderNode(o, v)) \/ ParentNode(o)
  \/ \E o \in Given \cup {Failure} : FolderEnds(o)

=============================================================================
