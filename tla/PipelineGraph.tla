--------------------------- MODULE PipelineGraph ---------------------------
(***************************************************************************)
(* The data the pipeline engine walks: node outcomes (outcome.py), graphs   *)
(* (graph.py), the output table (node_outputs.py) and the graph-shaped      *)
(* helpers of engine.py that read nothing but the graph.                    *)
(*                                                                         *)
(* A graph is a record.  Node ids are model values; their lexical order,    *)
(* which edge selection uses as a tie-break, is the constant Rank.          *)
(***************************************************************************)
EXTENDS Integers, Sequences, FiniteSets

CONSTANTS
  Nodes,      \* every node id a graph, or an outcome's suggestion, may name
  NoNode,     \* stands for an absent node id (Python None or "")
  Rank,       \* position of each id in the lexical order of node ids
  Keys,       \* context keys that outputs= declares and ${key} references
  Labels,     \* preferred labels and edge labels, "" (no label) included
  Normal      \* _normalize_label, as a function on Labels

ASSUME NodesAssumption == IsFiniteSet(Nodes) /\ NoNode \notin Nodes
ASSUME RankAssumption ==
  Rank \in [Nodes -> Nat] /\ \A m, n \in Nodes : Rank[m] = Rank[n] => m = n
ASSUME LabelsAssumption == "" \in Labels /\ Normal \in [Labels -> Labels]

-----------------------------------------------------------------------------
(* Outcomes *)

Status == {"success", "partial_success", "retry", "fail", "skipped"}

(* explicit: the verdict was asserted by the node, not synthesised.        *)
(* suggest: the ids of suggested_next_ids that survive coercion, in order; *)
(* an id outside the graph stands for one that resolves to nothing.        *)
Outcome == [status: Status, explicit: BOOLEAN, label: Labels, suggest: Seq(Nodes)]

Verdict(s, e) == [status |-> s, explicit |-> e, label |-> "", suggest |-> <<>>]

(* "No entry for this node" in the engine's outcome table.                 *)
NoOutcome == [status |-> "none", explicit |-> FALSE, label |-> "", suggest |-> <<>>]

SuccessStatus == {"success", "partial_success"}
IsSuccess(o) == o.status \in SuccessStatus

-----------------------------------------------------------------------------
(* Nodes, edges and graphs *)

RunsOn == {"success", "always", "failure"}
Raises == {"terminal", "retryable"}    \* how should_retry classifies a raise

(* results / raises: what the node's handler may answer; every other field *)
(* is an attribute of the node.  outputs is its row of the output table,   *)
(* refs the keys its substitutable attributes mention.                     *)
NodeAttrs ==
  [exit: BOOLEAN, component: BOOLEAN, runsOn: RunsOn,
   refs: SUBSET Keys, outputs: SUBSET Keys,
   gate: BOOLEAN, retry: Nodes \cup {NoNode}, fallback: Nodes \cup {NoNode},
   autoStatus: BOOLEAN, continueOnFail: BOOLEAN, allowPartial: BOOLEAN,
   mustWrite: BOOLEAN, requires: BOOLEAN, timeout: BOOLEAN,
   maxAttempts: Nat \ {0}, results: SUBSET Outcome, raises: SUBSET Raises]

(* A condition is a set of clauses, all of which must hold; {} is "no      *)
(* condition".                                                             *)
ClauseKeys == {"outcome", "preferred_label", "context.outcome", "context.preferred_label"}
Clause == [key: ClauseKeys, op: {"=", "!=", "truthy"}, value: Status \cup Labels]

(* pos is the edge's position in the graph's edge list.                    *)
Edge == [from: Nodes, to: Nodes, pos: Nat, weight: Int, label: Labels,
         cond: SUBSET Clause, restart: BOOLEAN]

IsGraph(g) ==
  /\ g.nodes \subseteq Nodes
  /\ g.start \in g.nodes
  /\ g.attrs \in [g.nodes -> NodeAttrs]
  /\ g.edges \subseteq Edge /\ IsFiniteSet(g.edges)
  /\ \A e, f \in g.edges : e.pos = f.pos => e = f
  /\ g.retry \in Nodes \cup {NoNode}
  /\ g.fallback \in Nodes \cup {NoNode}
  /\ g.maxDuration \in BOOLEAN

Outgoing(g, n) == {e \in g.edges : e.from = n}

(* Python's "a or b or ..." over possibly absent ids: the first present.   *)
FirstOf(a, b) == IF a # NoNode THEN a ELSE b

(* A retry target counts only when it names a node of the graph, and a     *)
(* dangling first choice hides a valid fallback.                           *)
FailureRetryTarget(g, n) ==
  LET id == FirstOf(g.attrs[n].retry, g.attrs[n].fallback)
  IN  IF id \in g.nodes THEN id ELSE NoNode

GateRetryTarget(g, n) ==
  LET id == FirstOf(FirstOf(g.attrs[n].retry, g.attrs[n].fallback),
                    FirstOf(g.retry, g.fallback))
  IN  IF id \in g.nodes THEN id ELSE NoNode

-----------------------------------------------------------------------------
(* Distances *)

(* Nodes at most d edges away from r.                                      *)
Beyond(g, S) == UNION {{n} \cup {e.to : e \in Outgoing(g, n)} : n \in S}

Within(g, r) ==
  LET W[d \in Nat] == IF d = 0 THEN {r} ELSE Beyond(g, W[d - 1])
  IN  W

(* The ERROR rules of validate() about the shape of the graph: without     *)
(* them validate_or_raise refuses the graph and no engine is built.        *)
RetryTargets(g) ==
  {g.retry, g.fallback} \cup UNION {{g.attrs[n].retry, g.attrs[n].fallback} : n \in g.nodes}

Validated(g) ==
  /\ \A e \in g.edges : e.from \in g.nodes /\ e.to \in g.nodes
  /\ \A e \in g.edges : e.to # g.start /\ ~g.attrs[e.from].exit
  /\ \E n \in g.nodes : \A m \in g.nodes : g.attrs[m].exit <=> m = n
  /\ g.nodes \subseteq Within(g, g.start)[Cardinality(g.nodes)] \cup RetryTargets(g)

-----------------------------------------------------------------------------
(* Fan-in discovery of a component node *)

BranchRoots(g, n) == {e.to : e \in Outgoing(g, n)}

(* n is reachable from every branch root, the farthest at depth d or less. *)
CommonWithin(g, roots, d) ==
  {n \in g.nodes \ roots : \A r \in roots : n \in Within(g, r)[d]}

(* The common descendants with the least maximal depth.  Python takes the  *)
(* min over a set of strings, so a tie is decided by hash order: every     *)
(* element of this set is a possible fan-in node.                          *)
FanInNodes(g, roots) ==
  LET D == 0 .. Cardinality(g.nodes)
  IN  {n \in g.nodes :
         \E d \in D : /\ n \in CommonWithin(g, roots, d)
                      /\ \A c \in D : c < d => CommonWithin(g, roots, c) = {}}

=============================================================================
