--------------------------- MODULE EdgeSelection ---------------------------
(***************************************************************************)
(* edge_selection.py and conditions.py: which edge the engine follows from  *)
(* a node, given the node's outcome and the two context keys the engine     *)
(* itself writes.  SelectEdge is the set of edges select_edge may return:   *)
(* empty when it returns None, otherwise a single edge, because a tie on    *)
(* weight and target is decided by the order of the edge list.             *)
(***************************************************************************)
EXTENDS PipelineGraph

(* The value a clause's key stands for; "" when absent.                    *)
Resolve(key, o, ctx) ==
  CASE key = "outcome" -> IF o.label # "" THEN o.label ELSE o.status
    [] key = "preferred_label" -> o.label
    [] key = "context.outcome" -> ctx.outcome
    [] key = "context.preferred_label" -> ctx.label

ClauseHolds(c, o, ctx) ==
  LET v == Resolve(c.key, o, ctx)
  IN  CASE c.op = "=" -> v = c.value
        [] c.op = "!=" -> v # c.value
        [] c.op = "truthy" -> v # ""

ConditionHolds(e, o, ctx) == \A c \in e.cond : ClauseHolds(c, o, ctx)

(* Highest weight, then lexically least target, then list order.           *)
Beats(e, f) ==
  \/ e.weight > f.weight
  \/ e.weight = f.weight /\ Rank[e.to] < Rank[f.to]
  \/ e.weight = f.weight /\ e.to = f.to /\ e.pos < f.pos

Best(S) == {e \in S : \A f \in S : ~Beats(f, e)}
Earliest(S) == {e \in S : \A f \in S : e.pos <= f.pos}

Unconditional(g, n) == {e \in Outgoing(g, n) : e.cond = {}}

(* Step 1 *)
ConditionMatched(g, n, o, ctx) ==
  {e \in Outgoing(g, n) : e.cond # {} /\ ConditionHolds(e, o, ctx)}

(* Step 2: unconditional edges carrying the preferred label.               *)
LabelMatched(g, n, o) ==
  {e \in Unconditional(g, n) :
     o.label # "" /\ e.label # "" /\ Normal[e.label] = Normal[o.label]}

(* Step 3: unconditional edges to the first suggestion that has any.       *)
SuggestionMatched(g, n, o) ==
  LET To(i) == {e \in Unconditional(g, n) : e.to = o.suggest[i]}
  IN  {e \in Unconditional(g, n) :
         \E i \in DOMAIN o.suggest :
            e \in To(i) /\ \A j \in 1 .. i - 1 : To(j) = {}}

(* Steps 4 and 5.  After a FAIL only targets that opt in are reachable by  *)
(* a plain edge.                                                           *)
OptsIn(g, n) == g.attrs[n].runsOn \in {"always", "failure"}

DefaultEdges(g, n, o) ==
  {e \in Unconditional(g, n) : o.status = "fail" => OptsIn(g, e.to)}

SelectEdge(g, n, o, ctx) ==
  LET matched == ConditionMatched(g, n, o, ctx)
      labelled == LabelMatched(g, n, o)
      suggested == SuggestionMatched(g, n, o)
  IN  IF matched # {} THEN Best(matched)
      ELSE IF labelled # {} THEN Earliest(labelled)
      ELSE IF suggested # {} THEN Earliest(suggested)
      ELSE Best(DefaultEdges(g, n, o))

=============================================================================
