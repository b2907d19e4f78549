-------------------------- MODULE MCSupervisedLoop --------------------------
(***************************************************************************)
(* A child of two nodes that may loop, end at an exit or a join, have no     *)
(* way on, or raise; managers with the default guard, a condition on the    *)
(* child's outcome and one on the parent's label; two targets with a critic *)
(* each.                                                                   *)
(***************************************************************************)
EXTENDS SupervisedLoop, TLC

CONSTANTS c1, c2, j, x, k1, k2

MCNodes == {c1, c2, j, x}
MCRank == c1 :> 1 @@ c2 :> 2 @@ j :> 3 @@ x :> 4
MCLabels == {"", "done"}
MCNormal == [l \in MCLabels |-> l]

ok == Verdict("success", TRUE)
bad == Verdict("fail", TRUE)
again == Verdict("retry", TRUE)
Says(o, l) == [o EXCEPT !.label = l]

Plain ==
  [exit |-> FALSE, component |-> FALSE, runsOn |-> "success",
   refs |-> {}, outputs |-> {}, gate |-> FALSE, retry |-> NoNode, fallback |-> NoNode,
   autoStatus |-> FALSE, continueOnFail |-> FALSE, allowPartial |-> FALSE,
   mustWrite |-> FALSE, requires |-> FALSE, timeout |-> FALSE,
   maxAttempts |-> 1, results |-> {ok}, raises |-> {}]

To(n, m) == [from |-> n, to |-> m, pos |-> MCRank[n] * 10 + MCRank[m], weight |-> 0,
             label |-> "", cond |-> {}, restart |-> FALSE]
When(e, key, v) == [e EXCEPT !.cond = {[key |-> key, op |-> "=", value |-> v]}]

(* c1 leads on by its label, which c2 has to leave alone.                  *)
Child ==
  [nodes |-> {c1, c2, j, x}, start |-> NoNode, joins |-> {j},
   attrs |-> c1 :> [Plain EXCEPT !.results = {ok, bad, Says(ok, "done")}, !.raises = {"terminal"}]
             @@ c2 :> [Plain EXCEPT !.results = {ok, again}]
             @@ j :> Plain @@ x :> [Plain EXCEPT !.exit = TRUE],
   edges |-> {To(c1, c2), When(To(c2, x), "context.preferred_label", "done"),
              When(To(c2, c1), "outcome", "retry"), When(To(c2, j), "outcome", "success")},
   retry |-> NoNode, fallback |-> NoNode, maxDuration |-> FALSE]
(* c2 is the last node.                                                    *)
Chain == [Child EXCEPT !.edges = {To(c1, c2)}]

MCGraphs == {Child, Chain}

Attributes(sub, entry, cycles, stop, seed, file) ==
  [graph |-> sub, entry |-> entry, maxCycles |-> cycles, stop |-> stop, seed |-> seed, file |-> file]
OutcomeIs(v) == {[key |-> "outcome", op |-> "=", value |-> v]}
LabelIs(v) == {[key |-> "context.preferred_label", op |-> "=", value |-> v]}

MCManagers ==
  {Attributes(g, c1, 2, stop, "", "") : g \in MCGraphs, stop \in {{}, LabelIs("done")}}
    \cup {Attributes(Chain, c1, 2, OutcomeIs("done"), "done", ""),
          Attributes(Chain, NoNode, 2, {}, "", ""), Attributes(Chain, c1, 0, {}, "", ""),
          Attributes(Chain, c1, 2, {}, "", "graph"), Attributes(Chain, c1, 2, {}, "", "missing")}

MCLongLoops == {Attributes(Chain, c1, 2, LabelIs("done"), "", "")}

MCGiven == {bad, Says(ok, "done")}

MCTargets == {"generate", "draft"}
MCCritic == [t \in MCTargets |-> IF t = "generate" THEN k1 ELSE k2]

=============================================================================
