-------------------------- MODULE MCPipelineEngine --------------------------
(***************************************************************************)
(* Small graphs for the engine, each built around one mechanism.            *)
(***************************************************************************)
EXTENDS PipelineEngine, TLC

CONSTANTS a, b, c, d, s, x   \* node ids, in lexical order; s is the start, x the exit

MCNodes == {a, b, c, d, s, x}
MCRank == a :> 1 @@ b :> 2 @@ c :> 3 @@ d :> 4 @@ s :> 5 @@ x :> 6
MCKeys == {"k", "l"}
MCLabels == {"", "Again", "again", "done"}
MCNormal == [l \in MCLabels |-> IF l = "Again" THEN "again" ELSE l]

ok == Verdict("success", TRUE)
quiet == Verdict("success", FALSE)     \* completed without saying so
bad == Verdict("fail", TRUE)
again == Verdict("retry", TRUE)
pass == Verdict("skipped", FALSE)
Says(o, l) == [o EXCEPT !.label = l]
Suggests(o, ids) == [o EXCEPT !.suggest = ids]

Plain ==
  [exit |-> FALSE, component |-> FALSE, runsOn |-> "success",
   refs |-> {}, outputs |-> {}, gate |-> FALSE, retry |-> NoNode, fallback |-> NoNode,
   autoStatus |-> FALSE, continueOnFail |-> FALSE, allowPartial |-> FALSE,
   mustWrite |-> FALSE, requires |-> FALSE, timeout |-> FALSE,
   maxAttempts |-> 1, results |-> {ok}, raises |-> {}]
Exit == [Plain EXCEPT !.exit = TRUE, !.results = {}]

To(n, m) == [from |-> n, to |-> m, pos |-> MCRank[n] * 10 + MCRank[m], weight |-> 0,
             label |-> "", cond |-> {}, restart |-> FALSE]
When(key, v) == {[key |-> key, op |-> "=", value |-> v]}
OnFail(n, m) == [To(n, m) EXCEPT !.cond = When("outcome", "fail"), !.pos = @ + 100]
OnSuccess(n, m) == [To(n, m) EXCEPT !.cond = When("outcome", "success"), !.pos = @ + 200]

(* Every graph starts at s, which leads to a.                              *)
Start == [Plain EXCEPT !.results = {quiet}]
G(attrs, edges) ==
  [nodes |-> {s} \cup DOMAIN attrs, start |-> s,
   attrs |-> (s :> Start) @@ attrs, edges |-> {To(s, a)} \cup edges,
   retry |-> NoNode, fallback |-> NoNode, maxDuration |-> FALSE]

(* a produces k for c; on failure b repairs and a runs again.              *)
FixLoop ==
  G(a :> [Plain EXCEPT !.outputs = {"k"}, !.results = {ok, bad}]
      @@ b :> Plain @@ c :> [Plain EXCEPT !.refs = {"k"}] @@ x :> Exit,
    {To(a, c), OnFail(a, b), To(b, a), To(c, x)})

(* b is a goal gate; its retry target a may go around it.  c is a last     *)
(* node whose FAIL carries a suggestion.                                   *)
GateRetry(implicit) ==
  [G(a :> [Plain EXCEPT !.results = {ok, Says(ok, "done"), Suggests(ok, <<c, x>>)}]
       @@ b :> [Plain EXCEPT !.gate = TRUE, !.results = {bad, implicit, Says(ok, "done")}]
       @@ c :> [Plain EXCEPT !.results = {Suggests(bad, <<b>>), Suggests(bad, <<d>>)}]
       @@ x :> Exit,
     {To(a, b), To(a, c), [To(a, x) EXCEPT !.label = "done"],
      [To(b, x) EXCEPT !.weight = 1], OnFail(b, x), OnFail(c, x)})
   EXCEPT !.retry = a, !.maxDuration = TRUE]

(* b cleans up after a failure of a; c chains on what b produces.          *)
Cleanup(declared, run) ==
  G(a :> [Plain EXCEPT !.outputs = declared, !.results = {ok, bad}]
      @@ b :> [Plain EXCEPT !.runsOn = run, !.refs = {"k"}, !.outputs = {"l"}]
      @@ c :> [Plain EXCEPT !.refs = {"l"}]
      @@ x :> Exit,
    {To(a, b), To(b, c), To(c, x), OnSuccess(b, x)})

(* Two cleanup nodes in a row.                                             *)
TwoCleanups ==
  G(a :> Plain
      @@ b :> [Plain EXCEPT !.runsOn = "failure", !.outputs = {"k"}]
      @@ c :> [Plain EXCEPT !.runsOn = "failure", !.outputs = {"l"}]
      @@ x :> Exit,
    {To(a, b), To(b, c), To(c, x)})

(* A skip chain that ends in c, which has no plain edge to leave by.       *)
SkipChain(back) ==
  G(a :> [Plain EXCEPT !.outputs = {"k"}, !.results = {ok, bad}]
      @@ b :> [Plain EXCEPT !.refs = {"k"}, !.outputs = {"l"}]
      @@ c :> [Plain EXCEPT !.refs = {"l"}, !.retry = back]
      @@ x :> Exit,
    {To(a, b), OnFail(a, b), To(b, c), OnSuccess(c, x)})

(* a fans out to b and c, which meet in both d and x.                      *)
Component == [Plain EXCEPT !.component = TRUE, !.results = {ok, bad}]
Fan ==
  G(a :> Component @@ b :> Plain @@ c :> Plain
      @@ d :> [Plain EXCEPT !.results = {ok, bad}, !.fallback = a] @@ x :> Exit,
    {To(a, b), To(a, c), To(b, d), To(b, x), To(c, d), To(c, x), To(d, x)})

(* The same without a node where b and c meet.                             *)
NoMeeting ==
  G(a :> Component @@ b :> Plain @@ c :> Plain @@ x :> Exit,
    {To(a, b), To(a, c), To(b, x)})

(* b loops back to a while its label, or the context's, says so.           *)
Restart ==
  G(a :> Plain
      @@ b :> [Plain EXCEPT !.gate = TRUE, !.retry = b,
                 !.results = {Says(ok, "again"), ok, Says(quiet, "done")}]
      @@ x :> Exit,
    {To(a, b), To(b, x),
     [To(b, a) EXCEPT !.restart = TRUE, !.cond = When("context.preferred_label", "again")]})

(* One node with the whole retry ladder and every override.                *)
Contract(auto, onFail, partial, write, back) ==
  G(a :> [Plain EXCEPT !.mustWrite = write, !.requires = TRUE, !.timeout = TRUE,
            !.maxAttempts = 2, !.autoStatus = auto, !.continueOnFail = onFail,
            !.allowPartial = partial, !.gate = TRUE, !.retry = back, !.outputs = {"k"},
            !.results = {ok, Says(bad, "again"), again, pass}, !.raises = Raises]
      @@ x :> Exit,
    {To(a, x)})

GateGraphs == {GateRetry(quiet)}

MCGraphs ==
  {FixLoop, GateRetry(quiet), Cleanup({"k"}, "failure"), Cleanup({}, "failure"),
   Cleanup({"k"}, "always"), TwoCleanups, SkipChain(a), SkipChain(NoNode), Fan, NoMeeting,
   Restart}
  \cup {Contract(auto, onFail, partial, write, back) :
          auto \in BOOLEAN, onFail \in BOOLEAN, partial \in BOOLEAN, write \in BOOLEAN,
          back \in {a, NoNode}}

=============================================================================
