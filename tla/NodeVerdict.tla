-------------------------- MODULE NodeVerdict ----------------------------
(***************************************************************************)
(* What a backend makes of a model's answer: the status of the node's      *)
(* outcome, and whether the node asserted it (is_explicit).                *)
(*                                                                         *)
(* An answer is reduced to what the three backends look at: whether the    *)
(* call failed, the report_outcome calls in order, the form of the last    *)
(* text with the status it carries, and how a spawned session ended.       *)
(***************************************************************************)
EXTENDS Sequences, SequencesExt

Reportable == {"success", "partial_success", "retry", "fail"}   \* what the report tool accepts
Statuses == Reportable \cup {"skipped"}                         \* what is recognised in an answer

\* "spawn" and "loop" are the two paths of AmplifierBackend, "direct" is DirectProviderBackend.
Kinds == {"spawn", "loop", "direct"}

Derived(s) == [status |-> s, explicit |-> FALSE]
Asserted(s) == [status |-> s, explicit |-> TRUE]

\* report_outcome's arguments as they stand in the call.
OfCall(r) == Asserted(IF r \in Statuses THEN r ELSE "fail")
LastCall(a) == a.reports[Len(a.reports)]

\* What the tool recorded: the last report it accepted, kept in the session's metadata.
ValidReports(a) == SelectSeq(a.reports, LAMBDA r : r \in Reportable)

\* A verdict in the text: pure JSON, fenced JSON, or the last balanced braces of
\* prose, which are the inner ones when the verdict holds an object itself.
Recognised(t) ==
    /\ t.status \in Statuses
    /\ t.form \in {"json", "fenced"} \/ (t.form = "embedded" /\ ~t.nested)

\* Prose passes, except at a goal gate, which has to assert its verdict.
ParseOutcome(t, node) ==
    CASE t.form = "empty"                    -> Derived("fail")
      [] t.form # "empty" /\ Recognised(t)   -> Asserted(t.status)
      [] OTHER                               -> Derived(IF node.gate THEN "retry" ELSE "success")

\* An answer without text and without a report.
NoWords(node) == Derived(IF node.gate THEN "fail" ELSE "success")

\* A session that ended well without closing words passes, unasserted.
ClosedAsserted(a) == IF a.ended = "success" THEN Asserted("success") ELSE Derived("fail")
Closed(a) == Derived(IF a.ended = "success" THEN "success" ELSE "fail")

OutcomeFromSpawn(a) ==
    IF ValidReports(a) # <<>> THEN Asserted(Last(ValidReports(a))) ELSE Closed(a)

OutcomeFromStructured(a) ==
    CASE a.reports # <<>> -> OfCall(LastCall(a))
      [] a.reports = <<>> /\ a.text.form = "json" /\ a.text.status \in Statuses -> Asserted(a.text.status)
      [] OTHER -> Derived("success")

SpawnOutcome(a, node) ==
    CASE node.schema \/ a.failed -> Derived("fail")
      [] ~node.schema /\ ~a.failed /\ a.text.form = "empty" -> OutcomeFromSpawn(a)
      [] OTHER -> ParseOutcome(a.text, node)

LoopOutcome(a, node) ==
    CASE a.failed -> Derived("fail")
      [] ~a.failed /\ node.schema -> OutcomeFromStructured(a)
      [] ~a.failed /\ ~node.schema /\ a.reports # <<>> -> OfCall(LastCall(a))
      [] OTHER -> IF a.text.form = "empty" THEN NoWords(node) ELSE ParseOutcome(a.text, node)

\* Text that looks like JSON is read before the report is.
LooksLikeJson(a) == a.text.form \in {"json", "fenced"}
DirectOutcome(a, node) ==
    IF ~a.failed /\ ~node.schema /\ LooksLikeJson(a)
    THEN ParseOutcome(a.text, node)
    ELSE LoopOutcome(a, node)

OutcomeOf(kind, a, node) ==
    CASE kind = "spawn"  -> SpawnOutcome(a, node)
      [] kind = "loop"   -> LoopOutcome(a, node)
      [] kind = "direct" -> DirectOutcome(a, node)
=============================================================================
