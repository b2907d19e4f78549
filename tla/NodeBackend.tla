-------------------------- MODULE NodeBackend ----------------------------
(***************************************************************************)
(* The backends that run a pipeline's model nodes, with what they remember *)
(* between calls: a conversation for each thread, the last node, and the   *)
(* completed nodes a preamble tells about.                                 *)
(*                                                                         *)
(* The trunk and, between a fork and its join, two branches walk nodes in  *)
(* any order.  Each call is two steps around its awaits: the model's name  *)
(* is resolved, then the model answers.  Prompts and messages are left     *)
(* out, a human's typed words among them; a turn is the node, the walker   *)
(* and the number of the call.                                             *)
(***************************************************************************)
EXTENDS Naturals, FiniteSets, NodeVerdict, HumanGate

CONSTANTS Nodes,      \* the model nodes
          Attributes, \* node -> [full, thread, gate, schema]
          Threads,    \* the thread_ids the nodes declare
          NoThread,   \* a node without one
          NoNode,     \* no node yet
          ModelAnswers, \* what a model may answer: [failed, reports, text, ended]
          GateChoices,    \* the choices of the human gate
          MaxCalls    \* bound on the calls of a run

ASSUME NodesAssumption ==
    /\ NoNode \notin Nodes /\ NoThread \notin Threads /\ Nodes \cap Threads = {}
    /\ \A n \in Nodes : Attributes[n].thread \in Threads \cup {NoThread}

\* Of two choices with one accelerator the later one wins; here each has its own.
ASSUME ChoicesAssumption ==
    /\ Len(GateChoices) \in Nat \ {0} /\ DOMAIN GateChoices = 1 .. Len(GateChoices)
    /\ \A i, j \in DOMAIN GateChoices : GateChoices[i].key = GateChoices[j].key => i = j

Walkers == {"trunk", "left", "right"}
Branches == {"left", "right"}
Keys == Threads \cup Nodes

VARIABLES kind,      \* which backend the run has
          forked,    \* the branches walk, the trunk waits
          act,       \* walker -> the call it is in
          threads,   \* backend object -> key -> its turns
          lastNode,  \* backend object -> _last_node_id
          completed, \* backend object -> the nodes in _completed_nodes, with who ran them
          calls,     \* calls begun so far
          heard,     \* the last call that returned: its node, answer and outcome
          asked      \* the last answer at the human gate and the choice it selected

vars == <<kind, forked, act, threads, lastNode, completed, calls, heard, asked>>
memory == <<threads, lastNode, completed>>

NoCallYet == [phase |-> "idle", node |-> NoNode, visit |-> 0, key |-> NoThread, seen |-> <<>>,
              told |-> {}]
NothingHeard == [node |-> NoNode]
NothingAsked == [answer |-> Skipped, selected |-> 0]
NoTurns == [k \in Keys |-> <<>>]
Turn(n, w, v) == [node |-> n, by |-> w, visit |-> v]

\* A plausible slip: a branch goes on with its parent's backend.
SharedObject(w) == "trunk"
\* The object a walker runs on: AmplifierBackend is cloned for a branch,
\* DirectProviderBackend has no clone() and is shared.
Object(w) == IF kind = "direct" THEN "trunk" ELSE w

\* The thread of a node: its own, else the one named after the previous node.
\* The handler passes no edge, so an edge's thread_id and fidelity do not count.
ThreadKey(n, last) ==
    CASE Attributes[n].thread # NoThread -> Attributes[n].thread
      [] Attributes[n].thread = NoThread /\ last # NoNode -> last
      [] OTHER -> n

Init ==
    /\ kind \in Kinds /\ forked = FALSE
    /\ act = [w \in Walkers |-> NoCallYet]
    /\ threads = [w \in Walkers |-> NoTurns]
    /\ lastNode = [w \in Walkers |-> NoNode]
    /\ completed = [w \in Walkers |-> {}]
    /\ calls = 0 /\ heard = NothingHeard /\ asked = NothingAsked

Walks(w) == (w \in Branches) <=> forked
Idle(w) == act[w].phase = "idle"

----------------------------------------------------------------------------
(* A call. *)

\* The handler calls the backend.  The direct backend fixes the thread before
\* it waits for the model's name, the other one looks after it.
Begin(w, n) ==
    /\ Walks(w) /\ Idle(w) /\ calls < MaxCalls
    /\ calls' = calls + 1
    /\ act' = [act EXCEPT ![w] = [NoCallYet EXCEPT !.phase = "resolving", !.node = n, !.visit = calls + 1,
                                    !.key = ThreadKey(n, lastNode[Object(w)])]]
    /\ heard' = NothingHeard /\ asked' = NothingAsked
    /\ UNCHANGED <<kind, forked, memory>>

\* The name matches nothing that is served, or the spawn path has no profile
\* for the provider or only one that would run the pipeline again: the handler
\* turns the exception into a failed node, and the backend records nothing.
Refuse(w) ==
    /\ act[w].phase = "resolving"
    /\ act' = [act EXCEPT ![w] = NoCallYet]
    /\ heard' = NothingHeard /\ asked' = NothingAsked
    /\ UNCHANGED <<kind, forked, memory, calls>>

\* The prompt is put together and the model is called: a full node gets the
\* thread's turns, any other a preamble of the completed nodes.
Ask(w) ==
    LET n == act[w].node
        key == IF kind = "direct" THEN act[w].key ELSE ThreadKey(n, lastNode[Object(w)])
        threaded == Attributes[n].full
    IN  /\ act[w].phase = "resolving"
        /\ act' = [act EXCEPT ![w].phase = "calling", ![w].key = key,
                     ![w].seen = IF threaded /\ kind # "loop" THEN threads[Object(w)][key] ELSE <<>>,
                     ![w].told = IF threaded THEN {} ELSE completed[Object(w)]]
        /\ heard' = NothingHeard /\ asked' = NothingAsked
        /\ UNCHANGED <<kind, forked, memory, calls>>

\* A plausible slip: the turn is added and an earlier one of the node kept.
Appended(turns, t) == Append(turns, t)
\* The turn replaces an earlier one of its node and all that came after it.
Rewritten(turns, t) ==
    LET at == SelectInSeq(turns, LAMBDA u : u.node = t.node)
    IN  Append(IF at = 0 THEN turns ELSE SubSeq(turns, 1, at - 1), t)

\* Whether an answer's turn is kept: the spawn path returns early when there
\* are no closing words, the direct one when it has read a verdict.
Kept(a, node) ==
    /\ node.full /\ ~a.failed /\ ~node.schema
    /\ \/ kind = "spawn" /\ a.text.form # "empty"
       \/ kind = "direct" /\ ~LooksLikeJson(a) /\ a.reports = <<>>

\* The direct backend writes the conversation it had read, with its own turn.
Saved(w, a) ==
    LET c == act[w]
        t == Turn(c.node, w, c.visit)
    IN  IF ~Kept(a, Attributes[c.node]) THEN threads
        ELSE [threads EXCEPT ![Object(w)][c.key] =
                IF kind = "direct" THEN Append(c.seen, t) ELSE Rewritten(@, t)]

Return(w, a) ==
    LET c == act[w]
        recorded == kind # "direct" \/ ~a.failed
    IN  /\ c.phase = "calling"
        /\ threads' = Saved(w, a)
        /\ lastNode' = IF recorded THEN [lastNode EXCEPT ![Object(w)] = c.node] ELSE lastNode
        /\ completed' = IF recorded THEN [completed EXCEPT ![Object(w)] = @ \cup {<<c.node, w>>}] ELSE completed
        /\ act' = [act EXCEPT ![w] = NoCallYet]
        /\ heard' = [node |-> c.node, answer |-> a, outcome |-> OutcomeOf(kind, a, Attributes[c.node])]
        /\ asked' = NothingAsked
        /\ UNCHANGED <<kind, forked, calls>>

\* A node's timeout or a failing sibling branch cancels the call: nothing is recorded.
Cut(w) ==
    /\ ~Idle(w)
    /\ act' = [act EXCEPT ![w] = NoCallYet]
    /\ heard' = NothingHeard /\ asked' = NothingAsked
    /\ UNCHANGED <<kind, forked, memory, calls>>

----------------------------------------------------------------------------
(* Branches and the human gate. *)

\* Each branch has a copy of the context and a backend that remembers nothing.
Fork ==
    /\ ~forked /\ Idle("trunk")
    /\ forked' = TRUE
    /\ threads' = [w \in Walkers |-> IF w = "trunk" THEN threads[w] ELSE NoTurns]
    /\ lastNode' = [w \in Walkers |-> IF w = "trunk" THEN lastNode[w] ELSE NoNode]
    /\ completed' = [w \in Walkers |-> IF w = "trunk" THEN completed[w] ELSE {}]
    /\ heard' = NothingHeard /\ asked' = NothingAsked
    /\ UNCHANGED <<kind, act, calls>>

\* The branches' contexts and backends are dropped.
Join ==
    /\ forked /\ \A w \in Branches : Idle(w)
    /\ forked' = FALSE
    /\ threads' = [threads EXCEPT !["left"] = NoTurns, !["right"] = NoTurns]
    /\ lastNode' = [lastNode EXCEPT !["left"] = NoNode, !["right"] = NoNode]
    /\ completed' = [completed EXCEPT !["left"] = {}, !["right"] = {}]
    /\ heard' = NothingHeard /\ asked' = NothingAsked
    /\ UNCHANGED <<kind, act, calls>>

\* A gate that asks for a choice.
Choose(w) ==
    /\ Walks(w) /\ Idle(w)
    /\ \E i \in Interviewers : \E answer \in Answers(i, GateChoices) :
         asked' = [answer |-> answer, selected |-> IF GateStatus(answer) = "fail" THEN 0
                                                   ELSE Selected(answer, GateChoices)]
    /\ heard' = NothingHeard
    /\ UNCHANGED <<kind, forked, act, memory, calls>>

Next ==
    \/ \E w \in Walkers :
         \/ \E n \in Nodes : Begin(w, n)
         \/ Refuse(w)
         \/ Ask(w)
         \/ \E a \in ModelAnswers : Return(w, a)
         \/ Cut(w)
         \/ Choose(w)
    \/ Fork \/ Join

Spec == Init /\ [][Next]_vars

----------------------------------------------------------------------------
(* Properties *)

\* What the model said of its own outcome: the report in force, or its text.
AssertedIn(a) ==
    {a.text.status} \cup (IF a.reports = <<>> THEN {} ELSE {LastCall(a)})
        \cup (IF ValidReports(a) = <<>> THEN {} ELSE {Last(ValidReports(a))})

\* An outcome counts as asserted - and can satisfy a goal gate - only when the
\* model said so itself: an explicit success is in its reports or its text, and
\* a failed call, prose or a session that merely ended well asserts nothing.
SuccessIsAsserted ==
    heard # NothingHeard /\ heard.outcome.explicit /\ heard.outcome.status \in {"success", "partial_success"}
        => ~heard.answer.failed /\ heard.outcome.status \in AssertedIn(heard.answer)

\* A spawned session's thread holds one turn for a node, the latest, in the
\* order the calls were made: a node that is run again rewrites the rest.
TurnsReplaced ==
    kind = "spawn" =>
        \A w \in Walkers, k \in Keys :
            \A i, j \in DOMAIN threads[w][k] :
                i < j => /\ threads[w][k][i].visit < threads[w][k][j].visit
                         /\ threads[w][k][i].node # threads[w][k][j].node

\* What a call of AmplifierBackend is shown comes from its own walker: a branch
\* sees nothing of its sibling or the trunk, whatever the thread is called, and
\* the trunk sees nothing of the branches.
HistoryIsOwn ==
    kind # "direct" =>
        \A w \in Walkers :
            /\ \A i \in DOMAIN act[w].seen : act[w].seen[i].by = w
            /\ \A done \in act[w].told : done[2] = w

\* A human who picks an option is routed along that option, whichever way the
\* interviewer passes it on, and a gate that was skipped selects nothing.  The
\* choices are taken to have keys of their own: of two with one key the later wins.
ChoiceHonoured ==
    /\ asked.answer.value = "option" => asked.selected = asked.answer.option
    /\ asked.answer.value = "skipped" => asked.selected = 0

\* specs/EXTENSIONS.md, section 35: a structured report_outcome supersedes
\* contradicting text, so a node that reported a failure does not succeed.
ReportWins ==
    heard # NothingHeard /\ ~heard.answer.failed /\ heard.answer.reports # <<>>
        => (LastCall(heard.answer) = "fail" => heard.outcome.status = "fail")
=============================================================================
