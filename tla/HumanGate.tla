---------------------------- MODULE HumanGate ----------------------------
(***************************************************************************)
(* A human gate: the choices its edges offer, what each interviewer may    *)
(* answer, and the choice the handler routes by.                           *)
(*                                                                         *)
(* A choice is an edge's label with the accelerator key it is offered by;  *)
(* a label without an accelerator is its own key.                          *)
(***************************************************************************)
EXTENDS Naturals, Sequences, SequencesExt

Interviewers == {"auto", "queue", "console", "callback"}

\* No option is picked by the answers yes, no, timeout, skipped and by words.
Answer(value, option) == [value |-> value, option |-> option]
Picked(choices) == {Answer("option", i) : i \in DOMAIN choices}
Skipped == Answer("skipped", 0)

\* What can come back from a multiple-choice question; a queue or a recording
\* holds preset answers and skips when they have run out, a callback passes on
\* whatever its application decides.
Answers(interviewer, choices) ==
    CASE interviewer = "auto"     -> {Answer("option", 1)}
      [] interviewer = "console"  -> Picked(choices) \cup {Skipped}
      [] interviewer = "queue"    -> Picked(choices) \cup {Skipped, Answer("yes", 0), Answer("no", 0)}
      [] interviewer = "callback" -> Picked(choices) \cup
                                       {Answer(v, 0) : v \in {"yes", "no", "timeout", "skipped", "words"}}

\* The key to label table: of two choices with one key the later stays.
ByKey(key, choices) == SelectLastInSeq(choices, LAMBDA c : c.key = key)

\* A plausible slip: keys are matched by their place among the labels alone.
FirstOfLabel(answer, choices) ==
    IF answer.value = "option" THEN SelectInSeq(choices, LAMBDA c : c.label = choices[answer.option].key)
    ELSE 1
\* The choice an answer stands for: no answer, a yes and unknown words take the
\* first one, a no takes the second when there is one.
Selected(answer, choices) ==
    CASE answer.value = "option" -> ByKey(choices[answer.option].key, choices)
      [] answer.value = "no" /\ Len(choices) > 1 -> 2
      [] OTHER -> 1

\* A skip fails the node, and nothing else does: a timeout is a success.
GateStatus(answer) == IF answer.value = "skipped" THEN "fail" ELSE "success"
=============================================================================
