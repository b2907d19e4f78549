------------------------------ MODULE Feedback ------------------------------
(***************************************************************************)
(* feedback.py: at every loop_restart the engine takes what each target's   *)
(* critic said in the iteration that ends and appends it, with the number   *)
(* of the iteration, to a channel of the target's own that outlives the     *)
(* restart.  Only the newest MaxCritiques entries are kept.                 *)
(***************************************************************************)
EXTENDS Integers, Sequences, SequencesExt

CONSTANTS
  Targets,         \* nodes that declare feedback_from=
  Critic,          \* target -> the node it names
  Texts,           \* what a critic may say
  MaxCritiques,
  MaxIterations    \* bound on loop restarts

ASSUME MaxCritiquesAssumption == MaxCritiques \in Nat \ {0}

Critics == {Critic[t] : t \in Targets}

VARIABLES
  iteration,       \* iteration_count
  said,            \* the critics' entries in node_outcomes: the texts, or silent
  channel,         \* context key feedback.channel.<target>
  spoken           \* every critique so far: critic, iteration, text

feedbackVars == <<iteration, said, channel, spoken>>

Silent == "silent"

FeedbackInit ==
  /\ iteration = 0
  /\ said = [c \in Critics |-> Silent]
  /\ channel = [t \in Targets |-> <<>>]
  /\ spoken = {}

(* A critic runs, perhaps again in the same iteration: the last outcome     *)
(* stands.                                                                 *)
CriticSays(c, text) ==
  /\ said' = [said EXCEPT ![c] = text]
  /\ UNCHANGED <<iteration, channel, spoken>>

Entry(n, text) == [iteration |-> n, text |-> text]

(* A plausible slip: a full window takes nothing more.                    *)
Oldest(entries) ==
  IF Len(entries) > MaxCritiques THEN SubSeq(entries, 1, MaxCritiques) ELSE entries

Window(entries) ==
  IF Len(entries) > MaxCritiques
  THEN SubSeq(entries, Len(entries) - MaxCritiques + 1, Len(entries)) ELSE entries

Collect(t, n) ==
  IF said[Critic[t]] = Silent THEN channel[t]
  ELSE Window(Append(channel[t], Entry(n, said[Critic[t]])))

(* node_outcomes.clear()                                                   *)
Cleared == [c \in Critics |-> Silent]

LoopRestart ==
  /\ iteration < MaxIterations
  /\ iteration' = iteration + 1
  /\ channel' = [t \in Targets |-> Collect(t, iteration + 1)]
  /\ spoken' = spoken \cup {[critic |-> c, iteration |-> iteration + 1, text |-> said[c]] :
                              c \in {d \in Critics : said[d] # Silent}}
  /\ said' = Cleared

=============================================================================
