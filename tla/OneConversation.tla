--------------------------- MODULE OneConversation ---------------------------
(***************************************************************************)
(* What the host of a session is promised: one conversation.  One task at a *)
(* time speaks in it; what the host has asked and remarked meanwhile waits  *)
(* in two lines, each served from the front, and leaves its line once: into *)
(* the conversation, or with a task that gives up or a session that cannot  *)
(* take it.  A closed session finishes nothing and starts nothing.          *)
(***************************************************************************)
EXTENDS Naturals, Sequences

CONSTANTS
  Tasks,       \* each with its prompt, which bears its name
  Messages,    \* what the host sends; the prompts too
  Remarks      \* turns of the model, the tools and the session itself

VARIABLES
  mode,        \* the state the host sees
  serving,     \* the task whose input is being worked on, if any
  talk,        \* the turns so far
  asides,      \* what a running input is to be steered with
  inputs       \* what is to be asked next

conversation == <<mode, serving, talk, asides, inputs>>

Asked(m) == [kind |-> "user", msg |-> m]
Steered(m) == [kind |-> "steering", msg |-> m]

ConversationInit ==
  /\ mode = "idle" /\ serving = {}
  /\ talk = <<>> /\ asides = <<>> /\ inputs = <<>>

Start(t, m) ==
  /\ serving = {} /\ serving' = {t}
  /\ mode' = "processing"
  /\ talk' = Append(talk, Asked(m))
  /\ UNCHANGED asides

Prompt(t) ==
  /\ mode \in {"idle", "awaiting_input"}
  /\ Start(t, t)
  /\ UNCHANGED inputs

TakeInput(t) ==
  /\ mode = "idle" /\ inputs # <<>>
  /\ Start(t, Head(inputs)) /\ inputs' = Tail(inputs)

Say(t, r) ==
  /\ serving = {t}
  /\ talk' = Append(talk, r)
  /\ UNCHANGED <<mode, serving, asides, inputs>>

TakeAside(t) ==
  /\ serving = {t} /\ asides # <<>>
  /\ talk' = Append(talk, Steered(Head(asides))) /\ asides' = Tail(asides)
  /\ UNCHANGED <<mode, serving, inputs>>

Finish(t) ==
  /\ serving = {t} /\ serving' = {}
  /\ mode = "processing" /\ mode' \in {"idle", "awaiting_input", "closed"}
  /\ UNCHANGED <<talk, asides, inputs>>

(* The asides it had taken up are lost with it.                            *)
GiveUp(t) ==
  /\ serving = {t} /\ serving' = {}
  /\ \E n \in 0 .. Len(asides) : asides' = SubSeq(asides, n + 1, Len(asides))
  /\ UNCHANGED <<mode, talk, inputs>>

Refuse ==
  /\ mode # "idle" /\ inputs # <<>>
  /\ inputs' = Tail(inputs)
  /\ UNCHANGED <<mode, serving, talk, asides>>

Remind(m) == asides' = Append(asides, m) /\ UNCHANGED <<mode, serving, talk, inputs>>
Ask(m) == inputs' = Append(inputs, m) /\ UNCHANGED <<mode, serving, talk, asides>>
Close == mode' = "closed" /\ UNCHANGED <<serving, talk, asides, inputs>>

ConversationNext ==
  \/ \E t \in Tasks :
       \/ Prompt(t) \/ TakeInput(t) \/ TakeAside(t) \/ Finish(t) \/ GiveUp(t)
       \/ \E r \in Remarks : Say(t, r)
  \/ \E m \in Messages : Remind(m) \/ Ask(m)
  \/ Refuse \/ Close

ConversationSpec == ConversationInit /\ [][ConversationNext]_conversation

=============================================================================
