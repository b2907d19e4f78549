------------------------- MODULE ProviderStreams -------------------------
(***************************************************************************)
(* What the four provider adapters make of one streamed answer, the        *)
(* validator that stands between them and the caller, and the accumulator  *)
(* that rebuilds the answer from the events.                               *)
(*                                                                         *)
(* An answer is what the provider says: items, each a text or a tool call  *)
(* whose arguments come as fragments (args) or not at all, and the reason  *)
(* it stopped for.  Texts, fragments and usage figures are left out.       *)
(***************************************************************************)
EXTENDS Naturals, FiniteSets, Sequences

CONSTANTS Calls,   \* the identifiers the provider gives its tool calls
          NoCall   \* an item or an event without one

ASSUME NoCallAssumption == NoCall \notin Calls

Adapters == {"anthropic", "openai", "openai_compat", "gemini"}

ItemFields == [call : Calls \cup {NoCall}, args : BOOLEAN]
TextItem == [call |-> NoCall, args |-> FALSE]
CallItem(c, args) == [call |-> c, args |-> args]
IsCall(item) == item.call # NoCall
\* The calls among the first n items, in their order: the k-th of them is the
\* one with k calls up to it.
Asked(items, n) == {i \in 1 .. n : IsCall(items[i])}
Rank(asked, i) == Cardinality({j \in asked : j <= i})
CallsWithin(items, n) ==
    [k \in 1 .. Cardinality(Asked(items, n)) |->
        items[CHOOSE i \in {j \in Asked(items, n) : Rank(Asked(items, n), j) = k} : TRUE].call]
CallsOf(items) == CallsWithin(items, Len(items))

----------------------------------------------------------------------------
(* Events.  A fragment of arguments carries no tool call: the three        *)
(* adapters that stream them fill only the field delta.                    *)

Event(type, call) == [type |-> type, call |-> call, reason |-> "none"]
Finish(reason) == [type |-> "finish", call |-> NoCall, reason |-> reason]
When(cond, events) == IF cond THEN events ELSE <<>>

TextBlock == <<Event("text_start", NoCall), Event("text_delta", NoCall), Event("text_end", NoCall)>>
Fragments(item) == When(item.args, <<Event("call_delta", NoCall)>>)
OneShot(c) == <<Event("call_start", c), Event("call_end", c)>>

(* A stream comes in parts: one for each item of the answer, and the one     *)
(* that closes it.  An adapter sends them as the provider's events arrive.  *)

Opening == <<Event("stream_start", NoCall)>>

\* Content blocks open and close one at a time.
AnthropicBlock(item) ==
    IF IsCall(item)
    THEN <<Event("call_start", item.call)>> \o Fragments(item) \o <<Event("call_end", item.call)>>
    ELSE TextBlock

\* arguments.done ends the call and forgets that it had started, so the
\* output_item.done of the same call opens and closes it a second time.
OpenAIBlock(item) ==
    IF IsCall(item) THEN When(item.args, AnthropicBlock(item)) \o OneShot(item.call) ELSE TextBlock

\* The text of the other two adapters stays open from the first piece to the end.
FirstText(items, k) == \A i \in 1 .. k - 1 : IsCall(items[i])
TextPiece(items, k) ==
    When(FirstText(items, k), <<Event("text_start", NoCall)>>) \o <<Event("text_delta", NoCall)>>
TextEnd(items) == When(\E i \in DOMAIN items : ~IsCall(items[i]), <<Event("text_end", NoCall)>>)

CompatBlock(items, k) ==
    IF IsCall(items[k]) THEN <<Event("call_start", items[k].call)>> \o Fragments(items[k])
    ELSE TextPiece(items, k)

\* A call comes whole in one part.
GeminiBlock(items, k) ==
    IF IsCall(items[k]) THEN OneShot(items[k].call) ELSE TextPiece(items, k)

\* The chunk that carries finish_reason closes the text and every call that is
\* open; the usage chunk after it, which the adapter always asks for, sends a
\* second FINISH whose reason is made up from the calls seen.
CallEnds(calls) == [i \in DOMAIN calls |-> Event("call_end", calls[i])]
CallsOr(items, reason) == IF CallsOf(items) # <<>> THEN "tool_calls" ELSE reason
CompatClosing(items, reason) ==
    TextEnd(items) \o CallEnds(CallsOf(items)) \o <<Finish(reason), Finish(CallsOr(items, "stop"))>>

\* What Gemini's adapter has when the connection ends early: the items so far, and
\* no reason.  It closes a stream that simply ends like one that is complete.
Beginning(answer, n) == [items |-> SubSeq(answer.items, 1, n), reason |-> "other"]

\* The last message carries the reason; two adapters look at the calls first.
Closing(adapter, items, reason) ==
    CASE adapter = "anthropic"     -> <<Finish(reason)>>
      [] adapter = "openai"        -> <<Finish(CallsOr(items, reason))>>
      [] adapter = "openai_compat" -> CompatClosing(items, reason)
      [] adapter = "gemini"        -> TextEnd(items) \o <<Finish(CallsOr(items, reason))>>

Block(adapter, items, k) ==
    CASE adapter = "anthropic"     -> AnthropicBlock(items[k])
      [] adapter = "openai"        -> OpenAIBlock(items[k])
      [] adapter = "openai_compat" -> CompatBlock(items, k)
      [] adapter = "gemini"        -> GeminiBlock(items, k)

StreamPart(adapter, answer, k) ==
    IF k = 0 THEN Opening
    ELSE IF k <= Len(answer.items) THEN Block(adapter, answer.items, k)
    ELSE Closing(adapter, answer.items, answer.reason)

(* A place in the stream: the next event, or nothing left.  Gemini's stream  *)
(* has no opening.                                                          *)
Nothing == [part |-> 0, event |-> 0]
FirstEvent(adapter) == [part |-> IF adapter = "gemini" THEN 1 ELSE 0, event |-> 1]
EventAt(adapter, answer, at) == StreamPart(adapter, answer, at.part)[at.event]
NextPart(answer, at) ==
    IF at.part <= Len(answer.items) THEN [part |-> at.part + 1, event |-> 1] ELSE Nothing
NextEvent(adapter, answer, at) ==
    IF at.event < Len(StreamPart(adapter, answer, at.part))
    THEN [part |-> at.part, event |-> at.event + 1]
    ELSE NextPart(answer, at)

----------------------------------------------------------------------------
(* The validator: open text, the open call, and whether FINISH came.       *)

NothingOpen == [text |-> FALSE, call |-> NoCall, finished |-> FALSE]

\* A plausible slip: a fragment without a tool call is let through.
LenientViolates(open, e) ==
    CASE e.type = "text_start"                  -> open.text
      [] e.type \in {"text_delta", "text_end"}  -> ~open.text
      [] e.type = "call_start"                  -> open.call # NoCall
      [] e.type = "call_delta"                  -> open.call = NoCall
      [] e.type = "call_end"                    -> open.call = NoCall \/ e.call # open.call
      [] e.type = "finish"                      -> open.text \/ open.call # NoCall
      [] OTHER                                  -> FALSE

Violates(open, e) ==
    CASE e.type = "text_start"                  -> open.text
      [] e.type \in {"text_delta", "text_end"}  -> ~open.text
      [] e.type = "call_start"                  -> open.call # NoCall
      [] e.type \in {"call_delta", "call_end"}  -> open.call = NoCall \/ e.call # open.call
      [] e.type = "finish"                      -> open.text \/ open.call # NoCall
      [] OTHER                                  -> FALSE

\* What is open after an event.  An end that names another call leaves the call open.
AfterEvent(open, e) ==
    [text |-> IF e.type = "text_start" THEN TRUE ELSE open.text /\ e.type # "text_end",
     call |-> CASE e.type = "call_start" -> e.call
                [] e.type = "call_end" /\ open.call \in {NoCall, e.call} -> NoCall
                [] OTHER -> open.call,
     finished |-> open.finished \/ e.type = "finish"]

(* The accumulator keeps the calls that ended, in order, and the last reason. *)
NothingHeard == [calls |-> <<>>, reason |-> "other"]
Heard(acc, e) ==
    [calls  |-> IF e.type = "call_end" THEN Append(acc.calls, e.call) ELSE acc.calls,
     reason |-> IF e.type = "finish" THEN e.reason ELSE acc.reason]
=============================================================================
