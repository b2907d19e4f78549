--------------------------- MODULE LlmClient -----------------------------
(***************************************************************************)
(* One call of generate() or stream() of unified_llm, from the first       *)
(* request to the result or the exception: rounds of a request and the     *)
(* tools it asks for, each request retried under the policy, inside an     *)
(* abort signal and a total or per-step timeout.                           *)
(*                                                                         *)
(* The provider, the tools, the caller who aborts or cancels and the clock *)
(* are the environment.  Prompts, usage and the middleware, which only     *)
(* wraps a request and may make it fail, are left out.                     *)
(***************************************************************************)
EXTENDS Naturals, FiniteSets, Sequences, ProviderStreams

CONSTANTS Jobs,           \* the calls the model starts with, see JobFields
          Answers,        \* what a provider may answer: [items, reason]
          MaxToolRounds,  \* max_tool_rounds
          MaxRetries      \* RetryPolicy.max_retries

ASSUME BoundsAssumption == MaxToolRounds \in Nat /\ MaxRetries \in Nat

JobFields == [api : {"generate", "stream"}, limit : {"none", "total", "step"}, signal : BOOLEAN,
              mode : {"strict", "warn"}, adapter : Adapters, active : BOOLEAN]

ASSUME JobsAssumption == Jobs \subseteq JobFields
ASSUME AnswersAssumption == \A a \in Answers : a.items \in Seq(ItemFields)

VARIABLES job,      \* the arguments of the call: which function, its limit, whether it has an
                    \* abort signal, how streams are validated, the provider, whether tools run
          pc,       \* "step", "calling", "backoff", "events", "tools", "unwinding" or "over"
          round,    \* round_num
          attempt,  \* attempt of retry()
          conv,     \* conversation: [from, calls, call] messages
          answer,   \* the provider's answer to the last request
          arrived,  \* as much of it as the connection brings
          feed,     \* the place in its stream of the event that comes next
          open,     \* the validator's state
          acc,      \* the answer as the caller's side knows it: [calls, reason]
          shown,    \* an event of this step has reached the caller
          request,  \* a request is in flight
          running,  \* positions of the tool calls that still run
          results,  \* position -> "ok", "error" or "cancelled", "none" while it runs
          aborted,  \* the signal was set
          late,     \* the limit has passed
          outcome,  \* "none", "result", "abort", "timeout", "error", "protocol" or "cancelled"
          deserted  \* the caller was cancelled while the work went on

vars == <<job, pc, round, attempt, conv, answer, arrived, feed, open, acc, shown, request, running, results,
          aborted, late, outcome, deserted>>
environment == <<job, aborted, late>>
stream == <<answer, arrived, feed, open, acc, shown>>
tools == <<running, results>>

UserMessage == [from |-> "user", calls |-> <<>>, call |-> NoCall]
AssistantMessage(calls) == [from |-> "assistant", calls |-> calls, call |-> NoCall]
ToolMessage(c) == [from |-> "tool", calls |-> <<>>, call |-> c]
NoAnswer == [items |-> <<>>, reason |-> "none"]

\* A plausible slip: only what succeeded is sent back.
SuccessMessages(calls, res) ==
    LET kept == SelectSeq([i \in DOMAIN calls |-> <<i, calls[i]>>], LAMBDA p : res[p[1]] = "ok")
    IN  [i \in DOMAIN kept |-> ToolMessage(kept[i][2])]
\* One message per call, in the order of the calls, errors included.
ResultMessages(calls, res) == [i \in DOMAIN calls |-> ToolMessage(calls[i])]

Init ==
    /\ job \in Jobs /\ pc = "step" /\ round = 0 /\ attempt = 0 /\ conv = <<UserMessage>>
    /\ answer = NoAnswer /\ arrived = NoAnswer /\ feed = Nothing /\ open = NothingOpen /\ acc = NothingHeard /\ shown = FALSE
    /\ request = FALSE /\ running = {} /\ results = <<>>
    /\ aborted = FALSE /\ late = FALSE /\ outcome = "none" /\ deserted = FALSE

----------------------------------------------------------------------------
(* Ways out. *)

Return(o) == pc' = "over" /\ outcome' = o

\* generate() with a signal or a limit runs its rounds as a task of their own
\* and waits for whichever comes first; stream() and the rest run in the caller.
Wrapped == job.api = "generate" /\ (job.signal \/ job.limit # "none")

\* A failed attempt: retry() sleeps and tries again or lets the error out.
Failed(retryable, o) ==
    /\ IF retryable /\ attempt < MaxRetries
       THEN pc' = "backoff" /\ UNCHANGED outcome
       ELSE Return(o)
    /\ request' = FALSE
    /\ feed' = Nothing
    /\ UNCHANGED <<environment, round, attempt, conv, answer, arrived, open, acc, shown, tools, deserted>>

----------------------------------------------------------------------------
(* A step: a request, its retries, and the answer. *)

\* The head of a round looks at the signal; a step's own limit starts afresh.
StartStep ==
    /\ pc = "step"
    /\ IF aborted THEN Return("abort") /\ UNCHANGED <<late, request>>
       ELSE /\ pc' = "calling" /\ request' = TRUE
            /\ late' = (late /\ job.limit # "step")
            /\ UNCHANGED outcome
    /\ attempt' = 0
    /\ shown' = FALSE
    /\ UNCHANGED <<job, aborted, round, conv, answer, arrived, feed, open, acc, tools, deserted>>

\* What a step does with its answer: run the tools it asks for, or be the last.
\* The streaming loop gives up at the cap before it runs them, the other one after.
AfterAnswer(calls, reason) ==
    IF /\ calls # <<>> /\ reason = "tool_calls" /\ job.active
       /\ job.api = "stream" => round < MaxToolRounds
    THEN /\ pc' = "tools"
         /\ running' = DOMAIN calls
         /\ results' = [i \in DOMAIN calls |-> "none"]
         /\ UNCHANGED outcome
    ELSE Return("result") /\ UNCHANGED tools

Receive ==
    /\ pc = "calling" /\ job.api = "generate"
    /\ \E a \in Answers :
         /\ answer' = a /\ arrived' = a
         /\ acc' = [calls |-> CallsOf(a.items), reason |-> a.reason]
         /\ AfterAnswer(CallsOf(a.items), a.reason)
    /\ request' = FALSE
    /\ UNCHANGED <<environment, round, attempt, conv, feed, open, shown, deserted>>

\* The provider takes a streamed request.
OpenStream ==
    /\ pc = "calling" /\ job.api = "stream"
    /\ \E a \in Answers : answer' = a /\ arrived' = a
    /\ feed' = FirstEvent(job.adapter)
    /\ pc' = "events"
    /\ open' = NothingOpen
    /\ acc' = NothingHeard
    /\ UNCHANGED <<environment, round, attempt, conv, shown, request, tools, outcome, deserted>>

\* Before an event is handed on: the first one of a step is not checked against
\* the signal by the loop, but it is by the wrapper that a total limit brings.
SignalSeen == aborted /\ (shown \/ job.limit = "total")
LimitSeen == late /\ job.limit = "total"
Noticed == IF SignalSeen THEN "abort" ELSE IF LimitSeen THEN "timeout" ELSE "none"

EventArrives ==
    /\ pc = "events" /\ feed # Nothing
    /\ LET e == EventAt(job.adapter, arrived, feed)
       IN  IF job.mode = "strict" /\ Violates(open, e)
           THEN Failed(~shown, "protocol")
           ELSE /\ open' = AfterEvent(open, e)
                /\ acc' = Heard(acc, e)
                /\ IF Noticed # "none" THEN Return(Noticed) ELSE UNCHANGED <<pc, outcome>>
                /\ shown' = TRUE
                /\ feed' = NextEvent(job.adapter, arrived, feed)
                /\ UNCHANGED <<environment, round, attempt, conv, answer, arrived, request, tools,
                               deserted>>

\* A stream that ends before its first event is an error no retry() knows of.
StreamEnds ==
    /\ pc = "events" /\ feed = Nothing
    /\ IF job.mode = "strict" /\ ~open.finished THEN Failed(~shown, "protocol")
       ELSE IF ~shown THEN Failed(FALSE, "error")
       ELSE /\ request' = FALSE
            /\ AfterAnswer(acc.calls, acc.reason)
            /\ UNCHANGED <<environment, round, attempt, conv, stream, deserted>>

\* The connection ends without an error and without the rest of the answer.
\* Three adapters then end too; Gemini's closes what came, as if it were all.
StreamCut ==
    /\ pc = "events" /\ feed # Nothing
    /\ IF job.adapter = "gemini"
       THEN feed.event = 1 /\ arrived' = Beginning(answer, feed.part - 1) /\ UNCHANGED feed
       ELSE feed' = Nothing /\ UNCHANGED arrived
    /\ UNCHANGED <<environment, pc, round, attempt, conv, answer, open, acc, shown, request, tools,
                   outcome, deserted>>

\* The provider, the network or a middleware refuses the request, or breaks the
\* stream: what has been shown to the caller is never asked for again.
RetriesAnyFailure(retryable) == pc \in {"calling", "events"} /\ Failed(retryable, "error")
RequestFails(retryable) ==
    \/ pc = "calling" /\ Failed(retryable, "error")
    \/ pc = "events" /\ Failed(retryable /\ ~shown, "error")

Wake ==
    /\ pc = "backoff"
    /\ pc' = "calling" /\ request' = TRUE
    /\ attempt' = attempt + 1
    /\ UNCHANGED <<environment, round, conv, stream, tools, outcome, deserted>>

----------------------------------------------------------------------------
(* Tools run together; every call has a result, an error is one too. *)

ToolEnds(i, how) ==
    /\ pc = "tools" /\ i \in running
    /\ running' = running \ {i}
    /\ results' = [results EXCEPT ![i] = how]
    /\ UNCHANGED <<environment, pc, round, attempt, conv, stream, request, outcome, deserted>>

ToolsDone ==
    /\ pc = "tools" /\ running = {}
    /\ \/ /\ round >= MaxToolRounds \/ job.api = "generate"      \* the cap, or stop_when
          /\ Return("result")
          /\ UNCHANGED <<round, conv>>
       \/ /\ job.api = "stream" /\ Noticed # "none"             \* on the event step_finish
          /\ Return(Noticed)
          /\ UNCHANGED <<round, conv>>
       \/ /\ round < MaxToolRounds
          /\ job.api = "stream" => Noticed = "none"
          /\ conv' = Append(conv, AssistantMessage(acc.calls)) \o ResultMessages(acc.calls, results)
          /\ round' = round + 1
          /\ pc' = "step"
          /\ UNCHANGED outcome
    /\ results' = <<>>
    /\ UNCHANGED <<environment, attempt, stream, request, running, deserted>>

----------------------------------------------------------------------------
(* Abort, timeouts and cancellation. *)

Abort ==
    /\ job.signal /\ ~aborted /\ pc # "over"
    /\ aborted' = TRUE
    /\ UNCHANGED <<job, late, pc, round, attempt, conv, stream, request, tools, outcome, deserted>>

TimerFires ==
    /\ job.limit # "none" /\ ~late /\ pc # "over"
    /\ late' = TRUE
    /\ UNCHANGED <<job, aborted, pc, round, attempt, conv, stream, request, tools, outcome, deserted>>

\* The work is cancelled, and waited for before the caller hears of it.
Interrupt(o) ==
    /\ pc' = "unwinding" /\ outcome' = o
    /\ UNCHANGED <<environment, round, attempt, conv, stream, request, tools, deserted>>

Working == pc \in {"step", "calling", "backoff", "events", "tools"}
AbortNoticed == Wrapped /\ aborted /\ Working /\ Interrupt("abort")
LimitReachedBetweenSteps == LimitSeen /\ pc = "step"   \* a plausible slip: looked at between steps only
LimitReached == LimitSeen
TotalTimeout == Wrapped /\ LimitReached /\ Working /\ Interrupt("timeout")

\* A step's limit covers its request and the retries, never its tools.
StepTimeout ==
    /\ job.api = "generate" /\ job.limit = "step" /\ late
    /\ pc \in {"calling", "backoff"}
    /\ Interrupt("timeout")

\* The task that awaits the call is cancelled.  Where the work is a task of its
\* own it is told to stop and left behind; a call that already unwinds keeps to it.
Cancelled ==
    /\ Working
    /\ IF Wrapped
       THEN /\ Return("abort") /\ deserted' = TRUE
            /\ UNCHANGED <<environment, round, attempt, conv, stream, request, tools>>
       ELSE Interrupt("cancelled")

RequestUnwinds ==
    /\ (pc = "unwinding" \/ deserted) /\ request
    /\ request' = FALSE
    /\ UNCHANGED <<environment, pc, round, attempt, conv, stream, tools, outcome, deserted>>

\* A tool asked to stop may finish its work all the same.
ToolUnwinds(i, how) ==
    /\ pc \in {"unwinding", "over"} /\ i \in running
    /\ running' = running \ {i}
    /\ results' = [results EXCEPT ![i] = how]
    /\ UNCHANGED <<environment, pc, round, attempt, conv, stream, request, outcome, deserted>>

\* What awaits the tools is asyncio.gather: once cancelled it is over with the
\* first tool that ends cancelled, and leaves the others behind.
GaveWay == \E i \in DOMAIN results : results[i] = "cancelled"
\* A plausible slip: the pending task is cancelled but not awaited.
AnyTime == TRUE
WorkUnwound == ~request /\ (running = {} \/ GaveWay)
Unwound ==
    /\ pc = "unwinding" /\ WorkUnwound
    /\ pc' = "over"
    /\ UNCHANGED <<environment, round, attempt, conv, stream, request, tools, outcome, deserted>>

Over == pc = "over" /\ running = {} /\ (deserted => ~request) /\ UNCHANGED vars

Next ==
    \/ StartStep \/ Receive \/ OpenStream \/ EventArrives \/ StreamEnds \/ StreamCut
    \/ \E retryable \in BOOLEAN : RequestFails(retryable)
    \/ Wake
    \/ \E i \in running, how \in {"ok", "error"} : ToolEnds(i, how)
    \/ ToolsDone
    \/ Abort \/ TimerFires \/ AbortNoticed \/ TotalTimeout \/ StepTimeout \/ Cancelled
    \/ RequestUnwinds
    \/ \E i \in running, how \in {"ok", "cancelled"} : ToolUnwinds(i, how)
    \/ Unwound
    \/ Over

\* The event loop runs the wrapper once its signal or timer is set, and delivers
\* a cancellation; nothing is assumed of the provider, the tools or the caller.
Fairness ==
    /\ WF_vars(AbortNoticed) /\ WF_vars(TotalTimeout)
    /\ WF_vars(RequestUnwinds) /\ WF_vars(Unwound)
    /\ WF_vars(\E i \in running, how \in {"ok", "cancelled"} : ToolUnwinds(i, how))

Spec == Init /\ [][Next]_vars /\ Fairness

----------------------------------------------------------------------------
(* Properties *)

\* Whenever a request goes out, each assistant message of the conversation is
\* followed by one result for each call it made, in order: every provider
\* refuses a conversation in which a call is unanswered or answered twice.
AnsweredAt(i) ==
    LET calls == conv[i].calls
    IN  /\ i + Len(calls) <= Len(conv)
        /\ \A k \in DOMAIN calls : conv[i + k] = ToolMessage(calls[k])
        /\ i + Len(calls) < Len(conv) => conv[i + Len(calls) + 1].from # "tool"
RequestsAnswered == request => \A i \in DOMAIN conv : conv[i].from = "assistant" => AnsweredAt(i)

\* No step is tried again once the caller has seen an event of it: a second
\* attempt would hand the beginning of the answer over twice.
NoDataTwice == [][attempt' > attempt => ~shown]_vars

\* When generate() is over - with a result, an abort or a timeout - no request
\* is in flight.  A tool outlives its call only when the call was interrupted and
\* another of its tools has stopped at once: never behind a result or an error,
\* and never when the answer asked for one tool.  Only a caller who was cancelled
\* himself leaves more behind.
OnlyInterruptedToolsOutlive ==
    pc = "over" /\ ~deserted =>
        /\ job.api = "generate" => ~request
        /\ running # {} => /\ outcome \in {"abort", "timeout", "cancelled"}
                           /\ \E i \in DOMAIN results \ running : results[i] = "cancelled"

\* generate() with an abort signal or a total timeout returns once it is set or
\* has passed, whatever provider and tools do.
TimedCallsReturn ==
    (Wrapped /\ (aborted \/ LimitSeen)) ~> pc = "over"

\* What strict validation lets through to its end is what the provider said: the
\* tools run for its calls, each once and in its order, for no other, and for all
\* of them - unless the adapter is Gemini's and the stream was cut, which leaves
\* the calls of the beginning.
StrictCallsExact ==
    job.api = "stream" /\ job.mode = "strict" /\ (pc = "tools" \/ outcome = "result")
        => \E n \in 0 .. Len(answer.items) :
             /\ acc.calls = CallsOf(SubSeq(answer.items, 1, n))
             /\ n < Len(answer.items) => job.adapter = "gemini" /\ arrived # answer

\* tests/adapter/test_anthropic.py documents the stream of a tool use as start,
\* delta, end; strict validation, the default, should accept what an adapter
\* makes of an answer that arrives whole.
StreamsAccepted ==
    [][pc = "events" /\ feed # Nothing => outcome' # "protocol"]_vars
=============================================================================
