-------------------------- MODULE MCLlmClient ----------------------------
(* One call of generate() or stream(): each kind of limit, with and without *)
(* a signal, each adapter, strict and lenient validation, tools that run    *)
(* and tools that do not.  Answers have at most two items.                  *)
EXTENDS LlmClient

CONSTANTS a, b

Generating == {[api |-> "generate", limit |-> l, signal |-> s, mode |-> "strict",
                adapter |-> "anthropic", active |-> TRUE] :
                  l \in {"none", "total", "step"}, s \in BOOLEAN}
Streaming == {[api |-> "stream", limit |-> l, signal |-> l # "none", mode |-> m,
               adapter |-> p, active |-> TRUE] :
                 l \in {"none", "total"}, m \in {"strict", "warn"}, p \in Adapters}
Passive == {[api |-> "generate", limit |-> "none", signal |-> FALSE, mode |-> "strict",
             adapter |-> "gemini", active |-> FALSE]}
MCJobs == Generating \cup Streaming \cup Passive

MCAnswers ==
    {[items |-> i, reason |-> "tool_calls"] :
        i \in {<<CallItem(a, FALSE)>>, <<CallItem(a, TRUE), CallItem(b, FALSE)>>,
               <<TextItem, CallItem(b, FALSE), CallItem(a, FALSE)>>}}
    \cup {[items |-> <<TextItem>>, reason |-> "stop"],
          [items |-> <<TextItem, CallItem(a, TRUE)>>, reason |-> "length"]}
=============================================================================
