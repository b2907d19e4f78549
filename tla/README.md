# Attractor pipelines in TLA+

This directory is a verification development for the Attractor bundle of
Amplifier: `src/modules/loop-pipeline` walks a graph of nodes (a DOT file) and
runs each node's handler; `src/modules/loop-agent` is the coding agent a node
may start; `src/modules/unified-llm-client` talks to the model;
`src/modules/remote-source` fetches pipelines from a git host;
`src/modules/pipeline-runner` and `src/modules/tool-pipeline-run` start runs, and
`src/modules/hooks-pipeline-observability` watches them. The modules here model
the parts that decide something, check them with TLC on small instances and
prove safety properties with TLAPS for all instances.

Paths below: LP is `src/modules/loop-pipeline/amplifier_module_loop_pipeline`,
LA is `src/modules/loop-agent/amplifier_module_loop_agent`, UL is
`src/modules/unified-llm-client/unified_llm`.

## Inventory

| Component | State it keeps | Operations | Hard behaviour | What makes it correct | Module |
|---|---|---|---|---|---|
| Engine (LP/engine.py) | completed nodes, outcome table, `failed_outputs`, two retry budgets, step budget | `run`, `run_subgraph`, `clone_for_branch` | cancel from another thread, wall-clock expiry, three ways back that clear different tables, skip cascades | no node runs on a failed input; success implies the goal gates held; the run ends | `PipelineEngine`, `ChildPipelines` |
| Edge selection, conditions | none | `select_edge`, `evaluate_condition` | ties, fallbacks, stale context keys | a FAIL never follows a plain edge into a node that did not opt in | `EdgeSelection` |
| Retry ladder and artifact contract (LP/retry.py, must_write.py) | attempt counter, artifact on disk | `execute_with_retry`, `check_must_write` | timeout over the whole ladder, `allow_partial` | no success without the artifact | `PipelineEngine` |
| Parallel and fan-in handlers | branch tasks, results | `execute`, four dispatchers, join policies | branches that finish in one batch, cancellation of the rest | each result counted once; the verdict follows from the branches | `ParallelHandler` |
| Manager loop, folder node | cycle, child engine, merged context | `execute`, `_run_child_dotfile` | child exceptions, the parent's context read after the child ran | bounded cycles; the verdict is the last child's | `ChildPipelines`, `SupervisedLoop` |
| Feedback channel (LP/feedback.py) | one list of critiques per target | `collect_and_inject_feedback` | many restarts, a bounded window | newest critiques of its own critic, in order | `Feedback`, `SupervisedLoop` |
| Backends (LP/backend.py, `__init__.py`) | a conversation per thread, last node, completed nodes | `run`, `clone` | branches, re-run nodes, refused and cut calls, reports against text | a verdict is explicit only if given; conversations neither mix nor repeat | `NodeVerdict`, `NodeBackend` |
| Human gate (LP/handlers/human.py) | pending question | `execute` | skipped, timed-out and unknown answers | the route is the one the human picked | `HumanGate`, `NodeBackend` |
| Context, checkpoint | key/value map; a JSON file | `set`, `clone`; `save` | written after each node, never read back by the engine | - | two keys in `PipelineEngine` |
| Parser, transforms, validation | none | `parse_dot`, `validate` | - | pure functions of text | shape rules in `PipelineGraph` |
| Agent session (LA/agent_session.py) | session state, history, two queues, nesting depth | `process_input`, `steer`, `follow_up`, `shutdown` | several tasks of the host, cancellation at every await, recursion through follow-ups | one input at a time; no orphaned tool call; every call comes back | `AgentSession` |
| Subagents (LA/subagent_tools.py), session start (LA/`__init__.py`) | status, pending messages, result per child; provider and prompt of the session | `spawn_agent`, `send_input`, `wait`, `close_agent`; `execute` | the tools of one round run at once | a verdict stands; no quiet message is lost; the node's model is used | `Subagents` |
| LLM client (UL/generate.py, retry.py) | attempt, round, conversation | `generate`, `stream`, `retry` | abort, two kinds of timeout, caller's cancellation, concurrent tools | answered tool calls, nothing shown twice, no request left running | `LlmClient` |
| Stream adapters and validation (UL/adapters, stream_validation.py) | what is open | translation to events, `validate_stream`, accumulator | order of events per provider | the calls that pass are the provider's | `ProviderStreams` |
| Remote source, materialisation | blobs by hash, refs, staging tree | `get`, `fetch_blob`, `materialize_remote_dot` | processes on one directory, crash at every write, damage | a whole tree as fresh as the question, or none | `RemoteSource`, `PublishedTrees` |
| Orchestrator module, runner, run tool | tree, container, client, session, manifest | `execute`, `drive_engine`, `run_pipeline`, `cmd_run` | an exception or a cancellation at every statement, in the teardown too | nothing left open that the code has a way to close; the caller is told what happened | `PipelineRuns` |
| Aggregator hook | one run state | one handler per event | nested fan-outs and child pipelines write one table; skips, timeouts, stray branches | records match executions, closed ones are final | `Observability`, `PipelineRuns` |

Interactions: the orchestrator or the runner loads a graph, perhaps from the
remote cache, validates it and builds an engine; the engine calls one handler at
a time through the retry ladder; the parallel handler and the manager call back
into clones of the engine (`run_subgraph`), the folder node and a manager's
`child_dotfile` into engines of their own; the codergen handler asks a backend,
which spawns an agent session, runs the mounted loop or calls the LLM client; the session calls
the client and runs tools, subagent tools among them, which start further
sessions. All of it is asyncio: what happens between two awaits is atomic, and
cancellation is delivered at an await (or, for the engine, through a thread-safe
event it polls).

`PROJECT.json` lists each component with its status, and under `hazards` what
is hard to test, line by line.

## Modules

| Module | Stands for |
|---|---|
| `PipelineGraph` | outcomes, graphs, validation's shape rules, retry targets, fan-in discovery (outcome.py, graph.py, helpers of engine.py) |
| `EdgeSelection` | edge_selection.py and conditions.py |
| `GraphWalk` | abstract: what the author of a pipeline is promised of a run |
| `PipelineEngine` | `PipelineEngine.run` with execute_with_retry and check_must_write; implements `GraphWalk` |
| `ParallelHandler` | ParallelHandler.execute, its dispatchers and join policies, FanInHandler |
| `ChildPipelines` | run_subgraph, the manager loop, the folder node |
| `Feedback` | collect_and_inject_feedback |
| `SupervisedLoop` | composes the two: a looping parent with a manager and critics |
| `NodeVerdict` | how each backend reads a verdict from an answer |
| `HumanGate` | what interviewers answer and the choice selected |
| `NodeBackend` | composes the two with the backends' memory, walkers and branches |
| `OneConversation` | abstract: what the host of a session is promised |
| `AgentSession` | AgentSession, SessionStateMachine, SessionHistory, both queues; implements `OneConversation` |
| `Subagents` | the four subagent tools, their manager, the session's provider and prompt |
| `ProviderStreams` | four adapters' events, validate_stream, the accumulator |
| `LlmClient` | generate() and stream() over `ProviderStreams` |
| `PublishedTrees` | abstract: what a reader of a remote pipeline is promised |
| `RemoteSource` | cache, fetch and walk; implements `PublishedTrees` |
| `Observability` | the aggregator's handlers as a fold of events |
| `PipelineRuns` | the four entries, their teardown, and the events of a walk into `Observability` |
| `MC...` | the instance TLC checks, one for each run below |
| `...Proofs` | theorems about the module they are named for; `RemoteRunsProofs` holds those of `RemoteSource` and of `PipelineRuns` |

### PipelineEngine, GraphWalk

One engine walks one graph. `phase` says where the coroutine stands: at the head
of the loop, in a handler, in a backoff, holding an outcome, with the outcome
recorded, with a skip recorded, done. Each action is the code between two
awaits, the whole of it: `RecordOutcome` is the three overrides in the code's
order (`auto_status`, `continue_on_fail`, the artifact backstop), the outcome
table, `failed_outputs`, the context keys, `status.json` and the trace.
`completed`, `outcomes`, `failed` are completed_nodes, node_outcomes and
failed_outputs; `steps`, `gateRetries`, `routeRetries` the three budgets. A node's handler is
its set of possible answers (`results`) and of exceptions (`raises`). A
condition is a set of clauses over the two keys the engine itself writes to the
context; handlers that write those keys themselves through `context_updates` are
left out. The order of Python's set iteration shows up as a choice among equally
distant fan-in nodes. Text is left out: keys, labels and node ids are
values, and which keys a node's attributes reference is an attribute.

`GraphWalk` knows nothing of the ladder, `failed_outputs`, the step budget, the context or cancellation. It promises a walk: the node it is at
(`here`) is open until it is decided or skipped, each once and for a reason that the table of verdicts shows; then the walk leaves along
an edge (after a failure only along one that is conditional, asked for, or leads to a node meant for failures), to a meeting point, or by a counted retry; the table is forgotten
whole or not at all; and it ends once, with success only at the exit with the gates in the table passed by their own nodes. The refinement mapping reads `standing` off
`phase` (every phase before the record is `open`) and `ending` off the result; the other variables are the engine's own. Each action of the engine is then one action of
the walk or, inside the ladder and for what the world does, none.

### ParallelHandler

One task per branch and the handler. `task[b]` is where the branch stands or the status it ended with; `pending`,
`results` are the dispatchers' locals, `stored` is parallel.results, `verdict` the outcome's status. A wake of
`asyncio.wait` takes everything that ended meanwhile (`Batch`), and `_run_fail_fast` and
`_run_first_success` walk it in the order of a Python set, so `FirstDecides` chooses which of the batch came before the
one that decides; the rest is dropped, as in the code. A cancelled branch that runs may stop or finish, because a handler may
swallow the cancellation; one that is new or waits for the semaphore stops. `Expire` is the node's timeout: it cancels gather and its
children, but leaves tasks alone that `asyncio.wait` watches. A cancelled gather is over with the first child that ends cancelled (`GatherExpired`), so a
sibling that swallows the cancellation, or takes its time over it, goes on running behind the node. A branch's inside
(`run_subgraph`) is the status it ends with, FAIL for an exception; what a fan-out inside a branch leaves behind when the branch is cancelled is outside too; contexts are isolated copies and left out, and so is
the order in which the semaphore serves its queue. `quorum_fraction` is a quotient of naturals: the code multiplies floats, which
may round `total * fraction` up past an integer.

### AgentSession, OneConversation

Every task of the host is a stack of inputs, because a follow-up is a
`process_input` inside the previous one's `_process_follow_ups`. Only the
innermost is in the loop, so a task is where that one stands (`pc`), how deep it
is nested (`level`) and its locals (`frame`). `depth` is `_follow_up_depth`, which all
tasks share. Each await is a point where another task, the host or a cancellation
may come in: event emission, the provider, the tools. `announced` is a history
variable: the last lifecycle event was SESSION_END. An answer of the model is the number
of its tool calls and whether it ends in a question. Which exceptions the provider may raise: context length (session
stays usable), retryable (passed on, no transition), anything else (session closes).

`OneConversation` is what the host sees: a mode, the task that is being served, the turns so far, and two lines of messages that wait, one of remarks on what is being done and one of
what to ask next. One task at a time speaks; each line is served from the front; a message leaves its line into the conversation, or is lost with a task that gives up or with a
session that cannot take it. In the mapping `serving` is the set of tasks in the agentic loop, `talk` the history and `inputs` the follow-up queue; `asides` is what the input in the loop has
drained and not yet recorded, followed by the steering queue, so that draining, which empties the queue into a local before any await, is no step of the abstract session.

### ChildPipelines, Feedback, SupervisedLoop

A manager node runs a child once per cycle until its stop condition holds or its cycles are used up; `phase` says whether
the parent, the head of the loop, the walk of a subgraph, or a child engine has the turn. `run_subgraph` is walked node by node
(`SubgraphStep`, by `EdgeSelection`), with its step bound; a child that is an engine of its own is the outcome it ends
with. `parent` and `child` hold the keys a route can depend on (outcome, label, declared outputs), and the copy at the start
of a cycle and the merge at its end are the code's. `Feedback` keeps, per target, the window of critiques and, as a history
variable, everything ever said; `SupervisedLoop` lets managers, folder nodes, critics and restarts come in any order.

### NodeVerdict, HumanGate, NodeBackend

An answer is reduced to what the three backends look at: failed or not, the report_outcome calls, the form of the
last text and the status in it, how a spawned session ended. `OutcomeOf` is the chain of early returns of each backend.
`NodeBackend` adds what is kept between calls: `threads` (the conversations), `lastNode`, `completed`, per backend object
(`Object`: a branch has its clone, except on the direct backend, which has no `clone()`). A call is `Begin`, `Ask`, `Return` with
the awaits between them, so the trunk and two branches interleave and any of them may be cut. A turn is the
node, the walker and the number of the call. A human gate shares no state with the backends and is one action.

### Subagents

A round of tool calls runs at once or in order over the `SubagentState` of each child; `wait` is two steps around the awaited
`session.spawn`, everything else is one. `accepted`, `quiet`, `carried`, `dropped` are history variables: the messages acknowledged,
those acknowledged while the child was not running, those an instruction carried, those a close threw away.
`session` and its configuration are the first `execute`: provider by family, prompt, and whether tools are mounted at that depth.

### ProviderStreams, LlmClient

One call from the first request to the result. `pc` is the await it stands at; `job` its arguments. A streamed answer is
turned into the adapter's events, passed through the validator (`Violates`, `AfterEvent`) and
rebuilt (`Heard`). The adapter sends them as the provider's own events arrive, so a stream is its parts (`StreamPart`: the opening, one block for each item of the
answer, the closing) and `feed` is a place in one of them, moved by `NextEvent`. `arrived` is as much of the answer as the connection brings: a stream that is cut ends without a
FINISH on three adapters, while Gemini's closes what came (`Beginning`) with a reason of its own making. Time is the two flags `aborted` and `late`; `Wrapped` is the case in which generate() waits for its
work, its signal and its timer at once, and cancels and awaits what is left. Tools are awaited by asyncio.gather, so what is awaited ends with the first
tool that gives way to the cancellation (`GaveWay`), and the others run on behind the call. Lengths of delays are left out.

### RemoteSource, PublishedTrees

Each walk is a process. A step is the code between two awaits or two changes of the shared directory: a blob's
write, its ref's write, the read of a ref, the revalidation. A process may die between any two; the disk may damage or lose a blob or
a ref; the origin's branches move. A content stands for its hash and its ETag. `PublishedTrees` promises a
reader the whole tree its entry leads to, each file as published at some moment since the reader asked (a pinned file may be
damaged, because an immutable ref is served without hashing the blob), or nothing. The refinement mapping is
`recent <- served`, and `tree` is what the walks in phase `ready` hand to their callers.

### Observability, PipelineRuns

`statement` is the one the outermost coroutine is at, and `raised` whether an exception is on its way out; `Unwinds` says which
finally block catches it. A cancellation may land in the walk and a second one in the teardown. `view`, `container`, `client`,
`session`, `manifest` are what a run opens; `cut` names the teardown steps that failed or were cancelled. `job` says which backend the run has and
which environment tools: only a backend with a `close` has its client closed, only with env_destroy is a container destroyed, and `cloned` is the client a branch's
copy of the backend opens for itself, which nothing closes.

In the walk, every coroutine that emits to the one aggregator is a task: `run` of an engine, `run_subgraph` for a manager, a branch. Each knows what awaits it
(`under`), so that they nest in any way: a branch runs fan-outs and child pipelines of its own (`StartBranch`, `StartChild`), several at once. A node may be skipped, which completes it
without a start (`Skip`), and may time out, which completes it twice (`TimesOut`, `Leave`); a cancel request after a handler ends the run with the node's record open (`Finishes`). What is cut stops
without an event (`CutBranches`, `BreakWalk`), but branches may be left running, and go on emitting after their node, or the run, is over (`Leftovers`). A child's start makes a new aggregator state (`Forgets`).
`seen` is the aggregator's state; `execs` and `mixed` are history variables: what really ran, and the nodes for which records by node id cannot be right, because
two tasks were at them at once.

## Runs

| Run | Checks | Shows |
|---|---|---|
| `engine` | 4 invariants, `WalkKept`, `ArtifactContract`, `Termination` | the refinement of `GraphWalk` by the engine on 43 graphs, cancelled or expired at any step |
| `parallel` | 5 invariants, `HandlerEnds` | three branches, 22 combinations of policies and limits, timeout at any await |
| `agent` | 3 invariants, `ConversationKept`, `CallsEnd` | the refinement of `OneConversation` by two concurrent tasks with follow-ups, steering, cancellation and shutdown |
| `subagents` | 2 invariants, `VerdictStands` | two children in rounds of three calls, with cancellation and a capability that comes late; every choice of provider and prompt |
| `children` | 2 invariants, `ManagerVerdict`, `ManagerEnds` | nine managers, a folder node and two critics in a looping parent |
| `backend` | 4 invariants | three model nodes on each backend, from trunk and branches, and a human gate |
| `llm` | 3 invariants, `NoDataTwice`, `TimedCallsReturn` | generate() and stream() under abort, timeouts, cancellation, failures and cut streams, four adapters |
| `remote` | `CacheHeals`, `PromiseKept` | the refinement of `PublishedTrees` by two processes on one directory, with deaths, damage, failures and a moving branch |
| `runs` | 3 invariants, `ClosedRecordsKeepCalls` | the four entries and their backends with every refusal, exception and cancellation; up to four tasks nested as fan-outs, branches and child pipelines |
| `gate_bypass` | `VisitedGatesSucceed` | violated: a goal-gate retry forgets a failed gate |
| `streams_refused` | `StreamsAccepted` | violated: strict validation refuses three adapters' tool calls |
| `verdict_overridden` | `ReportWins` | violated: closing prose overrides a reported failure |

### Bounds, and why they are enough

* Engine: `MaxGateRetries` is 3 where the code has 50. The budget is only compared
  and counted, and the step budget is a multiple of it; 3 lets a retry happen, repeat and run out.
  Graphs have at most 5 nodes, one mechanism each, with two mechanisms where they
  interact (gate with fix loop, gate with loop_restart, skip chain with retry target, every
  override with the ladder of two attempts). The theorems hold for every graph and bound.
* Parallel: three branches are the least for which a batch may hold one that decides, one before it and one that is
  dropped, or two of these and one still pending. `min_success` is 0, 2 and 4 (always met, reachable, out of reach), the quorum one half
  (3 branches round up to 2), and 1, 2 or 3 may run at once. The theorems hold for any number and any threshold.
* Session: two tasks are what it takes to race for the session, two follow-ups to
  nest and to reorder, one steering message to be drained by one input or another. Answers have no tool
  call or two, which is the case where tools run in parallel. One configuration is limited to one
  tool round per input, the other to four turns with the loop detector on. The
  host's steering and follow-up messages are bounded by `steers` and `follows`.
* Subagents: a round of three calls lets two waits of one child overlap with a message or a close; two messages can be split between two
  runs. Children and messages are interchangeable, so both sets are symmetric; the run's only temporal formula is an
  action property, which symmetry does not disturb.
* Children: `MaxCritiques` 2 (the code has 5) and three restarts fill the window, keep an order in it and make it overflow, next to every
  step of one manager (`LongLoops`); the other managers see one restart. Two cycles are a first and a last one;
  `GateRetries` 1 (the code has 50) gives the child a step bound it can reach by going in a circle.
* Backend: `MaxCalls` 3 allows a turn, its successor and the re-run of the first, or one call of each walker. The answers hold
  every form of text, with and without reports, valid and not.
* Client: one tool round and one retry let each happen and be refused; answers have at most two tool calls, which is what
  order and concurrency need, and no more than three items.
* Remote: two processes on one file set of three with a reference cycle, levels two deep so that the depth bound is met, one move of each
  kind, one fault, two attempts. Every limit is reached by one of the contents.
* Runs: `MaxVisits` 4 and four tasks allow a fan-out, a branch, a fan-out or child in it and its branch, or a node repeated in a child beside a branch. The
  walk does not look at how the run was started, so jobs outside `FullWalks` take one visit, which is enough to open what there is to close; two cancellations put the second one in the
  teardown; one call is enough to open a client and to be booked. The tasks but the first are interchangeable and symmetric.

### Fairness

`WF_vars(Step)` for the engine: the event loop goes on running a coroutine that can run, and a
handler answers, raises or times out; nobody has to cancel, and time need not
pass. `WF_vars(BranchStep(b))`, `HandlerStep`, `GatherExpired` and `FanIn` for the parallel node: the event loop runs what can
run and a branch comes to an end; the timeout need not come. `WF_vars(TaskStep(c))` for the session: the same for each task; a model or a tool
that is waited for answers or raises. `WF_vars(ManagerStep ...)` for the supervised loop: a child's handlers answer, and a child engine ends, which is
`Termination`; nothing makes the parent enter a node. For the client, `AbortNoticed`, `TotalTimeout`, `RequestUnwinds`, `ToolUnwinds` and
`Unwound`: the event loop runs the wrapper once its signal or timer is set, and what is cancelled stops; nothing is assumed of provider, tools or caller, because
`TimedCallsReturn` is about those that never answer. The other specifications state no fairness. The host's own steps are never fair: it may
never steer, cancel or shut down.

`CHECK_DEADLOCK FALSE` stands where the program really stops: in `engine` and `gate_bypass` (`run` returns), `parallel`, `agent` and `subagents` (no task or call
left to start), `remote` (both walks are over), `runs` (the caller has been told). The other runs check deadlock.

## What is proved

For every value of the constants - any finite node set, any set of validated
graphs, any retry bound - and from `Spec` alone:

| Theorem | Says |
|---|---|
| `WalkHolds` | the engine implements `GraphWalk` |
| `TypeCorrect` | every variable has its type; both retry budgets stay in bounds |
| `VerdictsAssertedCorrect` | an explicit verdict in the table is one the node's handler gave |
| `BlameGroundedCorrect` | an entry of failed_outputs blames a node that declares the key and has an outcome |
| `FailedInputsWithheld` | no default node's handler runs while an input it references is a failed node's output |
| `SuccessGuaranteesGates` | a successful run stopped at the exit with every recorded gate passed by its own handler |
| `LabelsAreFresh` | the preferred label in the context comes from this iteration |
| `ContractEnforced` | a `must_write` node enters the table as a success only with a fresh artifact |
| `RoutingIsDetermined` | select_edge never has two edges to return |
| `DeadEndsHold` | a run gives up for want of an edge only where no retry, no condition and no plain edge is left |
| `RunIsBounded` | the number of executions, restarts and completions is bounded by the step budget |

The argument. `TypeInv` strengthens `TypeOK` with the graph being one of `Graphs` and with what the phase says about the ladder's
outcome. `VerdictInv` adds the outcome in flight: what the ladder holds is an answer of
the handler or made up, and a made-up outcome claims nothing; only then is
the step that records it safe. `WithheldInv` adds that every output of a failed or skipped node is in
failed_outputs, so that the check at the head of the loop sees it. `ResultInv` ties the result
to the gates at the moment of return. `BoundInv` relates each counter to the steps
taken, with one unit of slack for the step in progress. Lemmas `TableSteps`,
`AfterSteps`, `ResultSteps`, `LabelSteps` and `BoundSteps` say once which actions touch what, so that
each invariant looks only at the actions that can disturb it.

`WalkHolds` puts them together (`Inv`), one lemma for each way the engine moves. That a node runs or is skipped for a reason the table shows (`Calls`, `Excuses`) needs both
directions between the table and failed_outputs, `WithheldInv` for the one and `BlameIsGrounded` for the other. `WalkInv` adds that from `StartNode` to
the record nothing changes that the check at the head of the loop looked at, and that completed_nodes lists exactly the nodes with an outcome. The second is why
an exit always reports an outcome's status (`GateResultIs`), and why the gate it goes back for exists: the code takes the first failed gate in the order of completion, and `FirstUnheldIs` finds it as a least
element (`LeastOf`, from `WFMin`). `ChosenLeads` goes through the five rungs of select_edge. `VerdictsAreAsserted`, which no run checks by itself, is part of the walk: an explicit verdict is one of the node's own.

Routing rests on two facts about the tie-break. It is total (`OneBest`): no two ids have one rank (`RankAssumption`) and no two edges one position (`IsGraph`), as in a sorted list of strings and a list of edges. And it finds
something in every finite set of candidates (`BestExists`): an edge that the fewest others beat is beaten by none, because whatever beat it would be beaten by fewer; this takes the place of an induction over
the set. So None from select_edge means that conditions and plain edges are exhausted (`SelectsSome`), and `DeadEndInv` carries that to the result. `OneWayOn` and `DeadEndsAreReal` hold in the instance of run `engine` too, and are left to the proof.

The parallel node, for any number of branches and any attributes:

| Theorem | Says |
|---|---|
| `ParallelTypes` | types, and at most max_parallel branches in the semaphore |
| `NoOrphansHold` | no branch runs when the dispatcher has handed over its results |
| `ResultsCompleteHolds` | where it gathers or counts, every branch that ended by itself is stored |
| `JoinExactHolds` | with error_policy=continue the verdict is what the join table says of all branches |
| `CancelsWhenSettledHolds` | under first_success and k_of_n no branch is cancelled that could change the verdict, and no branch waited for that could not |
| `WinnerExactHolds` | the fan-in node fails only when it has to, and takes a success behind a join that asks for one |

The argument. `DispatchInv` says that what is no longer pending has ended, that nobody is cancelled before the dispatcher
asks, and that gather asks only when it expires. `ResultsInv` says for each dispatcher what it has kept of what it has seen:
everything (gather, k_of_n), or everything up to a success (first_success); with it the verdict over the results is the
verdict over the branches. `Ceiling` turns the rounded quorum into a product. The verdict stays true because nobody runs any more.
`SettledInv` says when the dispatchers stop by what they have counted (`Fixed`), while the property speaks of all ways the pending branches may still end;
`TogetherCount` connects the two: successes seen and any subset of the pending count together as a sum.

The session, for any tasks, messages, answers and configurations:

| Theorem | Says |
|---|---|
| `SessionTypes` | every variable has its type; no task leaves more follow-up loops than it entered |
| `ConversationHolds` | the session implements `OneConversation` |
| `OneInputHolds` | at most one input is between submit() and the end of the agentic loop |
| `ClosedHolds` | CLOSED is final, and an input caught in the loop leaves it by an exception |
| `RequestsHold` | no request to the model shows a tool call without its results |
| `EndAnnouncedHolds` | a session at rest in IDLE without an exception has announced the end of its work |
| `MessagesAccountedHolds` | host messages enter the history once, in order, and only a task that raised loses one |

The argument. `SessionTypes` needs to know that a task about to run tools has at least one call (`TypeInv`). The lemma
`LoopMoves` sorts every step into eight kinds by what it does to the loop: nothing (`Still`), `Enters`,
`Completes`, `Quits`, `Spoke`, `CallsTools`, `GetsResults`, `Prepares`; the invariants after it look at the kinds
and not at the 30 actions. `LoopInv` says that whoever is in the loop holds the state machine in PROCESSING, or somebody closed it:
submit() needs IDLE or AWAITING_INPUT, so nobody else gets in. `PairInv` says that only the last turn may still
lack its results, and if it does (`Hanging`) the input in the loop is the one about to append them; when that input has died between
the two turns the state is PROCESSING or CLOSED with nobody in the loop, so nobody sends the broken
history: that such a session stays stuck in PROCESSING is what keeps the history acceptable.
`EndInv` says that as long as nobody has raised, `depth`, which all tasks share, is the number of open follow-up loops of all tasks (`Shares`), so whoever
leaves the last of them is the outermost and announces; and an idle session that has not announced has an open loop or a SESSION_END going out. It needs the exception
because a loop left by one announces nothing. `LinesInv` says of each of the host's two streams that history, drained messages and queue lie behind one another and each in order, and that only the input that
injects holds drained messages: were two inputs in the loop, the one could be overtaken by the other, which is why it rests on `LoopInv`. `AccountSteps` sorts every step by what
it does to messages (`Talks`, `Drains`, `Relays`, `Takes`, `Loses`), and `KeptStays` says that all but `Loses` keep each message on its way. `SendsAssumption`: a message stands for
one call of steer() or follow_up(), a task for one of process_input(), so no two are the same; with two equal texts "once" and "in order" would have no meaning.
`ConversationHolds` sorts every step by what the abstract session sees of it (`ConversationMoves`): an input starts, a turn is said, a drained message is recorded, an input finishes or is given up, or a
message joins or leaves a line. `LoopInv` makes the set of tasks in the loop a singleton whenever one of them speaks, and the drained messages of that one task the front of `asides` (`SpeakerIs`); a task that raises takes a front of the line with it.
`OneInputAtATime` is proved and left to the refinement in the runs.

The subagent tools, for any children, messages and rounds of calls:

| Theorem | Says |
|---|---|
| `QuietMessagesHold` | a message acknowledged while its child was not running is carried by an instruction, still queued, or thrown away by close |
| `VerdictStandsHolds` | a verdict that no run in flight is about to overwrite is changed by close alone |
| `NodeGetsItsModelHolds` | the session runs on a model of the family the node asked for, with that family's base prompt |

The argument. What a running child has in its queue was either handed to it when it started or came while it ran, so what completion clears
was carried or is not quiet (`MessagesInv`); a step that starts no child and touches no queue keeps this (`NoChildStarts`). `AgentsAssumption` only tells ids from the marks of
a call. The provider is the first mounted one that fits; that the first index found is one that fits (`SelectedIs`) comes from `LeastIs`, the least element of a set of naturals, which
`WFMin` gives without an operator parameter. `MountingsAssumption`: something is mounted, and each name of it is known to have a family or none.

Managers, folder nodes and critics, for any graphs, managers, outcomes of children and critics:

| Theorem | Says |
|---|---|
| `ManagerVerdictHolds` | success only after a cycle that met the guard; giving up only after all cycles, none of which did |
| `LabelFromThisChildHolds` | the label a child routes by was given by a node of its own or seeded by the manager, never left over from the parent or the cycle before |
| `ChannelHolds` | each target sees the newest critiques of its own critic, in order, without a gap |

The argument. `CyclesInv` counts the outcomes observed against the cycle and keeps that all but the last left the guard unmet; the guard is
stated of the parent's context as a value (`MetIn`), because the context it is evaluated in does not change between cycles. `LabelInv`
adds to the property that the child's context keeps its keys: a label enters it only with the outcome of a child's node, which `given` records. `ChannelInv` says that every channel is the
sequence of its critic's latest entries up to the window; `SpokenKeeps` and `ChannelIsNewest` carry it over an append that drops the oldest. `MaxCritiquesAssumption`: the
window holds at least one; `ChildGraphsAssumption`: graphs are over known nodes.

Backends and the human gate, for any nodes, threads, answers and number of calls:

| Theorem | Says |
|---|---|
| `SuccessAssertedHolds` | an explicit favourable outcome is a verdict the model gave |
| `ChoiceHonouredHolds` | the gate routes by what the human picked |
| `TurnsReplacedHolds` | a spawned session's conversation holds one turn per node, in the order of the calls |
| `HistoryOwnHolds` | no walker of a cloned backend is shown what a branch beside it did |

The argument. `OutcomeIsAsserted` goes through every early return of the three backends. `MemoryInv` says of every cloned backend and thread: turns
are of distinct nodes, in the order of their calls, and by the walker the object belongs to (`OwnMemory`); `RewrittenKeeps` carries it over the truncation
before an append. It needs that a call's number is larger than every one before it, and that a clone starts empty. `ChoicesAssumption`: accelerator keys are distinct; with two equal keys the later choice wins and `ChoiceHonoured` is false.

The client, for any provider answers, tools, rounds and retries:

| Theorem | Says |
|---|---|
| `OnlyInterruptedOutliveHold` | when generate() is over no request is in flight, and a tool still runs only behind an interrupted call another tool of which has stopped |
| `NoDataTwiceHolds` | no attempt is made again after the caller saw an event of the step |
| `RequestsAnsweredHolds` | every request shows each tool call with one result behind it, in order |
| `StrictCallsExactHolds` | the calls of an answer that strict validation lets through are the provider's, in order, and complete unless a stream of Gemini's was cut |

The argument. `WorkInv` ties requests, tools and shown events to the await the call is at: a backoff is entered only before the first event, tools
run only at `tools`, while unwinding, or beside one that has given way. `AnsweredInv` says that the conversation is answered at all times, not only in
requests, because a round appends the assistant's message and all results in one step (`RoundKeepsAnswered`); it needs that the calls the accumulator has heard are
a sequence, for any events (`HeardKeepsSequence`).
`ExactInv` says what has been heard at each place of a stream that strict validation has let through so far (`HearingInv`): the calls of the items before it, with the call at hand open or not; `StreamMoves`
takes it from one event to the next for each adapter. A fragment of arguments never gets past strict validation (`FragmentRefused`), so the second start and end of a call
that the OpenAI adapter sends after fragments are never reached; the compatible adapter closes its calls at the end, and what it has closed is a prefix of what was asked (`StartsWithMore`). A FINISH is let through only when nothing is open, so
what is heard then is all that arrived, which is the answer or, on Gemini, a beginning of it (`Carried`): there a cut stream goes on as the whole stream of a shorter answer
(`StreamBreaks`, by `SameBeginning`: answers that agree up to an item ask for the same calls up to it, by the least item at which they would not). `CallsOf` is defined by rank and not by a recursion: the k-th call is the item with k calls up to it, so that one item more adds one call, or none, by counting.
`AnswersAssumption` only types the items; `NoCallAssumption` tells a call from none.

A run's way in, its walk and its way out, for any nodes, tasks nested in any way, and number of cancellations:

| Theorem | Says |
|---|---|
| `NothingLeftBehindHolds` | tree and session are gone when a run is over; so are a client its backend can close and a container its tools can destroy, unless that step failed |
| `ToldWhatHappenedHolds` | the caller is told the engine's outcome, and a failure whenever anything raised |
| `RecordsMatchExecutionsHolds` | the timeline has one record per execution, closed exactly when its own execution ended unless two tasks were at the node |
| `ClosedRecordsKeepCallsHolds` | no provider call is added to a record that is closed |

The argument. `OpenInv` and `HeldInv` say of every statement what may still be open there: each resource is opened at one statement, and every way from there to the end passes the one that closes it,
which `UnwindsOf` and `FollowingOf` tabulate. A client is opened by any task that calls the model, also by a branch that outlives the run, so `TasksInv` has to show that what is left after the teardown has no way to
open the one that was to be closed: `Tree` says that a task is awaited by tasks at work only, and by whatever awaits those, and `Owned` that as long as the backend has no client of its own every branch works on a fresh copy of
it, and so does everything under one; the rest is gone with the run. `ToldInv` adds what a statement implies of the outcome: a way out without one was entered by an exception. `SeenInv`
pairs the records of each node with its executions (`Timeline`, `Paired`) and keeps the newest record of an executed node open, which is what makes closing the newest one right, and closed once the node has
timed out, which is what makes the second completion harmless; nodes in `mixed` keep only the count. That the newest record of the current node is open (`CurrentOpen`) carries
`ClosedRecordsKeepCalls`: whatever closes a record, of whichever task, forgets the current node. `RolesAssumption` types the constants; no node is the mark for none (`NoNodeIsNone`).

The remote source, for any walks, files, versions, limits and faults:

| Theorem | Says |
|---|---|
| `CacheHealsHolds` | what a walk returns of a branch can be read back from the directory, unless the disk has failed since it began |
| `PromiseKeptHolds` | the walks implement `PublishedTrees`: a caller gets a whole tree, each file as published since it asked, or nothing |

The argument. `RemoteInv` says that a blob holds what its name says or is damaged (`RemoteTypes`), that what is served now has been served since the walk asked and that a pinned file's ref
is right or lost (`HostInv`), that a content on its way is as fresh as promised (`TaskInv`), and that what the files of a view name is in the view or on the frontier
(`ViewInv`), so that an empty frontier means a whole tree. With it every step is one of the abstract specification: `Begin` asks, the last `LevelTaken` delivers, a walk that dies or gives up releases,
a push publishes, all else stutters. `HealInv` adds that what an intact walk has stored is there. `ContentsAssumption`: references are to files, and neither damage nor absence has a hash.

Model-checked only: the liveness properties `Termination`, `HandlerEnds`, `CallsEnd`, `ManagerEnds`, `TimedCallsReturn` (liveness under fairness is out of the prover's
reach). Every other property of a passing run is a theorem.

## Where code and documents disagree

With a run that shows it:

* `gate_bypass`: a goal-gate retry clears the table that the gate check reads; a run that goes around the gate afterwards succeeds.
* `streams_refused`: three adapters stream argument fragments without their tool call, and the default validation refuses such an event after data was shown.
* `verdict_overridden`: on the spawn path a session that reports fail and then writes prose is a success; the direct backend reads JSON text before the report.

Met while modelling; the models do what the code does, and no run is spent on them:

* Engine: a producer that failed and then succeeded in a fix loop is still blamed, and its consumer skipped; the skip of a cleanup node becomes the status of a clean run,
  or makes the next cleanup node run; a cleanup node after a failed node without declared outputs is skipped; the retry jump of the skip path (engine.py:490) does not
  clear the tables as the two others do; a checkpoint is never read back.
* Parallel node: error_policy=ignore takes failed branches away before k_of_n counts, and nothing left is a success; fail_fast with first_success may drop a successful
  branch of the same batch; fail_fast with quorum counts recorded branches only; max_parallel=0 waits for ever; after the node's
  timeout branches may go on running: those `asyncio.wait` watches are not asked to stop, and those of gather are not waited for once one of them has stopped.
* Session: a retryable error leaves it in PROCESSING with nobody in the loop; on cancellation SESSION_END goes out before queued follow-ups run; the docstring of shutdown
  says less than the loop goes on to do; a cancelled tool round swallows CancelledError, so a node's timeout does not stop the session.
* Subagents: wait runs a closed child, or one that is running, again; messages sent while a child runs are cleared when it completes; wait does not pass the depth on; later
  providers and tools given to the orchestrator's execute are ignored once its session exists; a missing spawn capability is cached for good.
* Managers: the condition is evaluated against the child's outcome with the parent's context; cancellation is not looked at between cycles.
* Backends: the last braces of an embedded verdict with a nested object are the inner ones, so a non-gate FAIL becomes a success (against the comment at backend.py:1380); the direct
  backend has no clone, so branches share its conversations, and it does not truncate re-run nodes' turns; the last report call wins there even when invalid, while
  the session keeps the last valid one; a human's text is consumed by the first attempt even if that fails, and once per branch.
* Human gate: of two choices with one key the later wins; a timeout counts as a success with the first choice (human.py:256).
* Client: the OpenAI adapter repeats start and end of a call after arguments.done; the compatible one sends a second finish; a stream's total timeout and signal are looked at on events
  only, so a provider that stalls holds the caller; a stream's backoff ignores the signal; cancelling the awaiter of a wrapped generate() leaves its task to end by itself. An interrupted generate() waits for its tools
  only until one of them has stopped (generate.py:947). A Gemini stream that ends early is closed with a made-up FINISH (gemini.py:217-246): strict validation passes it, and the tools run for a part of the calls.
* Runs: the command line exits 1 on partial_success, while run_pipeline's tool result says success=True whatever the status; drive_engine never closes its backend; on the
  mounted path DirectProviderBackend makes a client of its own and has no close (`__init__.py`:374, :663), and nothing closes the clients of the copies of AmplifierBackend that branches work on, against the finalize
  contract quoted there (attractor-spec.md, section 3.1, step 6); without env_destroy among the tools a container stays up; a
  cancellation while the backend closes skips env_destroy; the manifest of an earlier run is stamped when a run fails before its engine starts.
* Aggregator: a child pipeline's start resets, and its end completes, the parent's state; token counts are read from the wrong place and total 0. Records are kept by node id: of two
  tasks at one node (two branches, a node and its namesake in a child) each completion closes the newest record, whoever's it is. A node that is skipped after a cut execution closes that one's record; one that
  times out completes twice, and the second status replaces "timeout"; a cancel request after a handler, and a cut branch, leave a record running for ever, and until a
  node completes a cut branch's record stays current, so that calls of its siblings are booked on it. The nodes of a branch behind its first one emit nothing, and branches left
  running by a timeout go on emitting into whatever comes next.
* Remote: files are fetched one by one, so a tree may mix two commits of a branch.

## Plan

1. Done: engine, parallel node, session, subagents, managers and critics, backends and human gate, client, remote source, runs; three refinements and their proofs; 44 theorems.
2. What the verdict readers of the backends have in common, as an abstract reader that all three implement.
3. validation.py's reachability rules as predicates over `PipelineGraph`, checked against a walk; `clone_for_branch` composed with `ParallelHandler`.

## Not modelled, and why

* Parsing, stylesheets, prompts, transcripts' wording, request and error translation, the model catalogue, tool-result truncation and the
  apply-patch tool are functions of text in one synchronous call; a text is abstracted to what is decided by it.
* Lint rules of validation.py are warnings about text; its error rules about shape are `Validated`, and that a graph may be refused is in `PipelineRuns`.
* Processes, files and HTTP are I/O whose results are choices of the models; the killing of processes and the length of delays are left out.
* generate_object, usage figures and event payloads change no decision the properties are about.
* Agents, bundles, profiles, examples and specs are configuration and prose; the specs are quoted where the code disagrees.
