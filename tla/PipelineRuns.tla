-------------------------- MODULE PipelineRuns --------------------------
(***************************************************************************)
(* The ways into the engine and the way out of each: the mounted           *)
(* orchestrator (PipelineOrchestrator.execute), the library's drive_engine,*)
(* the command line (cmd_run, run_pipeline, drive_engine) and the          *)
(* run_pipeline tool (a child session with the mounted orchestrator).      *)
(* Every step may raise, and a cancellation may land at every await, a     *)
(* second one in the teardown too.  While the engine walks, it and all it  *)
(* starts emit their events to the one aggregator of Observability.        *)
(***************************************************************************)
EXTENDS Observability, FiniteSets

CONSTANTS Tasks,       \* identifiers of the walks that may be under way at once
          Top,         \* the one that engine.run of the job itself is
          Fans,        \* nodes that are fan-outs
          Folders,     \* nodes that run another walk: folders and managers
          MaxVisits,   \* bound: nodes and child pipelines begun or skipped
          FullWalks,   \* bound: the jobs whose walk goes on after the first
          MaxCalls,    \* bound: provider calls of a run
          MaxCancels   \* bound: cancellations, the second lands in a teardown

ASSUME RolesAssumption ==
    /\ Top \in Tasks
    /\ Fans \cup Folders \subseteq Nodes

Entries  == {"mounted", "direct", "cli", "tool"}
Statuses == {"success", "partial_success", "fail"}
NoStatus == "none"

VARIABLES
    job,        \* how it was started: see Jobs
    statement,  \* the statement the outermost coroutine is at
    raised,     \* an exception is on its way out
    cancels,    \* cancellations delivered so far
    view,       \* the materialised tree: "none", "here", "deleted"
    container,  \* "none", "up", "lost" (created, its id unknown), "gone"
    client,     \* the LLM client of the run's backend: "none", "open", "closed"
    cloned,     \* a branch's clone of the backend has opened one of its own
    session,    \* the runner's session: "none", "open", "closed"
    manifest,   \* "none", "stale" (of an earlier run), "own", "stamped"
    cut,        \* which teardown steps failed or were cancelled
    outcome,    \* status of the Outcome engine.run returned
    told,       \* what the caller is told
    seen,       \* the aggregator's state
    tasks,      \* the walks under way: see Task
    execs,      \* history: the executions of a node since the aggregator's
                \* state was made: "live", "done" or "cut"
    mixed,      \* history: nodes that two tasks were at, or that were skipped
                \* after a cut execution
    visits

wrapVars == <<job, raised, cancels, view, container, client, cloned, session, manifest, cut,
              outcome, told>>
eventVars == <<seen, tasks, execs, mixed, visits>>
runVars == <<statement, wrapVars, eventVars>>

Mounted == job.entry \in {"mounted", "tool"}

\* What can be wrong with a start, by entry; a graph's defect is noticed by
\* transforms and validation, which only the library call may decline.
Flaws(entry) == {"none", "graph"}
    \cup (IF entry \in {"cli", "tool"} THEN {"arguments"} ELSE {})
    \cup (IF entry \in {"cli", "direct"} THEN {"engine", "params"} ELSE {})

\* What serves the llm_provider a node declares: a mounted module or a profile
\* with its credential, a profile without it, something that serves others
\* only, or nothing at all is mounted (the default profiles exclude the last
\* in the runner).
Supplies(entry) == {"served", "no credential", "not mounted"}
    \cup (IF entry \in {"mounted", "tool"} THEN {"simulation"} ELSE {})

\* What calls the model: AmplifierBackend through session.spawn or, injected and
\* without that capability, by a client of its own; DirectProviderBackend; none.
Backends(entry) == CASE entry = "mounted" -> {"spawn", "own loop", "direct", "none"}
                     [] entry = "tool" -> {"spawn", "direct", "none"}
                     [] OTHER -> {"spawn"}

Jobs == {j \in [entry : Entries, remote : BOOLEAN, checked : BOOLEAN,
                env : {"none", "create", "create and destroy"},    \* its tools
                flaw : {"none", "graph", "arguments", "engine", "params"},
                supply : {"served", "no credential", "not mounted", "simulation"},
                backend : {"spawn", "own loop", "direct", "none"}] :
            /\ j.flaw \in Flaws(j.entry)
            /\ j.supply \in Supplies(j.entry)
            /\ j.backend \in Backends(j.entry)
            /\ j.backend = "none" <=> j.supply = "simulation"
            /\ j.backend = "own loop" => j.supply = "served"
            /\ j.env # "none" => j.entry \in {"mounted", "tool"}
            /\ ~j.checked => j.entry = "direct"}

\* A task: run() of an engine, run_subgraph of one, or a branch, which is at its
\* target from its first event to its last and may silently go on behind it.  It
\* is "over" when its node timed out but has not completed; it is awaited by the
\* tasks in "under"; the backend of a "fresh" one was cloned without a client.
Task == [kind : {"none", "engine", "subgraph", "branch"}, at : Nodes \cup {NoNode},
         over : BOOLEAN, under : SUBSET Tasks, fresh : BOOLEAN]
NoTask == [kind |-> "none", at |-> NoNode, over |-> FALSE, under |-> {}, fresh |-> FALSE]

RunsInit ==
    /\ job \in Jobs
    /\ statement = CASE job.entry = "cli" -> "args" [] job.entry = "tool" -> "input"
                 [] job.entry = "direct" -> "compat" [] OTHER -> "load"
    /\ raised = FALSE /\ cancels = 0
    /\ view = "none" /\ container = "none" /\ client = "none" /\ cloned = FALSE
    /\ session = "none"
    /\ manifest \in {"none", "stale"}
    /\ manifest = "stale" => job.entry = "cli"
    /\ cut = {} /\ outcome = NoStatus /\ told = NoStatus
    /\ seen = NoRun /\ tasks = [t \in Tasks |-> NoTask]
    /\ execs = [n \in Nodes |-> <<>>] /\ mixed = {} /\ visits = 0

-----------------------------------------------------------------------------
(* The way in.                                                             *)

\* The statement after p when p succeeds.
Following(p) ==
    CASE p = "args"     -> "prepare"
      [] p = "prepare"  -> "compat"
      [] p = "input"    -> "load"
      [] p = "compat"   -> "load"
      [] p = "load"     -> IF Mounted THEN "validate" ELSE "seed"
      [] p = "seed"     -> IF job.checked THEN "validate" ELSE "preflight"
      [] p = "validate" -> "preflight"
      [] p = "preflight" -> IF Mounted /\ job.env # "none" THEN "environment" ELSE "run"
      [] p = "environment" -> "run"

\* Where an exception of p is caught first: the finally blocks around it.
Unwinds(p) ==
    CASE p \in {"args", "input"} -> "report"
      [] p = "prepare" -> "report"
      [] p \in {"compat", "load"} -> IF job.entry = "cli" THEN "leave" ELSE "report"
      [] p = "walk" -> IF Mounted THEN "closing" ELSE "cleanup"
      [] OTHER -> "cleanup"

\* A check passes or raises.
Judge(passes) ==
    /\ statement' = IF passes THEN Following(statement) ELSE Unwinds(statement)
    /\ raised' = ~passes
    /\ UNCHANGED <<job, cancels, view, container, client, cloned, session, manifest, cut, outcome, told, eventVars>>

\* cmd_run: the file, the parameters, the provider, its key, stdin.
ReadArguments == statement = "args" /\ Judge(job.flaw # "arguments")

\* The tool: goal, source, providers and the session.spawn capability.
ReadToolInput == statement = "input" /\ Judge(job.flaw # "arguments")

CheckEngineCompatibility == statement = "compat" /\ Judge(job.flaw # "engine")

\* A reserved key among the parameters raises before anything is seeded.
SeedContext == statement = "seed" /\ Judge(job.flaw # "params")

\* apply_transforms and validate_or_raise.
Validate == statement = "validate" /\ Judge(job.flaw # "graph")

\* check_provider_preflight; with nothing mounted it is skipped.
Preflight == statement = "preflight" /\ Judge(job.supply \in {"served", "simulation"})

\* _build_prepared, create_session, register_capability and __aenter__.
OpenSession ==
    /\ statement = "prepare"
    /\ session' = "open"
    /\ statement' = Following(statement)
    /\ UNCHANGED <<job, raised, cancels, view, container, client, cloned, manifest, cut, outcome, told, eventVars>>

\* load_remote_or_local_graph: a remote source is materialised first.
Load ==
    /\ statement = "load"
    /\ view' = IF job.remote THEN "here" ELSE "none"
    /\ statement' = Following(statement)
    /\ UNCHANGED <<job, raised, cancels, container, client, cloned, session, manifest, cut, outcome, told, eventVars>>

\* env_create: a container and its id, or an answer without an id, after which
\* the pipeline runs locally.
Create ==
    /\ statement = "environment"
    /\ container' \in {"none", "up", "lost"}
    /\ statement' = Following(statement)
    /\ UNCHANGED <<job, raised, cancels, view, client, cloned, session, manifest, cut, outcome, told, eventVars>>

\* A statement that awaits raises, or is cancelled there: load undoes its own
\* view, env_create may have made its container before it.
Raise ==
    /\ statement \in {"prepare", "load", "environment"}
    /\ statement' = Unwinds(statement)
    /\ raised' = TRUE
    /\ container' \in IF statement = "environment" THEN {"none", "lost"} ELSE {container}
    /\ UNCHANGED <<job, cancels, view, client, cloned, session, manifest, cut, outcome, told, eventVars>>

-----------------------------------------------------------------------------
(* engine.run.  What is modelled of the walk is its events; PipelineEngine *)
(* and ParallelHandler model the walk itself.  An engine runs fan-outs and *)
(* child pipelines, a branch as well, and all of them at once.             *)

Engine(t) == tasks[t].kind = "engine"
Branch(t) == tasks[t].kind = "branch"
BetweenNodes(t) == tasks[t].kind \in {"engine", "subgraph"} /\ tasks[t].at = NoNode
InNode(t) == tasks[t].at # NoNode /\ ~tasks[t].over

Occupied == {tasks[t].at : t \in Tasks}
Executed == {tasks[t].at : t \in {u \in Tasks : InNode(u)}}

\* What t waits for, all of it and what its own handler has started.
Below(t) == {u \in Tasks : t \in tasks[u].under}
StartedBy(t) == {u \in Below(t) : tasks[u].under = tasks[t].under \cup {t}}

WrapKept == UNCHANGED <<statement, wrapVars>>

Visits ==
    /\ visits < IF job \in FullWalks THEN MaxVisits ELSE 1
    /\ visits' = visits + 1

Ended(es, how) == IF es = <<>> THEN es ELSE [es EXCEPT ![Len(es)] = how]
Cuts(off) == [n \in Nodes |-> IF n \in off THEN Ended(execs[n], "cut") ELSE execs[n]]

\* An execution of n begins that its event has told of.
Begins(n) ==
    /\ execs' = [execs EXCEPT ![n] = Append(@, "live")]
    /\ mixed' = IF n \in Occupied THEN mixed \cup {n} ELSE mixed

\* A new state has no records of what is under way.
Forgets == /\ seen' = PipelineStart
           /\ execs' = [n \in Nodes |-> <<>>]
           /\ UNCHANGED mixed

StartRun ==
    /\ statement = "run"
    /\ statement' = "walk"
    /\ manifest' = "own"
    /\ tasks' = [tasks EXCEPT ![Top] = [NoTask EXCEPT !.kind = "engine"]]
    /\ Forgets
    /\ UNCHANGED <<job, raised, cancels, view, container, client, cloned, session, cut, outcome, told, visits>>

Enter(t, n) ==
    /\ BetweenNodes(t)
    /\ Visits
    /\ tasks' = [tasks EXCEPT ![t].at = n]
    /\ seen' = NodeStart(seen, n)
    /\ Begins(n)
    /\ WrapKept

\* A node whose inputs failed is skipped: it completes without a start.
Skip(t, n) ==
    /\ Engine(t) /\ BetweenNodes(t)
    /\ Visits
    /\ seen' = NodeComplete(seen, n)
    /\ mixed' = IF n \in Occupied \/ (execs[n] # <<>> /\ execs[n][Len(execs[n])] # "done")
                THEN mixed \cup {n} ELSE mixed
    /\ UNCHANGED <<tasks, execs>> /\ WrapKept

\* A node ends, and with it whatever its handler started; one that timed out
\* completes a second time.
Leave(t) ==
    /\ tasks[t].kind \in {"engine", "subgraph"} /\ tasks[t].at # NoNode
    /\ Below(t) = {}
    /\ seen' = NodeComplete(seen, tasks[t].at)
    /\ execs' = [execs EXCEPT ![tasks[t].at] = IF tasks[t].over THEN @ ELSE Ended(@, "done")]
    /\ tasks' = [tasks EXCEPT ![t] = [@ EXCEPT !.at = NoNode, !.over = FALSE]]
    /\ UNCHANGED <<mixed, visits>> /\ WrapKept

\* What is cancelled stops without an event, what it awaits with it.  Branches
\* may be left running, with all that they await: asyncio.wait does not cancel
\* what it watches, and a branch may swallow its cancellation.
Leftovers(below) ==
    {left \in SUBSET below : \A u \in left :
        /\ Below(u) \subseteq left
        /\ Branch(u) \/ \E v \in left \cap tasks[u].under : Branch(v)}

Stopped(gone, left) ==
    [u \in Tasks |-> IF u \in gone THEN NoTask
                     ELSE IF u \in left THEN [tasks[u] EXCEPT !.under = @ \cap left]
                     ELSE tasks[u]]

CutAt(gone) == Cuts({tasks[u].at : u \in {v \in gone : InNode(v)}})

\* asyncio.timeout around a node's handler: the first of two completions.
TimesOut(t) ==
    /\ Engine(t) /\ InNode(t)
    /\ \E left \in Leftovers(Below(t)) :
          /\ tasks' = [Stopped(Below(t) \ left, left) EXCEPT ![t].over = TRUE]
          /\ execs' = [CutAt(Below(t) \ left) EXCEPT ![tasks[t].at] = Ended(@, "done")]
    /\ seen' = NodeComplete(seen, tasks[t].at)
    /\ UNCHANGED <<mixed, visits>> /\ WrapKept

\* The retry ladder gave a node up: pipeline:stage_failed, before it ends.
StageGivenUp(t) ==
    /\ Engine(t) /\ InNode(t)
    /\ seen.errors = 0 /\ visits = 1       \* bound: once, in the first node
    /\ seen' = StageFailed(seen)
    /\ UNCHANGED <<tasks, execs, mixed, visits>> /\ WrapKept

\* A fan-out starts its branch to b, each with a clone of the backend unless that
\* has none to offer.
StartBranch(t, u, b) ==
    /\ InNode(t) /\ (~Branch(t) => tasks[t].at \in Fans)
    /\ \A v \in StartedBy(t) : Branch(v)
    /\ tasks[u].kind = "none"
    /\ Visits
    /\ tasks' = [tasks EXCEPT ![u] =
          [kind |-> "branch", at |-> b, over |-> FALSE, under |-> tasks[t].under \cup {t},
           fresh |-> job.backend = "own loop" /\ (tasks[t].fresh \/ client = "none")]]
    /\ seen' = NodeStart(seen, b)
    /\ Begins(b)
    /\ WrapKept

EndBranch(u) ==
    /\ Branch(u) /\ Below(u) = {}
    /\ seen' = NodeComplete(seen, tasks[u].at)
    /\ execs' = [execs EXCEPT ![tasks[u].at] = Ended(@, "done")]
    /\ tasks' = [tasks EXCEPT ![u] = NoTask]
    /\ UNCHANGED <<mixed, visits>> /\ WrapKept

\* first_success, k_of_n and fail_fast cancel branches that still run.
CutBranches(t) ==
    /\ \E off \in (SUBSET {u \in StartedBy(t) : Branch(u)}) \ {{}} :
          LET below == UNION {Below(u) : u \in off} IN
          \E left \in Leftovers(below) :
             /\ tasks' = Stopped(off \cup (below \ left), left)
             /\ execs' = CutAt(off \cup (below \ left))
    /\ UNCHANGED <<seen, mixed, visits>> /\ WrapKept

\* A folder or a manager runs a child pipeline, which starts like any other, or
\* the manager a part of its own graph, of which no event tells.
StartChild(t, u, kind) ==
    /\ InNode(t) /\ (~Branch(t) => tasks[t].at \in Folders)
    /\ Below(t) = {}
    /\ tasks[u].kind = "none"
    /\ Visits
    /\ tasks' = [tasks EXCEPT ![u] =
          [kind |-> kind, at |-> NoNode, over |-> FALSE, under |-> tasks[t].under \cup {t},
           fresh |-> tasks[t].fresh]]
    /\ IF kind = "engine" THEN Forgets ELSE UNCHANGED <<seen, execs, mixed>>
    /\ WrapKept

\* run() is over: by an exit or a limit, for want of an edge (which emits
\* pipeline:error first), or by a cancel request, which is looked at between nodes
\* and after a handler: then no event ends the node.
Finishes(t, status, how) ==
    /\ Engine(t) /\ Below(t) = {}
    /\ how # "cancel" => tasks[t].at = NoNode
    /\ how # "exit" => status = "fail"
    /\ seen' = PipelineComplete(IF how = "no edge" THEN PipelineError(seen) ELSE seen,
                                IF how = "cancel" THEN "cancelled" ELSE status)
    /\ tasks' = [tasks EXCEPT ![t] = NoTask]
    /\ execs' = CutAt({t})
    /\ UNCHANGED <<mixed, visits>>

EndChild(t, status, how) == t # Top /\ Finishes(t, status, how) /\ WrapKept

\* A part of a graph is over without an event; so is a child engine that raises,
\* which its handler catches.
ChildBreaks(t) ==
    /\ t # Top /\ tasks[t].kind \in {"engine", "subgraph"} /\ Below(t) = {}
    /\ tasks[t].kind = "subgraph" => BetweenNodes(t)
    /\ tasks' = [tasks EXCEPT ![t] = NoTask]
    /\ execs' = CutAt({t})
    /\ UNCHANGED <<seen, mixed, visits>> /\ WrapKept

\* A provider call by a backend that makes them itself, on the client that it
\* has, was cloned with, or makes now.
Call(t) ==
    /\ InNode(t) /\ Below(t) = {}
    /\ ~Branch(t) => tasks[t].at \notin Fans \cup Folders
    /\ job.backend \in {"own loop", "direct"}
    /\ seen.calls < MaxCalls
    /\ IF tasks[t].fresh THEN cloned' = TRUE /\ client' = client
       ELSE client # "closed" /\ client' = "open" /\ cloned' = cloned
    /\ seen' = ProviderResponse(seen)
    /\ UNCHANGED <<statement, job, raised, cancels, view, container, session, manifest, cut, outcome, told,
                   tasks, execs, mixed, visits>>

FinishWalk(status, how) ==
    /\ statement = "walk"
    /\ Finishes(Top, status, how)
    /\ outcome' = status
    /\ statement' = IF Mounted THEN "closing" ELSE "cleanup"
    /\ UNCHANGED <<job, raised, cancels, view, container, client, cloned, session, manifest, cut, told>>

\* A cancellation reaches the walk, or run() raises: everything under it is cut,
\* but for branches that are left running.
BreakWalk ==
    /\ statement = "walk"
    /\ cancels' \in {cancels, cancels + 1} /\ cancels' <= MaxCancels
    /\ cancels' = cancels => Below(Top) = {}
    /\ raised' = TRUE
    /\ statement' = Unwinds("walk")
    /\ \E left \in Leftovers(Below(Top)) :
          LET gone == {Top} \cup (Below(Top) \ left) IN
          tasks' = Stopped(gone, left) /\ execs' = CutAt(gone)
    /\ UNCHANGED <<job, view, container, client, cloned, session, manifest, cut, outcome, told, seen, mixed, visits>>

Hows == {"exit", "no edge", "cancel"}

TaskStep(t) ==
    \/ \E n \in Nodes : Enter(t, n) \/ Skip(t, n)
    \/ \E u \in Tasks, b \in Nodes : StartBranch(t, u, b)
    \/ \E u \in Tasks, kind \in {"engine", "subgraph"} : StartChild(t, u, kind)
    \/ Leave(t) \/ TimesOut(t) \/ StageGivenUp(t) \/ EndBranch(t) \/ CutBranches(t)
    \/ \E s \in Statuses, how \in Hows : EndChild(t, s, how)
    \/ ChildBreaks(t) \/ Call(t)

Walk ==
    \/ StartRun
    \/ \E t \in Tasks : TaskStep(t)
    \/ \E s \in Statuses, how \in Hows : FinishWalk(s, how)
    \/ BreakWalk

-----------------------------------------------------------------------------
(* The way out.  A failing teardown step is logged; a cancelled one lets   *)
(* the cancellation through, past the steps of its own finally block.      *)

\* getattr(backend, "close", None): only AmplifierBackend has one, and only for its
\* own client; where no client is open there is nothing to fail or to cancel.
Closes == job.backend = "own loop" /\ client = "open"

CloseBackend ==
    /\ statement = "closing"
    /\ IF Closes
       THEN \/ client' = "closed" /\ cut' = cut
            \/ client' = client /\ cut' = cut \cup {"close"}
       ELSE UNCHANGED <<client, cut>>
    /\ statement' = "destroying"
    /\ UNCHANGED <<job, raised, cancels, view, container, cloned, session, manifest, outcome, told, eventVars>>

\* if container_id and "env_destroy" in tools.
Destroys == container = "up" /\ job.env = "create and destroy"

DestroyEnvironment ==
    /\ statement = "destroying"
    /\ IF Destroys
       THEN \/ container' = "gone" /\ cut' = cut
            \/ container' = container /\ cut' = cut \cup {"destroy"}
       ELSE UNCHANGED <<container, cut>>
    /\ statement' = "cleanup"
    /\ UNCHANGED <<job, raised, cancels, view, client, cloned, session, manifest, outcome, told, eventVars>>

CancelTeardown ==
    /\ \/ statement = "closing" /\ Closes /\ cut' = cut \cup {"close", "destroy"}
       \/ statement = "destroying" /\ Destroys /\ cut' = cut \cup {"destroy"}
    /\ cancels < MaxCancels
    /\ cancels' = cancels + 1
    /\ raised' = TRUE
    /\ statement' = "cleanup"
    /\ UNCHANGED <<job, view, container, client, cloned, session, manifest, outcome, told, eventVars>>

\* The outer finally: _source_cleanup.  A plausible slip: only after a return.
ViewIfReturned == IF view = "here" /\ ~raised THEN "deleted" ELSE view
ViewAfterCleanup == IF view = "here" THEN "deleted" ELSE view

CleanUp ==
    /\ statement = "cleanup"
    /\ view' = ViewAfterCleanup
    /\ statement' = IF job.entry = "cli" THEN "leave" ELSE "report"
    /\ UNCHANGED <<job, raised, cancels, container, client, cloned, session, manifest, cut, outcome, told, eventVars>>

\* __aexit__ of the session, then _augment_manifest_provenance in a finally of
\* its own: it stamps whatever manifest is in the directory, and may raise on
\* one it cannot read.
LeaveSession ==
    /\ statement = "leave"
    /\ session' = "closed"
    /\ \/ /\ manifest' = IF manifest = "none" THEN "none" ELSE "stamped"
          /\ UNCHANGED <<raised, cut>>
       \/ /\ manifest # "none"
          /\ raised' = TRUE /\ cut' = cut \cup {"stamp"} /\ UNCHANGED manifest
    /\ statement' = "report"
    /\ UNCHANGED <<job, cancels, view, container, client, cloned, outcome, told, eventVars>>

\* The command line's exit code, the tool's result, the call's value.  A plausible
\* slip: only a fail is told as one.
LenientExitCode == IF ~raised /\ outcome # "fail" THEN "exit 0" ELSE "exit 1"
ExitCode == IF ~raised /\ outcome = "success" THEN "exit 0" ELSE "exit 1"
ToolResult == IF raised THEN "error" ELSE outcome
CallResult == IF raised THEN "exception" ELSE outcome

Report ==
    /\ statement = "report"
    /\ told' = CASE job.entry = "cli" -> ExitCode
                 [] job.entry = "tool" -> ToolResult
                 [] OTHER -> CallResult
    /\ statement' = "over"
    /\ UNCHANGED <<job, raised, cancels, view, container, client, cloned, session, manifest, cut, outcome, eventVars>>

Way == \/ ReadArguments \/ ReadToolInput \/ CheckEngineCompatibility \/ SeedContext
       \/ Validate \/ Preflight \/ OpenSession \/ Load \/ Create \/ Raise
Out == CloseBackend \/ DestroyEnvironment \/ CancelTeardown \/ CleanUp \/ LeaveSession \/ Report

RunsNext == Way \/ Walk \/ Out

RunsSpec == RunsInit /\ [][RunsNext]_runVars
-----------------------------------------------------------------------------
(* Properties                                                              *)

\* However a run ends, by its result, by an exception of any statement or by a
\* cancellation at any await: the materialised tree is deleted, the session is
\* closed, the client is closed if the backend has a close, and the container
\* destroyed if the tool for it is mounted, each unless that teardown step itself
\* failed or was cancelled or the container's id was never known (the finally
\* blocks of execute, drive_engine and run_pipeline).  What a clone of the backend
\* or a DirectProviderBackend has opened stays open: nothing closes it.
NothingLeftBehind ==
    statement = "over" =>
        /\ view # "here"
        /\ session # "open"
        /\ client = "open" => job.backend = "direct" \/ "close" \in cut
        /\ container = "up" => job.env = "create" \/ "destroy" \in cut

\* The caller of a run is told what the engine's outcome was: exit code 0 for a
\* success and for nothing else, a status only if engine.run returned it, and a
\* failure whenever anything raised on the way in or out, which is what becomes
\* of a pipeline that cannot be served or that does not validate; a manifest the
\* run wrote is stamped unless the stamping failed (cmd_run, run_pipeline and
\* the run_pipeline tool).
ToldWhatHappened ==
    statement = "over" =>
        /\ told = "exit 0" => outcome = "success"
        /\ told \in Statuses => told = outcome
        /\ raised \/ outcome = NoStatus => told \in {"exit 1", "error", "exception"}
        /\ told = "exit 1" => raised \/ outcome \in Statuses \ {"success"}
        /\ job.entry = "cli" /\ manifest = "own" => "stamp" \in cut
        /\ outcome # NoStatus => /\ job.supply \in {"served", "simulation"}
                                 /\ job.flaw = "graph" => ~job.checked

\* The timeline has one record for every execution of a node since its state was
\* made, in order.  A node that no two walks were at, and that was not skipped
\* after a cut execution, has each record closed exactly when its own execution
\* ended: not by an event of another branch or child, nor by an earlier visit's
\* or a second completion; what was cut stays open, and the status bar lists no
\* node as done that is being executed (handle_node_start, handle_node_complete
\* under nested fan-outs, child pipelines, timeouts, skips and stray branches).
RecordsMatchExecutions ==
    \A n \in Nodes :
        /\ Len(seen.runs[n]) = Len(execs[n])
        /\ n \notin mixed =>
              /\ \A i \in DOMAIN execs[n] :
                    (seen.runs[n][i].status = "running") <=> (execs[n][i] # "done")
              /\ n \in ListedDone(seen) => n \notin Executed

\* What a closed record says of its calls is final: a provider call is booked on
\* an open record or on none.  A call of one branch is lost to the records, not
\* given to another's, once any node has completed (handle_provider_response, by
\* current_node).
ClosedRecordsKeepCalls ==
    [][\A n \in Nodes : \A i \in DOMAIN seen.runs[n] \cap DOMAIN seen.runs'[n] :
          seen.runs[n][i].status # "running" =>
              seen.runs'[n][i].calls = seen.runs[n][i].calls]_runVars

=============================================================================
