--------------------------- MODULE PipelineEngine ---------------------------
(***************************************************************************)
(* PipelineEngine.run (engine.py) with the retry ladder it calls            *)
(* (retry.execute_with_retry) and the artifact contract both consult        *)
(* (must_write.check_must_write).                                          *)
(*                                                                         *)
(* One engine walks one graph.  The engine is a coroutine, so what it does  *)
(* between two awaits is one action; around it the user may cancel, the     *)
(* wall clock may pass max_pipeline_duration, and a handler may answer,     *)
(* raise, or outlive its timeout.                                          *)
(*                                                                         *)
(* phase says where the coroutine stands:                                   *)
(*   top       at the head of the main loop                                 *)
(*   attempt   inside handler.execute                                       *)
(*   backoff   sleeping between two attempts                                *)
(*   after     the ladder returned raw                                      *)
(*   route     the outcome is recorded, no edge chosen yet                  *)
(*   skipped   the node was skipped and recorded, no edge chosen yet        *)
(*   done      run() returned result                                        *)
(***************************************************************************)
EXTENDS EdgeSelection

CONSTANTS
  Graphs,            \* the graphs an engine may be given
  MaxGateRetries     \* _MAX_GOAL_GATE_RETRIES, 50 in the code

ASSUME GraphsAssumption == \A g \in Graphs : IsGraph(g) /\ Validated(g)
ASSUME RetriesAssumption == MaxGateRetries \in Nat

VARIABLES
  graph,          \* self.graph; never changes
  phase, node,    \* where the coroutine is
  steps, gateRetries, routeRetries,
  completed,      \* completed_nodes
  outcomes,       \* node_outcomes, NoOutcome when there is no entry
  failed,         \* failed_outputs: key -> producer, NoNode when no entry
  execCount,      \* _node_execution_counts
  iteration,      \* iteration_count
  ctx,            \* the context keys "outcome" and "preferred_label"
  attempt, raw,   \* the retry ladder's counter and the outcome it holds
  artifact,       \* a fresh artifact lies at the node's must_write path
  cancel,         \* the cancel event is set
  expired,        \* max_pipeline_duration has passed
  result,         \* what run() returned: a status and why
  statusFile,     \* <logs_root>/<node>/status.json
  trace           \* the labels trace.jsonl records, by iteration

tables == <<completed, outcomes, failed>>
budgets == <<steps, gateRetries, routeRetries>>
ladder == <<attempt, raw, artifact>>
rundir == <<statusFile, trace>>
environment == <<cancel, expired>>
vars == <<graph, phase, node, budgets, tables, execCount, iteration, ctx, ladder,
          environment, result, rundir>>

-----------------------------------------------------------------------------

Phases == {"top", "attempt", "backoff", "after", "route", "skipped", "done"}
Reasons == {"running", "steps", "duration", "cancelled", "exit", "gates", "fan_in", "dead_end"}
MaybeOutcome == Outcome \cup {NoOutcome}

Attr(n) == graph.attrs[n]
MaxSteps == Cardinality(graph.nodes) * MaxGateRetries
Running == [status |-> "none", why |-> "running"]

Init ==
  /\ graph \in Graphs
  /\ phase = "top"
  /\ node = graph.start
  /\ steps = 0 /\ gateRetries = 0 /\ routeRetries = 0
  /\ completed = <<>>
  /\ outcomes = [n \in Nodes |-> NoOutcome]
  /\ failed = [k \in Keys |-> NoNode]
  /\ execCount = [n \in Nodes |-> 0]
  /\ iteration = 0
  /\ ctx = [outcome |-> "", label |-> ""]
  /\ attempt = 0 /\ raw = NoOutcome /\ artifact = FALSE
  /\ cancel = FALSE /\ expired = FALSE
  /\ result = Running
  /\ statusFile = [n \in Nodes |-> NoOutcome]
  /\ trace = {}

-----------------------------------------------------------------------------
(* Pieces several handlers share *)

ClearOutcomesOnly ==    \* mutant: failed_outputs survives the retry
  /\ completed' = <<>>
  /\ outcomes' = [n \in Nodes |-> NoOutcome]
  /\ UNCHANGED failed

ClearTables ==
  /\ completed' = <<>>
  /\ outcomes' = [n \in Nodes |-> NoOutcome]
  /\ failed' = [k \in Keys |-> NoNode]

(* The first producer to fail keeps the blame for a key.                   *)
Blamed(n) ==
  [k \in Keys |-> IF k \in Attr(n).outputs /\ failed[k] = NoNode THEN n ELSE failed[k]]

WriteStatus(n, o) ==
  /\ statusFile' = [statusFile EXCEPT ![n] = o]
  /\ trace' = IF o.label = "" THEN trace
              ELSE trace \cup {[iteration |-> iteration, node |-> n, label |-> o.label]}

Record(n, o) ==
  /\ completed' = Append(completed, n)
  /\ outcomes' = [outcomes EXCEPT ![n] = o]
  /\ WriteStatus(n, o)

(* FAIL and SKIPPED are exempt from the artifact contract.                 *)
ContractBroken(n, o, written) == Attr(n).mustWrite /\ IsSuccess(o) /\ ~written

Finish(s, why) ==
  /\ phase' = "done"
  /\ result' = [status |-> s, why |-> why]
  /\ UNCHANGED <<graph, node, gateRetries, routeRetries, tables, execCount,
                 iteration, ctx, ladder, environment, rundir>>

GoTo(n) == phase' = "top" /\ node' = n

-----------------------------------------------------------------------------
(* The world around the coroutine *)

RequestCancel ==
  /\ phase # "done" /\ ~cancel
  /\ cancel' = TRUE
  /\ UNCHANGED <<graph, phase, node, budgets, tables, execCount, iteration, ctx,
                 ladder, expired, result, rundir>>

Elapse ==
  /\ phase # "done" /\ graph.maxDuration /\ ~expired
  /\ expired' = TRUE
  /\ UNCHANGED <<graph, phase, node, budgets, tables, execCount, iteration, ctx,
                 ladder, cancel, result, rundir>>

-----------------------------------------------------------------------------
(* The head of the loop.  Every pass counts a step before anything else.   *)

ExceedSteps ==
  /\ phase = "top" /\ steps >= MaxSteps
  /\ steps' = steps + 1
  /\ Finish("fail", "steps")

Tick == phase = "top" /\ steps < MaxSteps /\ steps' = steps + 1

ExceedDuration == Tick /\ expired /\ Finish("fail", "duration")

CancelAtHead == Tick /\ ~expired /\ cancel /\ Finish("fail", "cancelled")

Proceed == Tick /\ ~expired /\ ~cancel

(* Goal gates look only at nodes that have an outcome in the table.        *)
Gates == {n \in graph.nodes : outcomes[n] # NoOutcome /\ Attr(n).gate}
GateHeldQuietly(n) == IsSuccess(outcomes[n])    \* mutant: explicit or not
GateHeld(n) == IsSuccess(outcomes[n]) /\ outcomes[n].explicit
Unheld == {n \in Gates : ~GateHeld(n)}

(* node_outcomes keeps the order of first insertion, which is the order of *)
(* first completion.                                                       *)
FirstAt(n) == CHOOSE i \in DOMAIN completed :
                completed[i] = n /\ \A j \in 1 .. i - 1 : completed[j] # n
FirstUnheld == CHOOSE n \in Unheld : \A m \in Unheld : FirstAt(n) <= FirstAt(m)

Suggesting(n) ==
  [Verdict("fail", FALSE) EXCEPT !.suggest = IF n = NoNode THEN <<>> ELSE <<n>>]

GateResult ==
  IF Unheld # {} THEN Suggesting(GateRetryTarget(graph, FirstUnheld))
  ELSE IF completed # <<>> THEN outcomes[completed[Len(completed)]]
  ELSE Verdict("success", FALSE)

AtExit == Proceed /\ Attr(node).exit

ExitPasses ==
  /\ AtExit
  /\ GateResult.status # "fail"
  /\ Finish(GateResult.status, "exit")

MayRetryGates ==
  /\ GateResult.suggest # <<>> /\ gateRetries < MaxGateRetries
  /\ GateResult.suggest[1] \in graph.nodes

ExitRetries ==
  /\ AtExit
  /\ GateResult.status = "fail" /\ MayRetryGates
  /\ GoTo(GateResult.suggest[1])
  /\ gateRetries' = gateRetries + 1
  /\ ClearTables
  /\ UNCHANGED <<graph, routeRetries, execCount, iteration, ctx, ladder,
                 environment, result, rundir>>

ExitFails ==
  /\ AtExit
  /\ GateResult.status = "fail" /\ ~MayRetryGates
  /\ Finish("fail", "gates")

-----------------------------------------------------------------------------
(* Skipping *)

WithheldByFailure ==    \* mutant: a skip is not passed on
  {k \in Keys : failed[k] # NoNode /\ outcomes[failed[k]].status = "fail"}
Withheld == {k \in Keys : failed[k] # NoNode}

MustSkip(n) ==
  \/ Attr(n).runsOn = "failure" /\ Withheld = {}
  \/ Attr(n).runsOn = "success" /\ Attr(n).refs \cap Withheld # {}

(* The context keys outcome and preferred_label keep what the last node    *)
(* that ran left there.                                                    *)
SkipNode ==
  /\ Proceed /\ ~Attr(node).exit /\ MustSkip(node)
  /\ phase' = "skipped"
  /\ Record(node, Verdict("skipped", FALSE))
  /\ failed' = Blamed(node)
  /\ UNCHANGED <<graph, node, gateRetries, routeRetries, execCount, iteration, ctx,
                 ladder, environment, result>>

(* A skip routes as a FAIL, then by any plain edge.  loop_restart is not   *)
(* looked at on this path.                                                 *)
SkipEdges ==
  LET chosen == SelectEdge(graph, node, Verdict("fail", FALSE), ctx)
  IN  IF chosen # {} THEN chosen ELSE Best(Unconditional(graph, node))

SkipAdvances ==
  /\ phase = "skipped"
  /\ \E e \in SkipEdges : GoTo(e.to)
  /\ UNCHANGED <<graph, budgets, tables, execCount, iteration, ctx, ladder,
                 environment, result, rundir>>

MayRetryRoute == FailureRetryTarget(graph, node) # NoNode /\ routeRetries < MaxGateRetries

(* Unlike RouteRetries below, the tables survive this jump.                *)
SkipRetries ==
  /\ phase = "skipped" /\ SkipEdges = {} /\ MayRetryRoute
  /\ GoTo(FailureRetryTarget(graph, node))
  /\ routeRetries' = routeRetries + 1
  /\ UNCHANGED <<graph, steps, gateRetries, tables, execCount, iteration, ctx,
                 ladder, environment, result, rundir>>

SkipTerminates ==
  /\ phase = "skipped" /\ SkipEdges = {} /\ ~MayRetryRoute
  /\ Finish("fail", "dead_end")
  /\ UNCHANGED steps

-----------------------------------------------------------------------------
(* Running the handler through the retry ladder *)

(* requires= is checked before the handler; a missing file is a FAIL the   *)
(* handler never sees.                                                     *)
StartNode ==
  /\ Proceed /\ ~Attr(node).exit /\ ~MustSkip(node)
  /\ execCount' = [execCount EXCEPT ![node] = @ + 1]
  /\ artifact' = FALSE
  /\ attempt' = 1
  /\ \/ phase' = "attempt" /\ raw' = NoOutcome
     \/ Attr(node).requires /\ phase' = "after" /\ raw' = Verdict("fail", FALSE)
  /\ UNCHANGED <<graph, node, gateRetries, routeRetries, tables, iteration, ctx,
                 environment, result, rundir>>

LadderFrame == UNCHANGED <<graph, node, budgets, tables, execCount, iteration, ctx,
                           environment, result, rundir>>

(* While it runs, a handler may write the artifact, or spoil it.           *)
TouchArtifact == artifact' \in IF Attr(node).mustWrite THEN BOOLEAN ELSE {FALSE}

LastAttempt == attempt >= Attr(node).maxAttempts
Return(o) == phase' = "after" /\ raw' = o /\ UNCHANGED attempt
TryAgain == phase' = "backoff" /\ UNCHANGED <<attempt, raw>>

(* RETRY, or a completion without its artifact, uses an attempt up.        *)
UsesAttempt(o) == o.status = "retry" \/ ContractBroken(node, o, artifact')

(* What is left after a last attempt that used itself up.  allow_partial   *)
(* softens RETRY, never a missing artifact.                                *)
Leftover(o) ==
  LET partial == Verdict("partial_success", FALSE)
  IN  IF /\ o.status = "retry"
         /\ Attr(node).allowPartial
         /\ ~ContractBroken(node, partial, artifact')
      THEN partial ELSE Verdict("fail", FALSE)

AttemptCompletes ==
  /\ phase = "attempt" /\ TouchArtifact
  /\ \E o \in Attr(node).results : ~UsesAttempt(o) /\ Return(o)
  /\ LadderFrame

AttemptConsumed ==
  /\ phase = "attempt" /\ TouchArtifact
  /\ ~LastAttempt
  /\ \E o \in Attr(node).results : UsesAttempt(o) /\ TryAgain
  /\ LadderFrame

AttemptsExhausted ==
  /\ phase = "attempt" /\ TouchArtifact
  /\ LastAttempt
  /\ \E o \in Attr(node).results : UsesAttempt(o) /\ Return(Leftover(o))
  /\ LadderFrame

HandlerRaises ==
  /\ phase = "attempt" /\ TouchArtifact
  /\ \E r \in Attr(node).raises :
       IF r = "retryable" /\ ~LastAttempt THEN TryAgain ELSE Return(Verdict("fail", FALSE))
  /\ LadderFrame

BackoffForgets ==    \* mutant: the attempt is not counted
  /\ phase = "backoff"
  /\ phase' = "attempt"
  /\ UNCHANGED ladder
  /\ LadderFrame

BackoffElapses ==
  /\ phase = "backoff"
  /\ phase' = "attempt" /\ attempt' = attempt + 1
  /\ UNCHANGED <<raw, artifact>>
  /\ LadderFrame

(* The timeout covers the whole ladder: every attempt and every backoff.   *)
NodeTimeout ==
  /\ phase \in {"attempt", "backoff"} /\ Attr(node).timeout
  /\ IF phase = "attempt" THEN TouchArtifact ELSE UNCHANGED artifact
  /\ Return(Verdict(IF Attr(node).allowPartial THEN "partial_success" ELSE "fail", FALSE))
  /\ LadderFrame

-----------------------------------------------------------------------------
(* After the ladder *)

(* The node ran but the run ends without a record of it.                   *)
CancelAfterNode ==
  /\ phase = "after" /\ cancel
  /\ Finish("fail", "cancelled")
  /\ UNCHANGED steps

FlipStatusOnly(n, o) ==    \* mutant: the override keeps is_explicit
  IF Attr(n).continueOnFail /\ o.status = "fail" THEN [o EXCEPT !.status = "success"] ELSE o

AutoStatus(n, o) ==
  IF Attr(n).autoStatus /\ o.status = "skipped"
  THEN [o EXCEPT !.status = "success", !.explicit = FALSE] ELSE o

ContinueOnFail(n, o) ==
  IF Attr(n).continueOnFail /\ o.status = "fail"
  THEN [o EXCEPT !.status = "success", !.explicit = FALSE] ELSE o

NoBackstop(n, o, written) == o    \* mutant
Backstop(n, o, written) == IF ContractBroken(n, o, written) THEN Verdict("fail", FALSE) ELSE o

(* The contract is checked last, so that no override can hide a violation. *)
Settled == Backstop(node, ContinueOnFail(node, AutoStatus(node, raw)), artifact)

RecordOutcome ==
  /\ phase = "after" /\ ~cancel
  /\ phase' = "route"
  /\ Record(node, Settled)
  /\ failed' = IF Settled.status = "fail" THEN Blamed(node) ELSE failed
  /\ ctx' = [outcome |-> Settled.status,
             label |-> IF Settled.label = "" THEN ctx.label ELSE Settled.label]
  /\ attempt' = 0 /\ raw' = NoOutcome /\ artifact' = FALSE
  /\ UNCHANGED <<graph, node, budgets, execCount, iteration, environment, result>>

-----------------------------------------------------------------------------
(* Routing *)

(* A component node's branches ran inside its handler: the engine goes     *)
(* straight to where they meet.                                            *)
FansOut == Attr(node).component /\ Cardinality(Outgoing(graph, node)) > 1
MeetingPoints == FanInNodes(graph, BranchRoots(graph, node))

RouteToFanIn ==
  /\ phase = "route" /\ FansOut
  /\ \E n \in MeetingPoints : GoTo(n)
  /\ UNCHANGED <<graph, budgets, tables, execCount, iteration, ctx, ladder,
                 environment, result, rundir>>

NoFanIn ==
  /\ phase = "route" /\ FansOut /\ MeetingPoints = {}
  /\ Finish("fail", "fan_in")
  /\ UNCHANGED steps

Chosen == SelectEdge(graph, node, outcomes[node], ctx)

RouteEdge ==
  /\ phase = "route" /\ ~FansOut
  /\ \E e \in Chosen : ~e.restart /\ GoTo(e.to)
  /\ UNCHANGED <<graph, budgets, tables, execCount, iteration, ctx, ladder,
                 environment, result, rundir>>

StaleCtx == ctx    \* mutant
FreshCtx == [ctx EXCEPT !.label = ""]

(* A new iteration: tables, retry budgets and the routing label are reset, *)
(* the step budget is not.                                                 *)
LoopRestart ==
  /\ phase = "route" /\ ~FansOut
  /\ \E e \in Chosen : e.restart /\ GoTo(e.to)
  /\ iteration' = iteration + 1
  /\ ClearTables
  /\ gateRetries' = 0 /\ routeRetries' = 0
  /\ ctx' = FreshCtx
  /\ UNCHANGED <<graph, steps, execCount, ladder, environment, result, rundir>>

RouteRetries ==
  /\ phase = "route" /\ ~FansOut /\ Chosen = {} /\ MayRetryRoute
  /\ GoTo(FailureRetryTarget(graph, node))
  /\ routeRetries' = routeRetries + 1
  /\ ClearTables
  /\ UNCHANGED <<graph, steps, gateRetries, execCount, iteration, ctx, ladder,
                 environment, result, rundir>>

RouteTerminates ==
  /\ phase = "route" /\ ~FansOut /\ Chosen = {} /\ ~MayRetryRoute
  /\ Finish("fail", "dead_end")
  /\ UNCHANGED steps

-----------------------------------------------------------------------------

HeadStep ==
  \/ ExceedSteps \/ ExceedDuration \/ CancelAtHead
  \/ ExitPasses \/ ExitRetries \/ ExitFails
  \/ SkipNode \/ StartNode

SkipStep == SkipAdvances \/ SkipRetries \/ SkipTerminates

LadderStep ==
  \/ AttemptCompletes \/ AttemptConsumed \/ AttemptsExhausted
  \/ HandlerRaises \/ BackoffElapses \/ NodeTimeout

RouteStep ==
  \/ RouteToFanIn \/ NoFanIn \/ RouteEdge \/ LoopRestart
  \/ RouteRetries \/ RouteTerminates

Step == HeadStep \/ SkipStep \/ LadderStep \/ CancelAfterNode \/ RecordOutcome \/ RouteStep
World == RequestCancel \/ Elapse
Next == Step \/ World

Spec == Init /\ [][Next]_vars

(* The event loop keeps running the coroutine, and every handler answers,  *)
(* raises or is timed out; nobody has to cancel.                           *)
FairSpec == Spec /\ WF_vars(Step)

-----------------------------------------------------------------------------
(* What the engine promises *)

(* Every variable has its type, and the retry budgets stay in bounds.      *)
TypeOK ==
  /\ IsGraph(graph)
  /\ phase \in Phases /\ node \in graph.nodes
  /\ steps \in Nat /\ gateRetries \in 0 .. MaxGateRetries /\ routeRetries \in 0 .. MaxGateRetries
  /\ completed \in Seq(graph.nodes)
  /\ outcomes \in [Nodes -> MaybeOutcome]
  /\ failed \in [Keys -> Nodes \cup {NoNode}]
  /\ execCount \in [Nodes -> Nat]
  /\ iteration \in Nat
  /\ ctx \in [outcome: Status \cup {""}, label: Labels]
  /\ attempt \in Nat /\ raw \in MaybeOutcome /\ artifact \in BOOLEAN
  /\ cancel \in BOOLEAN /\ expired \in BOOLEAN
  /\ result \in [status: Status \cup {"none"}, why: Reasons]
  /\ statusFile \in [Nodes -> MaybeOutcome]
  /\ trace \subseteq [iteration: Nat, node: Nodes, label: Labels]

InHandler == phase \in {"attempt", "backoff"}

(* An answer SKIPPED that the engine gave, not the node's own handler.     *)
SkippedByEngine(m) ==
  outcomes[m].status = "skipped" /\ \A o \in Attr(m).results : o.status # "skipped"

(* While the handler of a default (runs_on=success) node runs, no input it *)
(* references is an output of a node whose recorded outcome is FAIL, or    *)
(* that the engine skipped: the eager scan of _check_node_skip, the        *)
(* population of failed_outputs and every place that clears it have to     *)
(* agree for this to hold.                                                 *)
NoHandlerSeesFailedInput ==
  InHandler /\ Attr(node).runsOn = "success" =>
    \A m \in graph.nodes :
      outcomes[m].status = "fail" \/ SkippedByEngine(m) =>
        Attr(m).outputs \cap Attr(node).refs = {}

(* Every entry of failed_outputs blames a node that declares the key and   *)
(* has an outcome in this pass: node_outcomes and failed_outputs are       *)
(* cleared together, never one without the other.                          *)
BlameIsGrounded ==
  \A k \in Keys : failed[k] # NoNode =>
    /\ failed[k] \in graph.nodes
    /\ k \in Attr(failed[k]).outputs
    /\ outcomes[failed[k]] # NoOutcome

(* An explicit verdict in the table is one the node's own handler gave:    *)
(* no override, timeout, exhausted ladder, missing artifact or skip ever   *)
(* makes one up (EXTENSIONS.md 25).                                        *)
VerdictsAreAsserted ==
  \A n \in graph.nodes : outcomes[n].explicit => outcomes[n] \in Attr(n).results

(* A run that reports success, or partial success, stopped at the exit     *)
(* node, and each goal gate with an outcome was passed by its own handler. *)
SuccessMeansGatesHeld ==
  IsSuccess(result) =>
    /\ Attr(node).exit /\ result.why = "exit"
    /\ \A n \in Gates : IsSuccess(outcomes[n]) /\ outcomes[n] \in Attr(n).results

(* The preferred label that conditions read from the context was given by  *)
(* a node of the present iteration (trace.jsonl has the record), never by  *)
(* one before the last loop_restart.                                       *)
LabelFromThisIteration ==
  ctx.label # "" => \E t \in trace : t.iteration = iteration /\ t.label = ctx.label

(* However often gates, failures and restarts send the run back, no node   *)
(* runs more than MaxSteps times, nor does the run restart more often.     *)
RunBounded ==
  /\ steps <= MaxSteps + 1
  /\ iteration <= MaxSteps
  /\ Len(completed) <= MaxSteps
  /\ \A n \in Nodes : execCount[n] <= MaxSteps

(* A node with must_write= enters the table as a success only in a step    *)
(* that finds its artifact fresh: nothing between the handler and the      *)
(* table, continue_on_fail and auto_status included, gets around it.       *)
ArtifactContract ==
  [][\A n \in graph.nodes :
       Attr(n).mustWrite /\ outcomes'[n] # outcomes[n] /\ IsSuccess(outcomes'[n]) =>
         artifact]_vars

(* Routing is no matter of chance: select_edge never has two edges to      *)
(* return, whatever ties on weight, label or suggestion.                   *)
OneWayOn ==
  /\ \A e, f \in Chosen : e = f
  /\ \A e, f \in SkipEdges : e = f

(* A run that gives up for want of an edge had none: no retry is left, no   *)
(* condition holds of the outcome (FAIL, for a node that was skipped), and  *)
(* each plain edge leads from a failure to a node that is not there for it. *)
DeadEndsAreReal ==
  result.why = "dead_end" =>
    /\ ~MayRetryRoute
    /\ \E o \in {outcomes[node], Verdict("fail", FALSE)} :
         /\ o = outcomes[node] \/ outcomes[node].status = "skipped"
         /\ \A e \in Outgoing(graph, node) : e.cond # {} => ~ConditionHolds(e, o, ctx)
    /\ \A e \in Unconditional(graph, node) :
         outcomes[node].status = "fail" /\ ~OptsIn(graph, e.to)

(* Under cancellation, timeouts, retries, overrides and restarts, run() is  *)
(* a walk over the graph: every node it reaches gets one verdict before it  *)
(* is left, and leaves it by an edge, a meeting point or a counted retry;   *)
(* the table is forgotten whole; the result comes once and is grounded.     *)
Standing ==
  IF phase = "done" THEN "over"
  ELSE IF phase = "route" THEN "decided"
  ELSE IF phase = "skipped" THEN "skipped" ELSE "open"

Walk ==
  INSTANCE GraphWalk WITH
    Maps <- Graphs, Patience <- MaxGateRetries,
    map <- graph, here <- node, standing <- Standing, table <- outcomes,
    gateRetried <- gateRetries, routeRetried <- routeRetries, ending <- result.status

\* PipelineEngine with its ladder, tables and budgets is GraphWalk.
WalkKept == Walk!WalkSpec

(* run() returns.                                                          *)
Termination == <>(phase = "done")

-----------------------------------------------------------------------------
(* What the repository says of the engine, and the code does not do *)

(* attractor-spec.md: a goal gate must reach SUCCESS before the pipeline   *)
(* can exit.  Stated of every gate the run has visited: the last verdict   *)
(* in its status.json.                                                     *)
VisitedGatesSucceed ==
  IsSuccess(result) =>
    \A n \in graph.nodes : Attr(n).gate /\ statusFile[n] # NoOutcome =>
      IsSuccess(statusFile[n]) /\ statusFile[n].explicit

=============================================================================
