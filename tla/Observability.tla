------------------------- MODULE Observability -------------------------
(***************************************************************************)
(* The state aggregator hook (hooks-pipeline-observability): a fold of the *)
(* pipeline's events into one PipelineRunState, which the status bar and   *)
(* the pipeline_status tool read.  Each operator is one handler.  The      *)
(* lists nothing is decided by (edges taken, gate checks, interviews, the  *)
(* branches of a fan-out) and the times are left out; the token counters   *)
(* are the counter of calls.                                               *)
(***************************************************************************)
EXTENDS Naturals, Sequences

CONSTANTS Nodes,     \* node identifiers, of a pipeline and of its children
          NoNode     \* current_node = None

ASSUME NoNodeIsNone == NoNode \notin Nodes

\* A record's status is told apart as running or ended: success, fail, and so on.
RunStatus == {"running", "ended"}
NodeRun   == [status : RunStatus, calls : Nat]

RunState == [status   : {"none", "running", "complete", "failed"},
             current  : Nodes \cup {NoNode},
             path     : SUBSET Nodes,
             runs     : [Nodes -> Seq(NodeRun)],
             calls    : Nat,
             errors   : Nat]

\* self.state is None: every handler but the first returns at once.
NoRun == [status |-> "none", current |-> NoNode, path |-> {},
          runs |-> [n \in Nodes |-> <<>>],
          calls |-> 0, errors |-> 0]

Seen(s, after) == IF s.status = "none" THEN s ELSE after

\* handle_pipeline_start makes a new state, whatever there was.
PipelineStart == [NoRun EXCEPT !.status = "running"]

\* handle_pipeline_complete: only the status "fail" is a failure.
PipelineComplete(s, status) ==
    Seen(s, [s EXCEPT !.status = IF status = "fail" THEN "failed" ELSE "complete"])

NodeStart(s, n) ==
    Seen(s, [s EXCEPT !.current = n,
                      !.path = @ \cup {n},
                      !.runs[n] = Append(@, [status |-> "running", calls |-> 0])])

\* The record a completion closes: the newest of the node, if it has one
\* (FirstClosed is a mutant).
FirstClosed(runs) ==
    IF runs = <<>> THEN runs ELSE [runs EXCEPT ![1].status = "ended"]
ClosedRuns(runs) ==
    IF runs = <<>> THEN runs ELSE [runs EXCEPT ![Len(runs)].status = "ended"]

\* (KeepsCurrent is a mutant: current_node is not reset.)
KeepsCurrent(s, n) == Seen(s, [s EXCEPT !.runs[n] = ClosedRuns(@)])
NodeComplete(s, n) ==
    Seen(s, [s EXCEPT !.runs[n] = ClosedRuns(@),
                      !.current = NoNode])

PipelineError(s) == Seen(s, [s EXCEPT !.status = "failed", !.errors = @ + 1])
StageFailed(s)   == Seen(s, [s EXCEPT !.errors = @ + 1])

\* A call is booked on the newest record of the one current node.
BookedCall(runs) ==
    IF runs = <<>> THEN runs ELSE [runs EXCEPT ![Len(runs)].calls = @ + 1]

ProviderResponse(s) ==
    Seen(s, LET counted == [s EXCEPT !.calls = @ + 1]
            IN  IF s.current = NoNode THEN counted
                ELSE [counted EXCEPT !.runs[s.current] = BookedCall(@)])

-----------------------------------------------------------------------------
\* What the readers make of it.

\* The status bar's "Done" line: nodes whose newest record is closed.
ListedDone(s) == {n \in s.path : /\ s.runs[n] # <<>>
                                 /\ s.runs[n][Len(s.runs[n])].status # "running"}

=============================================================================
