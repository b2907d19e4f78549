------------------------ MODULE PipelineEngineProofs ------------------------
(***************************************************************************)
(* What holds of the engine for every set of graphs and every retry bound.  *)
(*                                                                         *)
(* The proofs are layered: TypeInv is inductive by itself, and each later   *)
(* invariant is proved inductive with the earlier ones at hand.  At the     *)
(* end the engine is shown to implement GraphWalk, and its routing to be    *)
(* determined and complete.                                                *)
(***************************************************************************)
EXTENDS PipelineEngine, FiniteSetTheorems, SequenceTheorems, WellFoundedInduction, TLAPS

-----------------------------------------------------------------------------
(* The graph helpers *)

(* Whatever rung of the ladder select_edge stops at, it returns one of the *)
(* node's own outgoing edges.                                              *)
LEMMA SelectEdgeOutgoing ==
  ASSUME NEW g, NEW n, NEW o, NEW context
  PROVE  SelectEdge(g, n, o, context) \subseteq Outgoing(g, n)
BY DEF SelectEdge, ConditionMatched, LabelMatched, SuggestionMatched, DefaultEdges,
       Unconditional, Best, Earliest

LEMMA EdgeTargets ==
  ASSUME NEW g, Validated(g), NEW n, NEW e \in Outgoing(g, n)
  PROVE  e.to \in g.nodes
BY DEF Validated, Outgoing

LEMMA VerdictType ==
  ASSUME NEW st \in Status, NEW ex \in BOOLEAN
  PROVE  /\ Verdict(st, ex) \in Outcome
         /\ Verdict(st, ex).status = st
         /\ Verdict(st, ex).explicit = ex
         /\ Verdict(st, ex).label = ""
<1>1. <<>> \in Seq(Nodes) /\ "" \in Labels
  BY LabelsAssumption, EmptySeq
<1> QED
  BY <1>1 DEF Verdict, Outcome

LEMMA OutcomeStatus ==
  ASSUME NEW o \in Outcome
  PROVE  o.status \in Status
BY DEF Outcome

LEMMA NoOutcomeApart == NoOutcome \notin Outcome /\ ~NoOutcome.explicit
                        /\ NoOutcome.status = "none"
BY DEF NoOutcome, Outcome, Status

LEMMA RetryTargetInGraph ==
  ASSUME NEW g, NEW n, FailureRetryTarget(g, n) # NoNode
  PROVE  FailureRetryTarget(g, n) \in g.nodes
BY DEF FailureRetryTarget

-----------------------------------------------------------------------------
(* Types *)

TypeInv ==
  /\ TypeOK
  /\ graph \in Graphs
  /\ phase = "after" => raw \in Outcome

(* The counters, taken out of TypeOK for the steps that do arithmetic.     *)
LEMMA Counters ==
  ASSUME TypeInv
  PROVE  /\ steps \in Nat /\ attempt \in Nat /\ iteration \in Nat
         /\ gateRetries \in 0 .. MaxGateRetries /\ routeRetries \in 0 .. MaxGateRetries
         /\ execCount \in [Nodes -> Nat] /\ node \in graph.nodes
         /\ completed \in Seq(graph.nodes)
         /\ trace \subseteq [iteration: Nat, node: Nodes, label: Labels]
BY Zenon DEF TypeInv, TypeOK

LEMMA GraphFacts ==
  ASSUME graph \in Graphs
  PROVE  /\ IsGraph(graph) /\ Validated(graph)
         /\ graph.nodes \subseteq Nodes /\ graph.start \in graph.nodes
         /\ NoNode \notin graph.nodes
         /\ MaxSteps \in Nat
<1>1. IsGraph(graph) /\ Validated(graph)
  BY GraphsAssumption
<1>2. graph.nodes \subseteq Nodes /\ graph.start \in graph.nodes /\ NoNode \notin graph.nodes
  BY <1>1, NodesAssumption DEF IsGraph
<1>3. Cardinality(graph.nodes) \in Nat
  BY <1>2, NodesAssumption, FS_Subset, FS_CardinalityType
<1> QED
  BY <1>1, <1>2, <1>3, RetriesAssumption DEF MaxSteps

LEMMA SkipEdgesInGraph ==
  ASSUME graph \in Graphs, NEW e \in SkipEdges
  PROVE  e.to \in graph.nodes
<1>1. e \in Outgoing(graph, node)
  BY SelectEdgeOutgoing DEF SkipEdges, Best, Unconditional
<1> QED
  BY <1>1, GraphFacts, EdgeTargets

LEMMA ChosenInGraph ==
  ASSUME graph \in Graphs, NEW e \in Chosen
  PROVE  e.to \in graph.nodes
BY SelectEdgeOutgoing, GraphFacts, EdgeTargets DEF Chosen

LEMMA SettledType ==
  ASSUME TypeOK, raw \in Outcome
  PROVE  Settled \in Outcome
<1>1. AutoStatus(node, raw) \in Outcome
  BY DEF AutoStatus, Outcome, Status
<1>2. ContinueOnFail(node, AutoStatus(node, raw)) \in Outcome
  BY <1>1 DEF ContinueOnFail, Outcome, Status
<1> QED
  BY <1>2, VerdictType DEF Settled, Backstop, Status

LEMMA TypeInit == Init => TypeInv
<1> SUFFICES ASSUME Init PROVE TypeInv
  OBVIOUS
<1>1. graph \in Graphs /\ IsGraph(graph) /\ node \in graph.nodes
  BY GraphFacts DEF Init
<1>2. completed \in Seq(graph.nodes)
  BY EmptySeq DEF Init
<1>3. ctx \in [outcome: Status \cup {""}, label: Labels]
  BY LabelsAssumption DEF Init
<1>4. result \in [status: Status \cup {"none"}, why: Reasons]
  BY DEF Init, Running, Reasons
<1>5. /\ outcomes \in [Nodes -> MaybeOutcome] /\ statusFile \in [Nodes -> MaybeOutcome]
      /\ raw \in MaybeOutcome
  BY DEF Init, MaybeOutcome
<1>6. /\ failed \in [Keys -> Nodes \cup {NoNode}] /\ execCount \in [Nodes -> Nat]
      /\ trace \subseteq [iteration: Nat, node: Nodes, label: Labels]
  BY DEF Init
<1>7. /\ phase \in Phases /\ phase # "after"
      /\ artifact \in BOOLEAN /\ cancel \in BOOLEAN /\ expired \in BOOLEAN
  BY DEF Init, Phases
<1>8. /\ steps \in Nat /\ iteration \in Nat /\ attempt \in Nat
      /\ gateRetries \in 0 .. MaxGateRetries /\ routeRetries \in 0 .. MaxGateRetries
  <2>1. steps = 0 /\ iteration = 0 /\ attempt = 0 /\ gateRetries = 0 /\ routeRetries = 0
    BY DEF Init
  <2> QED
    BY <2>1, RetriesAssumption
<1> QED
  BY <1>1, <1>2, <1>3, <1>4, <1>5, <1>6, <1>7, <1>8, Zenon DEF TypeInv, TypeOK

(* What every way of ending the run leaves well typed.                     *)
LEMMA FinishType ==
  ASSUME TypeInv, NEW st \in Status \cup {"none"}, NEW why \in Reasons,
         Finish(st, why), steps' \in Nat
  PROVE  TypeInv'
BY DEF TypeInv, TypeOK, Finish, tables, ladder, environment, rundir, Phases

LEMMA RecordType ==
  ASSUME TypeInv, NEW o \in Outcome, Record(node, o)
  PROVE  /\ completed' \in Seq(graph.nodes)
         /\ outcomes' \in [Nodes -> MaybeOutcome]
         /\ statusFile' \in [Nodes -> MaybeOutcome]
         /\ trace' \subseteq [iteration: Nat, node: Nodes, label: Labels]
<1>1. node \in Nodes /\ o.label \in Labels /\ iteration \in Nat
  BY GraphFacts DEF TypeInv, TypeOK, Outcome
<1>2. completed' \in Seq(graph.nodes)
  BY AppendProperties DEF TypeInv, TypeOK, Record
<1>3. outcomes' \in [Nodes -> MaybeOutcome] /\ statusFile' \in [Nodes -> MaybeOutcome]
  BY DEF TypeInv, TypeOK, Record, WriteStatus, MaybeOutcome
<1>4. trace' \subseteq [iteration: Nat, node: Nodes, label: Labels]
  <2>1. trace' \subseteq trace \cup {[iteration |-> iteration, node |-> node, label |-> o.label]}
    BY DEF Record, WriteStatus
  <2>2. [iteration |-> iteration, node |-> node, label |-> o.label]
          \in [iteration: Nat, node: Nodes, label: Labels]
    BY <1>1
  <2> QED
    BY <2>1, <2>2, Counters, Zenon
<1> QED
  BY <1>2, <1>3, <1>4

LEMMA BlamedType ==
  ASSUME TypeInv
  PROVE  Blamed(node) \in [Keys -> Nodes \cup {NoNode}]
BY GraphFacts DEF TypeInv, TypeOK, Blamed

LEMMA ClearTablesType ==
  ASSUME ClearTables
  PROVE  /\ completed' \in Seq(graph.nodes)
         /\ outcomes' \in [Nodes -> MaybeOutcome]
         /\ failed' \in [Keys -> Nodes \cup {NoNode}]
BY EmptySeq DEF ClearTables, MaybeOutcome

LEMMA GateResultType ==
  ASSUME TypeInv
  PROVE  GateResult.status \in Status \cup {"none"}
<1>1. CASE Unheld # {}
  BY <1>1 DEF GateResult, Suggesting, Verdict, Status
<1>2. CASE Unheld = {} /\ completed # <<>>
  <2>1. Len(completed) \in 1 .. Len(completed)
    <3>1. completed \in Seq(graph.nodes)
      BY Counters
    <3> QED
      BY <3>1, <1>2, EmptySeq, LenProperties
  <2>2. completed[Len(completed)] \in Nodes
    BY <2>1, ElementOfSeq, GraphFacts DEF TypeInv, TypeOK
  <2>3. outcomes[completed[Len(completed)]] \in MaybeOutcome
    BY <2>2 DEF TypeInv, TypeOK
  <2> QED
    <3>1. GateResult = outcomes[completed[Len(completed)]]
      BY <1>2 DEF GateResult
    <3>2. \A o \in MaybeOutcome : o.status \in Status \cup {"none"}
      BY NoOutcomeApart, OutcomeStatus DEF MaybeOutcome
    <3> QED
      BY <2>3, <3>1, <3>2, Zenon
<1>3. CASE Unheld = {} /\ completed = <<>>
  BY <1>3 DEF GateResult, Verdict, Status
<1> QED
  BY <1>1, <1>2, <1>3

LEMMA ResultsType ==
  ASSUME TypeInv, NEW o \in Attr(node).results
  PROVE  o \in Outcome
<1>1. graph.attrs \in [graph.nodes -> NodeAttrs] /\ node \in graph.nodes
  BY GraphFacts, Counters DEF TypeInv, IsGraph
<1>2. Attr(node) \in NodeAttrs
  BY <1>1 DEF Attr
<1> QED
  BY <1>2 DEF NodeAttrs

LEMMA TypeStep == TypeInv /\ [Next]_vars => TypeInv'
<1> SUFFICES ASSUME TypeInv, [Next]_vars PROVE TypeInv'
  OBVIOUS
<1> USE DEF budgets, tables, ladder, rundir, environment
<1>a. graph \in Graphs /\ graph.nodes \subseteq Nodes /\ MaxSteps \in Nat /\ IsGraph(graph)
  BY GraphFacts DEF TypeInv
<1>b. steps \in Nat /\ steps + 1 \in Nat
  BY Counters
<1>c. "fail" \in Status /\ {"steps", "duration", "cancelled", "exit", "gates", "fan_in", "dead_end"} \subseteq Reasons
  BY DEF Status, Reasons
<1>1. CASE ExceedSteps
  BY <1>1, <1>b, <1>c, FinishType DEF ExceedSteps
<1>2. CASE ExceedDuration
  BY <1>2, <1>b, <1>c, FinishType DEF ExceedDuration, Tick
<1>3. CASE CancelAtHead
  BY <1>3, <1>b, <1>c, FinishType DEF CancelAtHead, Tick
<1>4. CASE ExitPasses
  BY <1>4, <1>b, <1>c, FinishType, GateResultType DEF ExitPasses, AtExit, Proceed, Tick
<1>5. CASE ExitRetries
  <2>1. gateRetries' \in 0 .. MaxGateRetries
    BY <1>5, Counters, RetriesAssumption DEF ExitRetries, MayRetryGates
  <2> QED
    BY <1>5, <2>1, <1>b, ClearTablesType
       DEF ExitRetries, AtExit, Proceed, Tick, MayRetryGates, GoTo, TypeInv, TypeOK, Phases
<1>6. CASE ExitFails
  BY <1>6, <1>b, <1>c, FinishType DEF ExitFails, AtExit, Proceed, Tick
<1>7. CASE SkipNode
  <2>1. Verdict("skipped", FALSE) \in Outcome
    BY VerdictType DEF Status
  <2> QED
    BY <1>7, <2>1, <1>b, RecordType, BlamedType
       DEF SkipNode, Proceed, Tick, TypeInv, TypeOK, Phases
<1>8. CASE StartNode
  <2>1. Verdict("fail", FALSE) \in Outcome
    BY VerdictType DEF Status
  <2>2. execCount' \in [Nodes -> Nat]
    BY <1>8, <1>a, Counters DEF StartNode
  <2> QED
    BY <1>8, <2>1, <2>2, <1>b
       DEF StartNode, Proceed, Tick, TypeInv, TypeOK, Phases, MaybeOutcome
<1>9. CASE SkipAdvances
  BY <1>9, <1>a, SkipEdgesInGraph DEF SkipAdvances, GoTo, TypeInv, TypeOK, Phases
<1>10. CASE SkipRetries
  <2>1. routeRetries' \in 0 .. MaxGateRetries
    BY <1>10, Counters, RetriesAssumption DEF SkipRetries, MayRetryRoute
  <2> QED
    BY <1>10, <2>1, RetryTargetInGraph
       DEF SkipRetries, MayRetryRoute, GoTo, TypeInv, TypeOK, Phases
<1>11. CASE SkipTerminates
  BY <1>11, <1>b, <1>c, FinishType DEF SkipTerminates
<1>12. CASE AttemptCompletes
  <2>1. PICK o \in Attr(node).results : Return(o)
    BY <1>12 DEF AttemptCompletes
  <2>2. o \in Outcome
    BY ResultsType
  <2> QED
    BY <1>12, <2>1, <2>2 DEF AttemptCompletes, Return, TouchArtifact, LadderFrame,
                              TypeInv, TypeOK, Phases, MaybeOutcome
<1>13. CASE AttemptConsumed
  BY <1>13 DEF AttemptConsumed, TryAgain, TouchArtifact, LadderFrame, TypeInv, TypeOK, Phases
<1>14. CASE AttemptsExhausted
  <2>1. PICK o \in Attr(node).results : Return(Leftover(o))
    BY <1>14 DEF AttemptsExhausted
  <2>2. Leftover(o) \in Outcome
    BY VerdictType DEF Leftover, Status
  <2> QED
    BY <1>14, <2>1, <2>2 DEF AttemptsExhausted, Return, TouchArtifact, LadderFrame,
                              TypeInv, TypeOK, Phases, MaybeOutcome
<1>15. CASE HandlerRaises
  <2>1. Verdict("fail", FALSE) \in Outcome
    BY VerdictType DEF Status
  <2>2. TryAgain \/ Return(Verdict("fail", FALSE))
    BY <1>15 DEF HandlerRaises
  <2> QED
    BY <1>15, <2>1, <2>2 DEF HandlerRaises, Return, TryAgain, TouchArtifact, LadderFrame,
                              TypeInv, TypeOK, Phases, MaybeOutcome
<1>16. CASE BackoffElapses
  <2>1. attempt' \in Nat
    BY <1>16, Counters DEF BackoffElapses
  <2> QED
    BY <1>16, <2>1 DEF BackoffElapses, LadderFrame, TypeInv, TypeOK, Phases
<1>17. CASE NodeTimeout
  <2>1. \E st \in Status : Return(Verdict(st, FALSE))
    BY <1>17 DEF NodeTimeout, Status
  <2>2. raw' \in Outcome /\ phase' = "after" /\ UNCHANGED attempt
    BY <2>1, VerdictType DEF Return
  <2>3. artifact' \in BOOLEAN
    BY <1>17 DEF NodeTimeout, TouchArtifact, TypeInv, TypeOK
  <2> QED
    BY <1>17, <2>2, <2>3 DEF NodeTimeout, LadderFrame, TypeInv, TypeOK, Phases, MaybeOutcome
<1>18. CASE CancelAfterNode
  BY <1>18, <1>b, <1>c, FinishType DEF CancelAfterNode
<1>19. CASE RecordOutcome
  <2>1. Settled \in Outcome
    BY <1>19, SettledType DEF RecordOutcome, TypeInv
  <2>2. ctx' \in [outcome: Status \cup {""}, label: Labels]
    BY <1>19, <2>1 DEF RecordOutcome, TypeInv, TypeOK, Outcome
  <2>3. failed' \in [Keys -> Nodes \cup {NoNode}]
    BY <1>19, BlamedType DEF RecordOutcome, TypeInv, TypeOK
  <2> QED
    BY <1>19, <2>1, <2>2, <2>3, RecordType
       DEF RecordOutcome, TypeInv, TypeOK, Phases, MaybeOutcome
<1>20. CASE RouteToFanIn
  BY <1>20 DEF RouteToFanIn, MeetingPoints, FanInNodes, GoTo, TypeInv, TypeOK, Phases
<1>21. CASE NoFanIn
  BY <1>21, <1>b, <1>c, FinishType DEF NoFanIn
<1>22. CASE RouteEdge
  BY <1>22, <1>a, ChosenInGraph DEF RouteEdge, GoTo, TypeInv, TypeOK, Phases
<1>23. CASE LoopRestart
  <2>1. /\ iteration' \in Nat
        /\ gateRetries' \in 0 .. MaxGateRetries /\ routeRetries' \in 0 .. MaxGateRetries
    BY <1>23, Counters, RetriesAssumption DEF LoopRestart
  <2>2. ctx' \in [outcome: Status \cup {""}, label: Labels]
    BY <1>23, LabelsAssumption DEF LoopRestart, FreshCtx, TypeInv, TypeOK
  <2> QED
    BY <1>23, <2>1, <2>2, <1>a, ChosenInGraph, ClearTablesType
       DEF LoopRestart, GoTo, TypeInv, TypeOK, Phases
<1>24. CASE RouteRetries
  <2>1. routeRetries' \in 0 .. MaxGateRetries
    BY <1>24, Counters, RetriesAssumption DEF RouteRetries, MayRetryRoute
  <2> QED
    BY <1>24, <2>1, RetryTargetInGraph, ClearTablesType
       DEF RouteRetries, MayRetryRoute, GoTo, TypeInv, TypeOK, Phases
<1>25. CASE RouteTerminates
  BY <1>25, <1>b, <1>c, FinishType DEF RouteTerminates
<1>26. CASE World
  BY <1>26 DEF World, RequestCancel, Elapse, TypeInv, TypeOK
<1>27. CASE UNCHANGED vars
  BY <1>27 DEF vars, TypeInv, TypeOK
<1> QED
  BY <1>1, <1>2, <1>3, <1>4, <1>5, <1>6, <1>7, <1>8, <1>9, <1>10, <1>11, <1>12, <1>13, <1>14,
     <1>15, <1>16, <1>17, <1>18, <1>19, <1>20, <1>21, <1>22, <1>23, <1>24, <1>25, <1>26, <1>27
     DEF Next, Step, HeadStep, SkipStep, LadderStep, RouteStep

LEMMA TypeAlways == Spec => []TypeInv
BY TypeInit, TypeStep, PTL DEF Spec

(* Every variable keeps its type and the retry budgets stay in bounds,      *)
(* whatever graph PipelineEngine.run is given: in particular the node it    *)
(* stands on is always one of the graph's, since dangling retry targets     *)
(* and suggestions are dropped before they are followed.                    *)
THEOREM TypeCorrect == Spec => []TypeOK
<1>1. TypeInv => TypeOK
  BY DEF TypeInv
<1> QED
  BY <1>1, TypeAlways, PTL

-----------------------------------------------------------------------------
(* The safety properties.  TypeInv is at hand everywhere; the two lemmas    *)
(* that follow say which steps touch the tables and which hand an outcome   *)
(* over, so that each invariant below looks only at those.                 *)

LEMMA TableSteps ==
  ASSUME [Next]_vars
  PROVE  /\ graph' = graph
         /\ \/ UNCHANGED tables
            \/ ClearTables /\ phase' = "top"
            \/ SkipNode
            \/ RecordOutcome
<1> USE DEF tables, environment, budgets, ladder, rundir
<1>1. CASE HeadStep
  BY <1>1 DEF HeadStep, ExceedSteps, ExceedDuration, CancelAtHead, ExitPasses, ExitRetries,
              ExitFails, SkipNode, StartNode, Finish, GoTo
<1>2. CASE SkipStep
  BY <1>2 DEF SkipStep, SkipAdvances, SkipRetries, SkipTerminates, Finish
<1>3. CASE LadderStep
  BY <1>3 DEF LadderStep, AttemptCompletes, AttemptConsumed, AttemptsExhausted, HandlerRaises,
              BackoffElapses, NodeTimeout, LadderFrame
<1>4. CASE CancelAfterNode \/ RecordOutcome
  BY <1>4 DEF CancelAfterNode, RecordOutcome, Finish
<1>5. CASE RouteStep
  BY <1>5 DEF RouteStep, RouteToFanIn, NoFanIn, RouteEdge, LoopRestart, RouteRetries,
              RouteTerminates, Finish, GoTo
<1>6. CASE World \/ UNCHANGED vars
  BY <1>6 DEF World, RequestCancel, Elapse, vars
<1> QED
  BY <1>1, <1>2, <1>3, <1>4, <1>5, <1>6 DEF Next, Step

(* How the coroutine comes to stand where an outcome is handed over.       *)
LEMMA AfterSteps ==
  ASSUME [Next]_vars, phase' = "after"
  PROVE  /\ node' = node
         /\ \/ phase = "after" /\ raw' = raw
            \/ StartNode /\ raw' = Verdict("fail", FALSE)
            \/ AttemptCompletes \/ AttemptsExhausted \/ HandlerRaises \/ NodeTimeout
<1> USE DEF tables, environment, budgets, ladder, rundir
<1>1. CASE HeadStep
  BY <1>1 DEF HeadStep, ExceedSteps, ExceedDuration, CancelAtHead, ExitPasses, ExitRetries,
              ExitFails, SkipNode, StartNode, Finish, GoTo
<1>2. CASE SkipStep
  BY <1>2 DEF SkipStep, SkipAdvances, SkipRetries, SkipTerminates, Finish, GoTo
<1>3. CASE LadderStep
  BY <1>3 DEF LadderStep, AttemptCompletes, AttemptConsumed, AttemptsExhausted, HandlerRaises,
              BackoffElapses, NodeTimeout, LadderFrame, TryAgain
<1>4. CASE CancelAfterNode \/ RecordOutcome
  BY <1>4 DEF CancelAfterNode, RecordOutcome, Finish
<1>5. CASE RouteStep
  BY <1>5 DEF RouteStep, RouteToFanIn, NoFanIn, RouteEdge, LoopRestart, RouteRetries,
              RouteTerminates, Finish, GoTo
<1>6. CASE World \/ UNCHANGED vars
  BY <1>6 DEF World, RequestCancel, Elapse, vars
<1> QED
  BY <1>1, <1>2, <1>3, <1>4, <1>5, <1>6 DEF Next, Step

-----------------------------------------------------------------------------
(* Verdicts *)

(* An outcome in flight is one of the handler's own answers, or one that    *)
(* the ladder made up, and then it claims nothing.                         *)
MadeUp(o) == ~o.explicit /\ o.status \in {"fail", "partial_success"}

VerdictInv ==
  /\ VerdictsAreAsserted
  /\ phase = "after" => raw \in Attr(node).results \/ MadeUp(raw)

LEMMA MadeUpVerdicts ==
  MadeUp(Verdict("fail", FALSE)) /\ MadeUp(Verdict("partial_success", FALSE))
BY DEF MadeUp, Verdict

LEMMA LeftoverMadeUp ==
  ASSUME NEW o
  PROVE  Leftover(o) \in {Verdict("fail", FALSE), Verdict("partial_success", FALSE)}
BY DEF Leftover

(* No override makes an implicit outcome explicit or a skip of its own.    *)
LEMMA SettledVerdict ==
  ASSUME TypeInv, raw \in Outcome, raw \in Attr(node).results \/ MadeUp(raw)
  PROVE  /\ Settled.explicit => Settled \in Attr(node).results
         /\ Settled.status = "skipped" => \E o \in Attr(node).results : o.status = "skipped"
<1> DEFINE A == AutoStatus(node, raw)
           C == ContinueOnFail(node, A)
<1>1. A = raw \/ (~A.explicit /\ A.status = "success")
  BY DEF AutoStatus, Outcome
<1>2. A \in Outcome
  BY DEF AutoStatus, Outcome, Status
<1>3. C = A \/ (~C.explicit /\ C.status = "success")
  BY <1>2 DEF ContinueOnFail, Outcome
<1>4. C = raw \/ (~C.explicit /\ C.status = "success")
  BY <1>1, <1>3
<1>5. Settled = C \/ Settled = Verdict("fail", FALSE)
  BY DEF Settled, Backstop
<1>6. Settled = raw \/ (~Settled.explicit /\ Settled.status # "skipped")
  <2>1. ~Verdict("fail", FALSE).explicit /\ Verdict("fail", FALSE).status = "fail"
    BY DEF Verdict
  <2> HIDE DEF C
  <2> QED
    BY <1>4, <1>5, <2>1
<1> QED
  BY <1>6 DEF MadeUp

LEMMA VerdictStep == TypeInv /\ VerdictInv /\ [Next]_vars => VerdictInv'
<1> SUFFICES ASSUME TypeInv, VerdictInv, [Next]_vars PROVE VerdictInv'
  OBVIOUS
<1>1. graph' = graph /\ graph.nodes \subseteq Nodes /\ node \in graph.nodes
  BY TableSteps, GraphFacts, Counters DEF TypeInv
<1>2. ASSUME phase' = "after" PROVE raw' \in Attr(node)'.results \/ MadeUp(raw)'
  <2>1. CASE phase = "after" /\ raw' = raw
    BY <1>1, <1>2, <2>1, AfterSteps DEF VerdictInv, Attr, MadeUp
  <2>2. CASE StartNode /\ raw' = Verdict("fail", FALSE)
    BY <2>2, MadeUpVerdicts DEF MadeUp
  <2>3. CASE AttemptCompletes
    BY <1>1, <2>3 DEF AttemptCompletes, Return, Attr, LadderFrame
  <2>4. CASE AttemptsExhausted
    BY <2>4, MadeUpVerdicts, LeftoverMadeUp DEF AttemptsExhausted, Return, MadeUp
  <2>5. CASE HandlerRaises
    BY <1>2, <2>5, MadeUpVerdicts DEF HandlerRaises, Return, TryAgain, MadeUp
  <2>6. CASE NodeTimeout
    BY <2>6, MadeUpVerdicts DEF NodeTimeout, Return, MadeUp
  <2> QED
    BY <1>2, AfterSteps, <2>1, <2>2, <2>3, <2>4, <2>5, <2>6
<1>3. VerdictsAreAsserted'
  <2>1. CASE UNCHANGED tables
    BY <1>1, <2>1 DEF tables, VerdictInv, VerdictsAreAsserted, Attr
  <2>2. CASE ClearTables
    BY <1>1, <2>2, NoOutcomeApart DEF ClearTables, VerdictsAreAsserted
  <2>3. CASE SkipNode
    <3>1. ~Verdict("skipped", FALSE).explicit
      BY DEF Verdict
    <3>2. outcomes' = [outcomes EXCEPT ![node] = Verdict("skipped", FALSE)]
      BY <2>3 DEF SkipNode, Record
    <3>3. outcomes \in [Nodes -> MaybeOutcome]
      BY DEF TypeInv, TypeOK
    <3> QED
      BY <1>1, <3>1, <3>2, <3>3 DEF VerdictInv, VerdictsAreAsserted, Attr
  <2>4. CASE RecordOutcome
    <3>1. Settled.explicit => Settled \in Attr(node).results
      BY <2>4, SettledVerdict DEF RecordOutcome, VerdictInv, TypeInv
    <3>2. outcomes' = [outcomes EXCEPT ![node] = Settled]
      BY <2>4 DEF RecordOutcome, Record
    <3>3. outcomes \in [Nodes -> MaybeOutcome]
      BY DEF TypeInv, TypeOK
    <3> QED
      BY <1>1, <3>1, <3>2, <3>3 DEF VerdictInv, VerdictsAreAsserted, Attr
  <2> QED
    BY TableSteps, <2>1, <2>2, <2>3, <2>4
<1> QED
  BY <1>2, <1>3 DEF VerdictInv

LEMMA VerdictAlways == Spec => []VerdictInv
<1>1. Init => VerdictInv
  BY GraphFacts, NoOutcomeApart DEF Init, VerdictInv, VerdictsAreAsserted
<1> QED
  BY <1>1, VerdictStep, TypeAlways, PTL DEF Spec

(* An explicit verdict in the engine's table was given by the node's own    *)
(* handler: nothing in the ladder or after it asserts one.                 *)
THEOREM VerdictsAssertedCorrect == Spec => []VerdictsAreAsserted
<1>1. VerdictInv => VerdictsAreAsserted
  BY DEF VerdictInv
<1> QED
  BY <1>1, VerdictAlways, PTL

-----------------------------------------------------------------------------
(* Blame *)

(* What recording an outcome does to the two tables, whichever way the      *)
(* outcome came about.                                                     *)
LEMMA RecordTables ==
  ASSUME TypeInv, NEW o \in Outcome, Record(node, o), NEW n \in Nodes
  PROVE  outcomes'[n] = IF n = node THEN o ELSE outcomes[n]
BY DEF Record, TypeInv, TypeOK

LEMMA BlameStep == TypeInv /\ BlameIsGrounded /\ [Next]_vars => BlameIsGrounded'
<1> SUFFICES ASSUME TypeInv, BlameIsGrounded, [Next]_vars,
                    NEW k \in Keys, failed'[k] # NoNode
             PROVE  /\ failed'[k] \in graph'.nodes
                    /\ k \in graph'.attrs[failed'[k]].outputs
                    /\ outcomes'[failed'[k]] # NoOutcome
  BY DEF BlameIsGrounded, Attr
<1>1. /\ graph' = graph /\ graph.nodes \subseteq Nodes /\ node \in graph.nodes
      /\ Verdict("skipped", FALSE) \in Outcome
  BY TableSteps, GraphFacts, Counters, VerdictType DEF TypeInv, Status
<1>2. CASE failed'[k] = failed[k] /\ failed' # [j \in Keys |-> NoNode]
  <2>1. /\ failed[k] \in graph.nodes /\ k \in Attr(failed[k]).outputs
        /\ outcomes[failed[k]] # NoOutcome
    BY <1>2 DEF BlameIsGrounded
  <2>2. CASE UNCHANGED tables
    BY <1>1, <1>2, <2>1, <2>2 DEF tables, Attr
  <2>3. CASE SkipNode
    <3>1. outcomes'[failed[k]] # NoOutcome
      BY <1>1, <2>1, <2>3, RecordTables, NoOutcomeApart DEF SkipNode
    <3> QED
      BY <1>1, <1>2, <2>1, <3>1 DEF Attr
  <2>4. CASE RecordOutcome
    <3>1. Settled \in Outcome
      BY <2>4, SettledType DEF RecordOutcome, TypeInv
    <3>2. outcomes'[failed[k]] # NoOutcome
      BY <1>1, <2>1, <2>4, <3>1, RecordTables, NoOutcomeApart DEF RecordOutcome
    <3> QED
      BY <1>1, <1>2, <2>1, <3>2 DEF Attr
  <2> QED
    BY <1>2, TableSteps, <2>2, <2>3, <2>4 DEF ClearTables
<1>3. CASE failed' = Blamed(node) /\ failed'[k] # failed[k]
  <2>1. failed'[k] = node /\ k \in Attr(node).outputs
    BY <1>3 DEF Blamed
  <2>2. SkipNode \/ RecordOutcome
    BY <1>3, <2>1, TableSteps, <1>1, NodesAssumption DEF tables, ClearTables
  <2>3. outcomes'[node] # NoOutcome
    <3>1. CASE SkipNode
      BY <1>1, <3>1, RecordTables, NoOutcomeApart DEF SkipNode
    <3>2. CASE RecordOutcome
      <4>1. Settled \in Outcome
        BY <3>2, SettledType DEF RecordOutcome, TypeInv
      <4> QED
        BY <1>1, <3>2, <4>1, RecordTables, NoOutcomeApart DEF RecordOutcome
    <3> QED
      BY <2>2, <3>1, <3>2
  <2> QED
    BY <1>1, <2>1, <2>3 DEF Attr
<1>4. failed' \in {failed, Blamed(node), [j \in Keys |-> NoNode]}
  BY TableSteps DEF tables, SkipNode, RecordOutcome, ClearTables
<1> QED
  BY <1>2, <1>3, <1>4

LEMMA BlameAlways == Spec => []BlameIsGrounded
<1>1. Init => BlameIsGrounded
  BY DEF Init, BlameIsGrounded
<1> QED
  BY <1>1, BlameStep, TypeAlways, PTL DEF Spec

(* failed_outputs never outlives the outcomes it was derived from, and      *)
(* never blames a node for a key it does not declare.                      *)
THEOREM BlameGroundedCorrect == Spec => []BlameIsGrounded
BY BlameAlways

-----------------------------------------------------------------------------
(* Failed inputs *)

(* The converse of BlameIsGrounded: what failed, or was skipped, has all    *)
(* its outputs withheld.  The handler of a default node was let through     *)
(* because it asks for none of them.                                       *)
WithheldInv ==
  /\ \A m \in graph.nodes :
       outcomes[m].status = "fail" \/ SkippedByEngine(m) => Attr(m).outputs \subseteq Withheld
  /\ InHandler /\ Attr(node).runsOn = "success" => Attr(node).refs \cap Withheld = {}

LEMMA BlamedWithholds ==
  ASSUME TypeInv, failed' = Blamed(node), graph' = graph
  PROVE  Withheld \subseteq Withheld' /\ Attr(node).outputs \subseteq Withheld'
<1>1. Attr(node).outputs \subseteq Keys /\ node # NoNode
  <2>1. graph.attrs \in [graph.nodes -> NodeAttrs] /\ node \in graph.nodes
    BY GraphFacts, Counters DEF TypeInv, IsGraph
  <2> QED
    BY <2>1, GraphFacts DEF Attr, NodeAttrs, TypeInv
<1>2. failed \in [Keys -> Nodes \cup {NoNode}]
  BY DEF TypeInv, TypeOK
<1> QED
  BY <1>1, <1>2 DEF Withheld, Blamed

(* Only StartNode enters a handler, and nothing moves while it is in there. *)
LEMMA HandlerSteps ==
  ASSUME [Next]_vars, InHandler'
  PROVE  /\ node' = node /\ UNCHANGED tables
         /\ InHandler \/ StartNode
<1> USE DEF tables, environment, budgets, ladder, rundir, InHandler
<1>1. CASE HeadStep
  BY <1>1 DEF HeadStep, ExceedSteps, ExceedDuration, CancelAtHead, ExitPasses, ExitRetries,
              ExitFails, SkipNode, StartNode, Finish, GoTo
<1>2. CASE SkipStep
  BY <1>2 DEF SkipStep, SkipAdvances, SkipRetries, SkipTerminates, Finish, GoTo
<1>3. CASE LadderStep
  BY <1>3 DEF LadderStep, AttemptCompletes, AttemptConsumed, AttemptsExhausted, HandlerRaises,
              BackoffElapses, NodeTimeout, LadderFrame, Return
<1>4. CASE CancelAfterNode \/ RecordOutcome
  BY <1>4 DEF CancelAfterNode, RecordOutcome, Finish
<1>5. CASE RouteStep
  BY <1>5 DEF RouteStep, RouteToFanIn, NoFanIn, RouteEdge, LoopRestart, RouteRetries,
              RouteTerminates, Finish, GoTo
<1>6. CASE World \/ UNCHANGED vars
  BY <1>6 DEF World, RequestCancel, Elapse, vars
<1> QED
  BY <1>1, <1>2, <1>3, <1>4, <1>5, <1>6 DEF Next, Step

LEMMA WithheldStep == TypeInv /\ VerdictInv /\ WithheldInv /\ [Next]_vars => WithheldInv'
<1> SUFFICES ASSUME TypeInv, VerdictInv, WithheldInv, [Next]_vars PROVE WithheldInv'
  OBVIOUS
<1>1. /\ graph' = graph /\ graph.nodes \subseteq Nodes /\ node \in graph.nodes
      /\ Verdict("skipped", FALSE) \in Outcome
  BY TableSteps, GraphFacts, Counters, VerdictType DEF TypeInv, Status
<1>2. ASSUME NEW m \in graph.nodes, outcomes'[m].status = "fail" \/ SkippedByEngine(m)'
      PROVE  Attr(m)'.outputs \subseteq Withheld'
  <2>1. CASE UNCHANGED tables
    BY <1>1, <1>2, <2>1 DEF tables, WithheldInv, SkippedByEngine, Attr, Withheld
  <2>2. CASE ClearTables
    BY <1>1, <1>2, <2>2, NoOutcomeApart DEF ClearTables, SkippedByEngine
  <2>3. CASE SkipNode
    <3>1. outcomes'[m] = IF m = node THEN Verdict("skipped", FALSE) ELSE outcomes[m]
      BY <1>1, <2>3, RecordTables DEF SkipNode
    <3>2. failed' = Blamed(node)
      BY <2>3 DEF SkipNode
    <3> QED
      BY <1>1, <1>2, <3>1, <3>2, BlamedWithholds DEF WithheldInv, SkippedByEngine, Attr
  <2>4. CASE RecordOutcome
    <3>1. Settled \in Outcome
      BY <2>4, SettledType DEF RecordOutcome, TypeInv
    <3>2. outcomes'[m] = IF m = node THEN Settled ELSE outcomes[m]
      BY <1>1, <2>4, <3>1, RecordTables DEF RecordOutcome
    <3>3. Settled.status = "skipped" => \E o \in Attr(node).results : o.status = "skipped"
      BY <2>4, SettledVerdict DEF RecordOutcome, VerdictInv, TypeInv
    <3>4. Withheld \subseteq Withheld'
      BY <1>1, <2>4, BlamedWithholds DEF RecordOutcome, Withheld
    <3>5. m = node => Settled.status = "fail"
      BY <1>1, <1>2, <3>2, <3>3 DEF SkippedByEngine, Attr
    <3>6. m = node => failed' = Blamed(node)
      BY <2>4, <3>5 DEF RecordOutcome
    <3> QED
      BY <1>1, <1>2, <3>2, <3>4, <3>6, BlamedWithholds DEF WithheldInv, SkippedByEngine, Attr
  <2> QED
    BY TableSteps, <2>1, <2>2, <2>3, <2>4
<1>3. ASSUME InHandler', Attr(node)'.runsOn = "success"
      PROVE  Attr(node)'.refs \cap Withheld' = {}
  <2>1. node' = node /\ UNCHANGED tables
    BY <1>3, HandlerSteps
  <2>2. Attr(node)' = Attr(node) /\ Withheld' = Withheld
    BY <1>1, <2>1 DEF Attr, Withheld, tables
  <2>3. CASE InHandler
    BY <1>3, <2>2, <2>3 DEF WithheldInv
  <2>4. CASE StartNode
    BY <1>3, <2>2, <2>4 DEF StartNode, MustSkip
  <2> QED
    BY <1>3, HandlerSteps, <2>3, <2>4
<1> QED
  BY <1>1, <1>2, <1>3 DEF WithheldInv

LEMMA WithheldAlways == Spec => []WithheldInv
<1>1. Init => WithheldInv
  BY GraphFacts, NoOutcomeApart DEF Init, WithheldInv, SkippedByEngine, InHandler
<1> QED
  BY <1>1, WithheldStep, TypeAlways, VerdictAlways, PTL DEF Spec

(* A default node's handler never runs on an input that a failed or an      *)
(* engine-skipped node was to produce.                                     *)
THEOREM FailedInputsWithheld == Spec => []NoHandlerSeesFailedInput
<1>1. WithheldInv => NoHandlerSeesFailedInput
  BY DEF WithheldInv, NoHandlerSeesFailedInput
<1> QED
  BY <1>1, WithheldAlways, PTL

-----------------------------------------------------------------------------
(* Success *)

(* Until run() returns there is no result; after it nothing moves.         *)
ResultInv ==
  /\ phase # "done" => result = Running
  /\ SuccessMeansGatesHeld

LEMMA FinishFails ==
  ASSUME NEW why, Finish("fail", why)
  PROVE  phase' = "done" /\ result'.status = "fail"
BY DEF Finish

LEMMA ResultSteps ==
  ASSUME [Next]_vars, phase # "done"
  PROVE  \/ phase' # "done" /\ result' = result
         \/ ExitPasses
         \/ phase' = "done" /\ result'.status = "fail"
<1> USE DEF tables, environment, budgets, ladder, rundir
<1>1. CASE HeadStep
  BY <1>1, FinishFails DEF HeadStep, ExceedSteps, ExceedDuration, CancelAtHead, ExitRetries,
              ExitFails, SkipNode, StartNode, GoTo
<1>2. CASE SkipStep
  BY <1>2, FinishFails DEF SkipStep, SkipAdvances, SkipRetries, SkipTerminates, GoTo
<1>3. CASE LadderStep
  BY <1>3 DEF LadderStep, AttemptCompletes, AttemptConsumed, AttemptsExhausted, HandlerRaises,
              BackoffElapses, NodeTimeout, LadderFrame, Return, TryAgain
<1>4. CASE CancelAfterNode \/ RecordOutcome
  BY <1>4, FinishFails DEF CancelAfterNode, RecordOutcome
<1>5. CASE RouteStep
  BY <1>5, FinishFails DEF RouteStep, RouteToFanIn, NoFanIn, RouteEdge, LoopRestart, RouteRetries,
              RouteTerminates, GoTo
<1>6. CASE World \/ UNCHANGED vars
  BY <1>6 DEF World, RequestCancel, Elapse, vars
<1> QED
  BY <1>1, <1>2, <1>3, <1>4, <1>5, <1>6 DEF Next, Step

LEMMA DoneSteps ==
  ASSUME [Next]_vars, phase = "done"
  PROVE  UNCHANGED vars
BY DEF Next, Step, HeadStep, ExceedSteps, ExceedDuration, CancelAtHead, ExitPasses, ExitRetries,
       ExitFails, SkipNode, StartNode, AtExit, Proceed, Tick, SkipStep, SkipAdvances,
       SkipRetries, SkipTerminates, LadderStep, AttemptCompletes, AttemptConsumed,
       AttemptsExhausted, HandlerRaises, BackoffElapses, NodeTimeout, CancelAfterNode,
       RecordOutcome, RouteStep, RouteToFanIn, NoFanIn, RouteEdge, LoopRestart, RouteRetries,
       RouteTerminates, World, RequestCancel, Elapse

LEMMA ExitHoldsGates ==
  ASSUME TypeInv, VerdictInv, ExitPasses, IsSuccess(result')
  PROVE  SuccessMeansGatesHeld'
<1>1. /\ Attr(node).exit /\ result' = [status |-> GateResult.status, why |-> "exit"]
      /\ UNCHANGED <<graph, node, tables>>
  BY DEF ExitPasses, AtExit, Finish
<1>2. GateResult.status \in SuccessStatus
  BY <1>1 DEF IsSuccess
<1>3. ASSUME Unheld # {} PROVE FALSE
  <2>1. GateResult.status = "fail"
    BY <1>3 DEF GateResult, Suggesting, Verdict
  <2> QED
    BY <1>2, <2>1 DEF SuccessStatus
<1>4. \A n \in Gates : IsSuccess(outcomes[n]) /\ outcomes[n] \in Attr(n).results
  BY <1>3 DEF Unheld, GateHeld, Gates, VerdictInv, VerdictsAreAsserted
<1> QED
  BY <1>1, <1>4 DEF SuccessMeansGatesHeld, Gates, Attr, tables, IsSuccess

LEMMA ResultStep == TypeInv /\ VerdictInv /\ ResultInv /\ [Next]_vars => ResultInv'
<1> SUFFICES ASSUME TypeInv, VerdictInv, ResultInv, [Next]_vars PROVE ResultInv'
  OBVIOUS
<1>1. CASE phase = "done"
  <2>1. UNCHANGED <<graph, phase, node, outcomes, result>>
    BY <1>1, DoneSteps DEF vars, tables
  <2> QED
    BY <1>1, <2>1 DEF ResultInv, SuccessMeansGatesHeld, Gates, Attr, IsSuccess
<1>2. CASE phase # "done" /\ ExitPasses
  <2>1. phase' = "done"
    BY <1>2 DEF ExitPasses, Finish
  <2>2. CASE IsSuccess(result')
    BY <1>2, <2>1, <2>2, ExitHoldsGates DEF ResultInv
  <2>3. CASE ~IsSuccess(result')
    BY <2>1, <2>3 DEF ResultInv, SuccessMeansGatesHeld, IsSuccess
  <2> QED
    BY <2>2, <2>3
<1>3. CASE phase # "done" /\ phase' # "done" /\ result' = result
  BY <1>3 DEF ResultInv, SuccessMeansGatesHeld, IsSuccess, SuccessStatus, Running
<1>4. CASE phase # "done" /\ phase' = "done" /\ result'.status = "fail"
  BY <1>4 DEF ResultInv, SuccessMeansGatesHeld, IsSuccess, SuccessStatus
<1> QED
  BY <1>1, <1>2, <1>3, <1>4, ResultSteps

LEMMA ResultAlways == Spec => []ResultInv
<1>1. Init => ResultInv
  <2>1. Init => result = Running
    BY DEF Init
  <2>2. result = Running => ResultInv
    BY DEF ResultInv, SuccessMeansGatesHeld, IsSuccess, SuccessStatus, Running
  <2> QED
    BY <2>1, <2>2
<1> QED
  BY <1>1, ResultStep, TypeAlways, VerdictAlways, PTL DEF Spec

(* A run reports success only from the exit node, with every gate in the    *)
(* table passed by its own handler.                                        *)
THEOREM SuccessGuaranteesGates == Spec => []SuccessMeansGatesHeld
<1>1. ResultInv => SuccessMeansGatesHeld
  BY DEF ResultInv
<1> QED
  BY <1>1, ResultAlways, PTL

-----------------------------------------------------------------------------
(* Labels *)

LEMMA LabelSteps ==
  ASSUME [Next]_vars
  PROVE  \/ UNCHANGED <<ctx, iteration, trace>>
         \/ SkipNode \/ RecordOutcome \/ LoopRestart
<1> USE DEF tables, environment, budgets, ladder, rundir
<1>1. CASE HeadStep
  BY <1>1 DEF HeadStep, ExceedSteps, ExceedDuration, CancelAtHead, ExitPasses, ExitRetries,
              ExitFails, SkipNode, StartNode, Finish
<1>2. CASE SkipStep
  BY <1>2 DEF SkipStep, SkipAdvances, SkipRetries, SkipTerminates, Finish
<1>3. CASE LadderStep
  BY <1>3 DEF LadderStep, AttemptCompletes, AttemptConsumed, AttemptsExhausted, HandlerRaises,
              BackoffElapses, NodeTimeout, LadderFrame
<1>4. CASE CancelAfterNode \/ RecordOutcome
  BY <1>4 DEF CancelAfterNode, Finish
<1>5. CASE RouteStep
  BY <1>5 DEF RouteStep, RouteToFanIn, NoFanIn, RouteEdge, LoopRestart, RouteRetries,
              RouteTerminates, Finish
<1>6. CASE World \/ UNCHANGED vars
  BY <1>6 DEF World, RequestCancel, Elapse, vars
<1> QED
  BY <1>1, <1>2, <1>3, <1>4, <1>5, <1>6 DEF Next, Step

LEMMA LabelStep == TypeInv /\ LabelFromThisIteration /\ [Next]_vars => LabelFromThisIteration'
<1> SUFFICES ASSUME TypeInv, LabelFromThisIteration, [Next]_vars, ctx'.label # ""
             PROVE  \E t \in trace' : t.iteration = iteration' /\ t.label = ctx'.label
  BY DEF LabelFromThisIteration
<1>1. CASE UNCHANGED <<ctx, iteration, trace>>
  BY <1>1 DEF LabelFromThisIteration
<1>2. CASE SkipNode
  <2>1. UNCHANGED <<ctx, iteration>> /\ trace \subseteq trace'
    BY <1>2 DEF SkipNode, Record, WriteStatus
  <2> QED
    BY <2>1 DEF LabelFromThisIteration
<1>3. CASE RecordOutcome /\ Settled.label = ""
  <2>1. ctx'.label = ctx.label /\ UNCHANGED <<iteration, trace>>
    BY <1>3 DEF RecordOutcome, Record, WriteStatus
  <2> QED
    BY <2>1 DEF LabelFromThisIteration
<1>4. CASE RecordOutcome /\ Settled.label # ""
  <2> DEFINE t == [iteration |-> iteration, node |-> node, label |-> Settled.label]
  <2>1. t \in trace' /\ iteration' = iteration /\ ctx'.label = Settled.label
    BY <1>4 DEF RecordOutcome, Record, WriteStatus
  <2> QED
    BY <2>1
<1>5. CASE LoopRestart
  <2>1. ctx' = FreshCtx /\ ctx \in [outcome: Status \cup {""}, label: Labels]
    BY <1>5 DEF LoopRestart, TypeInv, TypeOK
  <2> QED
    BY <2>1 DEF FreshCtx
<1> QED
  BY <1>1, <1>2, <1>3, <1>4, <1>5, LabelSteps

(* The label that conditions read from the context is never one that a      *)
(* node gave before the last loop_restart.                                 *)
THEOREM LabelsAreFresh == Spec => []LabelFromThisIteration
<1>1. Init => LabelFromThisIteration
  <2>1. Init => ctx = [outcome |-> "", label |-> ""]
    BY DEF Init
  <2>2. ASSUME NEW r, r = [outcome |-> "", label |-> ""] PROVE r.label = ""
    BY <2>2
  <2> QED
    BY <2>1, <2>2 DEF LabelFromThisIteration
<1> QED
  BY <1>1, LabelStep, TypeAlways, PTL DEF Spec

-----------------------------------------------------------------------------
(* The artifact contract *)

(* A node with must_write= enters the table as a success only in a step     *)
(* that finds its artifact fresh.                                          *)
THEOREM ContractEnforced == Spec => ArtifactContract
<1>1. ASSUME TypeInv, [Next]_vars, NEW n \in graph.nodes,
             Attr(n).mustWrite, outcomes'[n] # outcomes[n], IsSuccess(outcomes'[n])
      PROVE  artifact
  <2>1. n \in Nodes /\ Verdict("skipped", FALSE) \in Outcome
    BY <1>1, GraphFacts, VerdictType DEF TypeInv, Status
  <2>2. CASE UNCHANGED tables
    BY <1>1, <2>2 DEF tables
  <2>3. CASE ClearTables
    BY <1>1, <2>1, <2>3, NoOutcomeApart DEF ClearTables, IsSuccess, SuccessStatus
  <2>4. CASE SkipNode
    <3>1. outcomes'[n] = IF n = node THEN Verdict("skipped", FALSE) ELSE outcomes[n]
      BY <1>1, <2>1, <2>4, RecordTables DEF SkipNode
    <3>2. outcomes'[n] = Verdict("skipped", FALSE)
      BY <1>1, <3>1
    <3>3. Verdict("skipped", FALSE).status = "skipped"
      BY DEF Verdict
    <3> QED
      BY <1>1, <3>2, <3>3 DEF IsSuccess, SuccessStatus
  <2>5. CASE RecordOutcome
    <3>1. Settled \in Outcome
      BY <1>1, <2>5, SettledType DEF RecordOutcome, TypeInv
    <3>2. outcomes'[n] = IF n = node THEN Settled ELSE outcomes[n]
      BY <1>1, <2>1, <2>5, <3>1, RecordTables DEF RecordOutcome
    <3>3. n = node /\ IsSuccess(Settled)
      BY <1>1, <3>2
    <3>4. Verdict("fail", FALSE).status = "fail"
      BY DEF Verdict
    <3> QED
      BY <1>1, <3>3, <3>4 DEF Settled, Backstop, ContractBroken, IsSuccess, SuccessStatus
  <2> QED
    BY <1>1, TableSteps, <2>2, <2>3, <2>4, <2>5
<1>2. TypeInv /\ [Next]_vars =>
        [\A n \in graph.nodes :
           Attr(n).mustWrite /\ outcomes'[n] # outcomes[n] /\ IsSuccess(outcomes'[n])
             => artifact]_vars
  BY <1>1
<1> QED
  BY <1>2, TypeAlways, PTL DEF Spec, ArtifactContract

-----------------------------------------------------------------------------
(* Boundedness *)

(* Every pass of the main loop counts a step before it does anything, so    *)
(* whatever happens at most once per pass is bounded by the step budget.    *)
(* A pass that has counted its step but not yet restarted, or not yet       *)
(* recorded its node, has one in hand.                                      *)
MidPass == {"attempt", "backoff", "after", "route", "skipped"}

BoundInv ==
  /\ RunBounded
  /\ phase # "done" =>
       /\ steps <= MaxSteps
       /\ iteration <= steps /\ Len(completed) <= steps
       /\ \A n \in Nodes : execCount[n] <= steps
  /\ phase \in MidPass => iteration < steps
  /\ phase \in {"attempt", "backoff", "after"} => Len(completed) < steps

(* Leaving the loop keeps everything that is bounded, but for the step      *)
(* just counted.                                                           *)
LEMMA FinishBounded ==
  ASSUME TypeInv, BoundInv, phase # "done", NEW st, NEW why, Finish(st, why),
         steps' \in {steps, steps + 1}
  PROVE  BoundInv'
<1>1. /\ phase' = "done" /\ graph' = graph /\ iteration' = iteration
      /\ completed' = completed /\ execCount' = execCount
  BY DEF Finish, tables
<1>2. /\ steps \in Nat /\ steps <= MaxSteps /\ MaxSteps \in Nat /\ MaxSteps' = MaxSteps
  BY <1>1, Counters, GraphFacts DEF BoundInv, MaxSteps, TypeInv
<1>3. steps' <= MaxSteps + 1
  BY <1>2
<1> QED
  BY <1>1, <1>2, <1>3 DEF BoundInv, RunBounded, MidPass

(* What a step does to the counters, if it does not end the run.           *)
Steady == UNCHANGED <<steps, iteration, completed, execCount>>

LEMMA BoundSteps ==
  ASSUME [Next]_vars, phase # "done"
  PROVE  \/ \E st, why : Finish(st, why) /\ steps' \in {steps, steps + 1}
         \/ ExitRetries \/ SkipNode \/ StartNode
         \/ Steady /\ phase' \in {"top", phase}
         \/ Steady /\ phase \in {"attempt", "backoff"} /\ phase' \in {"attempt", "backoff", "after"}
         \/ RecordOutcome \/ LoopRestart \/ RouteRetries
<1> USE DEF tables, environment, budgets, ladder, rundir
<1>1. CASE HeadStep
  <2>1. CASE ExceedSteps \/ ExceedDuration \/ CancelAtHead \/ ExitPasses \/ ExitFails
    BY <2>1 DEF ExceedSteps, ExceedDuration, CancelAtHead, ExitPasses, ExitFails,
                AtExit, Proceed, Tick
  <2> QED
    BY <1>1, <2>1 DEF HeadStep
<1>2. CASE SkipStep
  BY <1>2 DEF SkipStep, SkipAdvances, SkipRetries, SkipTerminates, GoTo, Steady
<1>3. CASE LadderStep
  BY <1>3 DEF LadderStep, AttemptCompletes, AttemptConsumed, AttemptsExhausted, HandlerRaises,
              BackoffElapses, NodeTimeout, LadderFrame, Return, TryAgain, Steady
<1>4. CASE CancelAfterNode \/ RecordOutcome
  BY <1>4 DEF CancelAfterNode
<1>5. CASE RouteStep
  BY <1>5 DEF RouteStep, RouteToFanIn, NoFanIn, RouteEdge, RouteTerminates, GoTo, Steady
<1>6. CASE World \/ UNCHANGED vars
  BY <1>6 DEF World, RequestCancel, Elapse, vars, Steady
<1> QED
  BY <1>1, <1>2, <1>3, <1>4, <1>5, <1>6 DEF Next, Step

LEMMA BoundStep == TypeInv /\ BoundInv /\ [Next]_vars => BoundInv'
<1> SUFFICES ASSUME TypeInv, BoundInv, [Next]_vars PROVE BoundInv'
  OBVIOUS
<1>1. /\ steps \in Nat /\ iteration \in Nat /\ MaxSteps \in Nat
      /\ execCount \in [Nodes -> Nat] /\ Len(completed) \in Nat
      /\ completed \in Seq(graph.nodes) /\ node \in Nodes /\ node \in graph.nodes
  BY Counters, GraphFacts, LenProperties DEF TypeInv
<1>2. MaxSteps' = MaxSteps
  BY TableSteps DEF MaxSteps
<1>3. ASSUME Steady, phase # "done", phase' # "done",
             phase' \in MidPass => phase \in MidPass,
             phase' \in {"attempt", "backoff", "after"} => phase \in {"attempt", "backoff", "after"}
      PROVE  BoundInv'
  BY <1>2, <1>3 DEF BoundInv, RunBounded, Steady, MidPass
(* Recording appends one entry to completed.                               *)
<1>4. ASSUME NEW o, Record(node, o) PROVE Len(completed') = Len(completed) + 1
  BY <1>1, <1>4, AppendProperties DEF Record
<1>5. ASSUME ClearTables PROVE Len(completed') = 0
  BY <1>5, EmptySeq DEF ClearTables
<1>6. CASE phase = "done"
  <2>1. UNCHANGED <<graph, phase, steps, iteration, completed, execCount>>
    BY <1>6, DoneSteps DEF vars, tables, budgets
  <2> QED
    BY <1>2, <1>6, <2>1 DEF BoundInv, RunBounded, MidPass
<1>7. CASE phase # "done" /\ \E st, why : Finish(st, why) /\ steps' \in {steps, steps + 1}
  BY <1>7, FinishBounded
<1>8. CASE phase # "done" /\ ExitRetries
  <2>1. /\ phase' = "top" /\ steps' = steps + 1 /\ steps < MaxSteps
        /\ iteration' = iteration /\ execCount' = execCount /\ Len(completed') = 0
    BY <1>8, <1>5 DEF ExitRetries, AtExit, Proceed, Tick, GoTo
  <2> QED
    BY <1>1, <1>2, <1>8, <2>1 DEF BoundInv, RunBounded, MidPass
<1>9. CASE phase # "done" /\ SkipNode
  <2>1. /\ phase' = "skipped" /\ steps' = steps + 1 /\ steps < MaxSteps
        /\ iteration' = iteration /\ execCount' = execCount
        /\ Len(completed') = Len(completed) + 1
    BY <1>9, <1>4 DEF SkipNode, Proceed, Tick
  <2> QED
    BY <1>1, <1>2, <1>9, <2>1 DEF BoundInv, RunBounded, MidPass
<1>10. CASE phase # "done" /\ StartNode
  <2>1. /\ phase' \in {"attempt", "after"} /\ steps' = steps + 1 /\ steps < MaxSteps
        /\ iteration' = iteration /\ completed' = completed
    BY <1>10 DEF StartNode, Proceed, Tick, tables
  <2>2. \A n \in Nodes : execCount'[n] <= execCount[n] + 1
    BY <1>1, <1>10 DEF StartNode
  <2>3. \A n \in Nodes : execCount'[n] \in Nat
    BY <1>1, <1>10 DEF StartNode
  <2>4. \A n \in Nodes : execCount'[n] <= steps'
    BY <1>1, <1>10, <2>1, <2>2, <2>3 DEF BoundInv
  <2> QED
    BY <1>1, <1>2, <1>10, <2>1, <2>3, <2>4 DEF BoundInv, RunBounded, MidPass
<1>11. CASE phase # "done" /\ Steady /\ phase' \in {"top", phase}
  BY <1>3, <1>11 DEF MidPass
<1>12. CASE /\ phase # "done" /\ Steady /\ phase \in {"attempt", "backoff"}
            /\ phase' \in {"attempt", "backoff", "after"}
  BY <1>3, <1>12 DEF MidPass
<1>13. CASE RecordOutcome
  <2>1. /\ phase = "after" /\ phase' = "route" /\ UNCHANGED <<steps, iteration, execCount>>
        /\ Len(completed') = Len(completed) + 1
    BY <1>4, <1>13 DEF RecordOutcome, budgets
  <2> QED
    BY <1>1, <1>2, <2>1 DEF BoundInv, RunBounded, MidPass
<1>14. CASE LoopRestart
  <2>1. /\ phase = "route" /\ phase' = "top" /\ UNCHANGED <<steps, execCount>>
        /\ iteration' = iteration + 1 /\ Len(completed') = 0
    BY <1>5, <1>14 DEF LoopRestart, GoTo
  <2> QED
    BY <1>1, <1>2, <2>1 DEF BoundInv, RunBounded, MidPass
<1>15. CASE RouteRetries
  <2>1. /\ phase = "route" /\ phase' = "top" /\ UNCHANGED <<steps, iteration, execCount>>
        /\ Len(completed') = 0
    BY <1>5, <1>15 DEF RouteRetries, GoTo
  <2> QED
    BY <1>1, <1>2, <2>1 DEF BoundInv, RunBounded, MidPass
<1> QED
  BY <1>6, <1>7, <1>8, <1>9, <1>10, <1>11, <1>12, <1>13, <1>14, <1>15, BoundSteps

(* A run of the engine is finite work: MaxSteps bounds the passes of the    *)
(* loop, the restarts, the length of completed_nodes and how often any one  *)
(* node is executed.                                                       *)
THEOREM RunIsBounded == Spec => []RunBounded
<1>1. Init => BoundInv
  <2> SUFFICES ASSUME Init PROVE BoundInv
    OBVIOUS
  <2>1. /\ phase = "top" /\ steps = 0 /\ iteration = 0 /\ Len(completed) = 0
        /\ graph \in Graphs
    BY EmptySeq DEF Init
  <2>2. \A n \in Nodes : execCount[n] = 0
    BY DEF Init
  <2>3. MaxSteps \in Nat
    BY <2>1, GraphFacts
  <2> QED
    BY <2>1, <2>2, <2>3 DEF BoundInv, RunBounded, MidPass
<1>2. BoundInv => RunBounded
  BY DEF BoundInv
<1> QED
  BY <1>1, <1>2, BoundStep, TypeAlways, PTL DEF Spec

-----------------------------------------------------------------------------
(* The engine and GraphWalk read the same graph *)

(* What the graph says is the same on both sides.                          *)
LEMMA SameGraph ==
  /\ \A n : Walk!Of(n) = Attr(n)
  /\ Walk!Ways = Outgoing(graph, node)
  /\ Walk!Blank = [n \in Nodes |-> NoOutcome]
  /\ Walk!Outcome = Outcome /\ Walk!Verdict("skipped", FALSE) = Verdict("skipped", FALSE)
  /\ Walk!NoOutcome = NoOutcome
  /\ \A g, n : Walk!FailureRetryTarget(g, n) = FailureRetryTarget(g, n)
  /\ \A g, n : Walk!GateRetryTarget(g, n) = GateRetryTarget(g, n)
  /\ \A o : Walk!IsSuccess(o) <=> IsSuccess(o)
<1>1. /\ \A n : Walk!Of(n) = Attr(n)
      /\ Walk!Ways = Outgoing(graph, node)
  BY DEF Walk!Of, Attr, Walk!Ways, Outgoing
<1>2. Walk!NoOutcome = NoOutcome
  BY DEF Walk!NoOutcome, NoOutcome
<1>3. Walk!Blank = [n \in Nodes |-> NoOutcome]
  BY <1>2 DEF Walk!Blank
<1>4. Walk!Outcome = Outcome /\ Walk!Verdict("skipped", FALSE) = Verdict("skipped", FALSE)
  BY DEF Walk!Outcome, Outcome, Walk!Status, Status, Walk!Verdict, Verdict
<1>5. /\ \A g, n : Walk!FailureRetryTarget(g, n) = FailureRetryTarget(g, n)
      /\ \A g, n : Walk!GateRetryTarget(g, n) = GateRetryTarget(g, n)
  BY DEF Walk!FailureRetryTarget, FailureRetryTarget, Walk!GateRetryTarget, GateRetryTarget,
         Walk!FirstOf, FirstOf
<1>6. \A o : Walk!IsSuccess(o) <=> IsSuccess(o)
  BY DEF Walk!IsSuccess, IsSuccess, Walk!SuccessStatus, SuccessStatus
<1> QED
  BY <1>1, <1>2, <1>3, <1>4, <1>5, <1>6

LEMMA SameMeetings ==
  ASSUME NEW g, NEW roots
  PROVE  Walk!FanInNodes(g, roots) = FanInNodes(g, roots)
<1>1. \A S : Walk!Beyond(g, S) = Beyond(g, S)
  BY Zenon DEF Walk!Beyond, Beyond, Walk!Outgoing, Outgoing
<1>2. ASSUME NEW r PROVE Walk!Within(g, r) = Within(g, r)
  BY Zenon DEF Walk!Within, Within, Walk!Beyond, Beyond, Walk!Outgoing, Outgoing
<1>3. \A d : Walk!CommonWithin(g, roots, d) = CommonWithin(g, roots, d)
  BY <1>2 DEF Walk!CommonWithin, CommonWithin
<1>5. Walk!Cardinality(g.nodes) = Cardinality(g.nodes)
  BY Zenon DEF Walk!Cardinality, Cardinality
<1>4. ASSUME NEW n PROVE n \in Walk!FanInNodes(g, roots) <=> n \in FanInNodes(g, roots)
  <2>1. n \in Walk!FanInNodes(g, roots) <=>
          /\ n \in g.nodes
          /\ \E d \in 0 .. Cardinality(g.nodes) :
               /\ n \in Walk!CommonWithin(g, roots, d)
               /\ \A c \in 0 .. Cardinality(g.nodes) : c < d => Walk!CommonWithin(g, roots, c) = {}
    BY <1>5, Zenon DEF Walk!FanInNodes
  <2>2. n \in FanInNodes(g, roots) <=>
          /\ n \in g.nodes
          /\ \E d \in 0 .. Cardinality(g.nodes) :
               /\ n \in CommonWithin(g, roots, d)
               /\ \A c \in 0 .. Cardinality(g.nodes) : c < d => CommonWithin(g, roots, c) = {}
    BY Zenon DEF FanInNodes
  <2> QED
    BY <1>3, <2>1, <2>2, Zenon
<1> QED
  BY <1>4, SetExtensionality

-----------------------------------------------------------------------------
(* The walk *)

(* A node in the hands of its handler is one that runs, and the order of    *)
(* first completion lists just the nodes the table remembers.              *)
WalkInv ==
  /\ phase \in {"attempt", "backoff", "after"} => ~Attr(node).exit /\ ~MustSkip(node)
  /\ \A n \in graph.nodes :
       outcomes[n] # NoOutcome => \E i \in 1 .. Len(completed) : completed[i] = n
  /\ \A i \in 1 .. Len(completed) : outcomes[completed[i]] # NoOutcome

(* Only StartNode begins a node, and nothing moves until it is recorded.   *)
LEMMA RunningSteps ==
  ASSUME [Next]_vars, phase' \in {"attempt", "backoff", "after"}
  PROVE  /\ node' = node /\ UNCHANGED tables
         /\ phase \in {"attempt", "backoff", "after"} \/ StartNode
<1> USE DEF tables, environment, budgets, ladder, rundir
<1>1. CASE HeadStep
  BY <1>1 DEF HeadStep, ExceedSteps, ExceedDuration, CancelAtHead, ExitPasses, ExitRetries,
              ExitFails, SkipNode, StartNode, Finish, GoTo
<1>2. CASE SkipStep
  BY <1>2 DEF SkipStep, SkipAdvances, SkipRetries, SkipTerminates, Finish, GoTo
<1>3. CASE LadderStep
  BY <1>3 DEF LadderStep, AttemptCompletes, AttemptConsumed, AttemptsExhausted, HandlerRaises,
              BackoffElapses, NodeTimeout, LadderFrame
<1>4. CASE CancelAfterNode \/ RecordOutcome
  BY <1>4 DEF CancelAfterNode, RecordOutcome, Finish
<1>5. CASE RouteStep
  BY <1>5 DEF RouteStep, RouteToFanIn, NoFanIn, RouteEdge, LoopRestart, RouteRetries,
              RouteTerminates, Finish, GoTo
<1>6. CASE World \/ UNCHANGED vars
  BY <1>6 DEF World, RequestCancel, Elapse, vars
<1> QED
  BY <1>1, <1>2, <1>3, <1>4, <1>5, <1>6 DEF Next, Step

(* Recording a node keeps the order and the table in step.                 *)
LEMMA RecordListed ==
  ASSUME TypeInv, WalkInv, NEW o \in Outcome, Record(node, o), graph' = graph
  PROVE  /\ \A n \in graph.nodes :
              outcomes'[n] # NoOutcome => \E i \in 1 .. Len(completed') : completed'[i] = n
         /\ \A i \in 1 .. Len(completed') : outcomes'[completed'[i]] # NoOutcome
<1>1. /\ completed \in Seq(graph.nodes) /\ node \in graph.nodes /\ graph.nodes \subseteq Nodes
      /\ Len(completed) \in Nat
  BY Counters, GraphFacts, LenProperties DEF TypeInv
<1>2. /\ Len(completed') = Len(completed) + 1
      /\ \A i \in 1 .. Len(completed) : completed'[i] = completed[i]
      /\ completed'[Len(completed) + 1] = node
  BY <1>1, AppendProperties DEF Record
<1>3. \A i \in 1 .. Len(completed) : completed[i] \in graph.nodes
  BY <1>1, ElementOfSeq
<1>4. \A n \in graph.nodes : outcomes'[n] = IF n = node THEN o ELSE outcomes[n]
  BY <1>1, RecordTables
<1>5. o # NoOutcome
  BY NoOutcomeApart
<1>6. ASSUME NEW n \in graph.nodes, outcomes'[n] # NoOutcome
      PROVE  \E i \in 1 .. Len(completed') : completed'[i] = n
  <2>1. CASE n = node
    BY <1>1, <1>2, <2>1
  <2>2. CASE n # node
    <3>1. PICK i \in 1 .. Len(completed) : completed[i] = n
      BY <1>4, <1>6, <2>2 DEF WalkInv
    <3>2. i \in 1 .. Len(completed') /\ completed'[i] = n
      BY <1>1, <1>2, <3>1
    <3> QED
      BY <3>2
  <2> QED
    BY <2>1, <2>2
<1>7. ASSUME NEW i \in 1 .. Len(completed') PROVE outcomes'[completed'[i]] # NoOutcome
  <2>1. CASE i \in 1 .. Len(completed)
    BY <1>2, <1>3, <1>4, <1>5, <2>1 DEF WalkInv
  <2>2. CASE i = Len(completed) + 1
    BY <1>1, <1>2, <1>4, <1>5, <2>2
  <2> QED
    BY <1>1, <1>2, <1>7, <2>1, <2>2
<1> QED
  BY <1>6, <1>7

LEMMA WalkStep == TypeInv /\ WalkInv /\ [Next]_vars => WalkInv'
<1> SUFFICES ASSUME TypeInv, WalkInv, [Next]_vars PROVE WalkInv'
  OBVIOUS
<1>1. graph' = graph /\ graph.nodes \subseteq Nodes
  BY TableSteps, GraphFacts DEF TypeInv
<1>2. ASSUME phase' \in {"attempt", "backoff", "after"}
      PROVE  ~Attr(node)'.exit /\ ~MustSkip(node)'
  <2>1. node' = node /\ UNCHANGED tables
    BY <1>2, RunningSteps
  <2>2. Attr(node)' = Attr(node) /\ (MustSkip(node)' <=> MustSkip(node))
    BY <1>1, <2>1 DEF Attr, MustSkip, Withheld, tables
  <2>3. ~Attr(node).exit /\ ~MustSkip(node)
    BY <1>2, RunningSteps DEF WalkInv, StartNode
  <2> QED
    BY <2>2, <2>3
<1>3. /\ \A n \in graph'.nodes :
            outcomes'[n] # NoOutcome => \E i \in 1 .. Len(completed') : completed'[i] = n
      /\ \A i \in 1 .. Len(completed') : outcomes'[completed'[i]] # NoOutcome
  <2>1. CASE UNCHANGED tables
    BY <1>1, <2>1 DEF tables, WalkInv
  <2>2. CASE ClearTables
    <3>1. Len(completed') = 0
      BY <2>2, EmptySeq DEF ClearTables
    <3> QED
      BY <1>1, <2>2, <3>1 DEF ClearTables
  <2>3. CASE SkipNode
    <3>1. Verdict("skipped", FALSE) \in Outcome
      BY VerdictType DEF Status
    <3> QED
      BY <1>1, <2>3, <3>1, RecordListed DEF SkipNode
  <2>4. CASE RecordOutcome
    <3>1. Settled \in Outcome
      BY <2>4, SettledType DEF RecordOutcome, TypeInv
    <3> QED
      BY <1>1, <2>4, <3>1, RecordListed DEF RecordOutcome
  <2> QED
    BY TableSteps, <2>1, <2>2, <2>3, <2>4
<1> QED
  BY <1>1, <1>2, <1>3 DEF WalkInv

LEMMA WalkAlways == Spec => []WalkInv
<1>1. Init => WalkInv
  <2> SUFFICES ASSUME Init PROVE WalkInv
    OBVIOUS
  <2>1. /\ Len(completed) = 0 /\ phase = "top" /\ graph.nodes \subseteq Nodes
        /\ \A n \in Nodes : outcomes[n] = NoOutcome
    BY EmptySeq, GraphFacts DEF Init
  <2> QED
    BY <2>1 DEF WalkInv
<1> QED
  BY <1>1, WalkStep, TypeAlways, PTL DEF Spec

-----------------------------------------------------------------------------
(* The gate the exit sends the run back for *)

LEMMA LeastOf ==
  ASSUME NEW I, I \subseteq Nat, I # {}
  PROVE  \E x \in I : \A y \in I : x <= y
<1> DEFINE less == OpToRel(<, Nat)
<1>1. less = {ss \in Nat \X Nat : ss[1] < ss[2]}
  BY Zenon DEF OpToRel
<1>2. \E x \in I : \A y \in I : ~(<<y, x>> \in less)
  BY NatLessThanWellFounded, WFMin
<1> HIDE DEF less
<1>3. PICK x \in I : \A y \in I : ~(<<y, x>> \in less)
  BY <1>2
<1>4. ASSUME NEW y \in I PROVE x <= y
  <2>1. x \in Nat /\ y \in Nat
    OBVIOUS
  <2>2. y < x => <<y, x>> \in less
    BY <1>1, <2>1
  <2> QED
    BY <1>3, <2>1, <2>2
<1> QED
  BY <1>4

LEMMA FirstAtIs ==
  ASSUME TypeInv, NEW n, \E i \in 1 .. Len(completed) : completed[i] = n
  PROVE  FirstAt(n) \in Nat
<1> DEFINE I == {i \in 1 .. Len(completed) : completed[i] = n}
<1>1. Len(completed) \in Nat /\ DOMAIN completed = 1 .. Len(completed)
  BY Counters, LenProperties
<1>2. PICK x \in I : \A y \in I : x <= y
  <2>1. I \subseteq Nat /\ I # {}
    BY <1>1
  <2> HIDE DEF I
  <2> QED
    BY <2>1, LeastOf
<1>3. /\ x \in DOMAIN completed /\ completed[x] = n
      /\ \A j \in 1 .. x - 1 : completed[j] # n
  BY <1>1, <1>2
<1>4. FirstAt(n) \in DOMAIN completed
  BY <1>3, Zenon DEF FirstAt
<1> QED
  BY <1>1, <1>4

LEMMA FirstUnheldIs ==
  ASSUME TypeInv, WalkInv, Unheld # {}
  PROVE  FirstUnheld \in Unheld
<1> DEFINE I == {FirstAt(n) : n \in Unheld}
<1>1. ASSUME NEW n \in Unheld PROVE FirstAt(n) \in Nat
  BY FirstAtIs DEF Unheld, Gates, WalkInv
<1>2. PICK x \in I : \A y \in I : x <= y
  <2>1. I \subseteq Nat /\ I # {}
    BY <1>1
  <2> HIDE DEF I
  <2> QED
    BY <2>1, LeastOf
<1>3. PICK n \in Unheld : x = FirstAt(n)
  BY <1>2
<1>4. \A m \in Unheld : FirstAt(n) <= FirstAt(m)
  BY <1>2, <1>3
<1> QED
  BY <1>3, <1>4, Zenon DEF FirstUnheld

-----------------------------------------------------------------------------
(* Each step is one of the walk's *)

Inv ==
  TypeInv /\ VerdictInv /\ BlameIsGrounded /\ WithheldInv /\ ResultInv /\ WalkInv

(* A node that runs is called, one that is skipped is excused.             *)
LEMMA Calls ==
  ASSUME Inv, ~MustSkip(node)
  PROVE  Walk!Called
<1>1. ASSUME Attr(node).runsOn = "success", NEW m \in graph.nodes, Walk!Bad(m)
      PROVE  Attr(m).outputs \cap Attr(node).refs = {}
  <2>1. outcomes[m].status = "fail" \/ SkippedByEngine(m)
    BY <1>1, SameGraph DEF Walk!Bad, SkippedByEngine
  <2>2. Attr(m).outputs \subseteq Withheld
    BY <2>1 DEF Inv, WithheldInv
  <2> QED
    BY <1>1, <2>2 DEF MustSkip
<1>2. ASSUME Attr(node).runsOn = "failure"
      PROVE  \E m \in graph.nodes : Walk!Seen(m) /\ Attr(m).outputs # {}
  <2>1. PICK k \in Keys : failed[k] # NoNode
    BY <1>2 DEF MustSkip, Withheld
  <2> QED
    BY <2>1, SameGraph DEF Inv, BlameIsGrounded, Walk!Seen
<1> QED
  BY <1>1, <1>2, SameGraph DEF Walk!Called

LEMMA Excuses ==
  ASSUME Inv, MustSkip(node)
  PROVE  Walk!Excused
<1>1. CASE Attr(node).runsOn = "failure" /\ Withheld = {}
  <2>1. ASSUME NEW m \in graph.nodes, Walk!Bad(m) PROVE Attr(m).outputs = {}
    <3>1. outcomes[m].status = "fail" \/ SkippedByEngine(m)
      BY <2>1, SameGraph DEF Walk!Bad, SkippedByEngine
    <3> QED
      BY <1>1, <3>1 DEF Inv, WithheldInv
  <2> QED
    BY <1>1, <2>1, SameGraph DEF Walk!Excused
<1>2. CASE Attr(node).runsOn = "success" /\ Attr(node).refs \cap Withheld # {}
  <2>1. PICK k \in Attr(node).refs : k \in Keys /\ failed[k] # NoNode
    BY <1>2 DEF Withheld
  <2>2. /\ failed[k] \in graph.nodes /\ k \in Attr(failed[k]).outputs
        /\ outcomes[failed[k]] # NoOutcome
    BY <2>1 DEF Inv, BlameIsGrounded
  <2> QED
    BY <1>2, <2>1, <2>2, SameGraph DEF Walk!Excused, Walk!Seen
<1> QED
  BY <1>1, <1>2 DEF MustSkip

LEMMA Decides ==
  ASSUME Inv, RecordOutcome
  PROVE  Walk!Decide
<1>1. /\ node \in Nodes /\ outcomes \in [Nodes -> MaybeOutcome]
      /\ phase = "after" /\ phase' = "route" /\ Record(node, Settled)
      /\ UNCHANGED <<graph, node, gateRetries, routeRetries, result>>
  BY Counters, GraphFacts DEF Inv, TypeInv, TypeOK, RecordOutcome, budgets
<1>2. Settled \in Outcome
  BY <1>1, SettledType DEF Inv, TypeInv
<1>3. Settled.explicit => Settled \in Attr(node).results
  BY <1>1, SettledVerdict DEF Inv, VerdictInv, TypeInv
<1>4. outcomes'[node] = Settled
  BY <1>1, <1>2, RecordTables DEF Inv
<1>5. outcomes' = [outcomes EXCEPT ![node] = outcomes'[node]]
  BY <1>1, <1>4 DEF Record
<1>6. ~Attr(node).exit /\ Walk!Called
  BY <1>1, Calls DEF Inv, WalkInv
<1>7. Standing = "open" /\ Standing' = "decided"
  BY <1>1 DEF Standing
<1> QED
  BY <1>1, <1>2, <1>3, <1>4, <1>5, <1>6, <1>7, SameGraph DEF Walk!Decide, Walk!Enter

LEMMA Skips ==
  ASSUME Inv, SkipNode
  PROVE  Walk!Skip
<1>1. /\ phase = "top" /\ phase' = "skipped" /\ ~Attr(node).exit /\ MustSkip(node)
      /\ outcomes' = [outcomes EXCEPT ![node] = Verdict("skipped", FALSE)]
      /\ UNCHANGED <<graph, node, gateRetries, routeRetries, result>>
  BY DEF SkipNode, Proceed, Tick, Record
<1>2. Standing = "open" /\ Standing' = "skipped"
  BY <1>1 DEF Standing
<1> QED
  BY <1>1, <1>2, Excuses, SameGraph DEF Walk!Skip, Walk!Enter

(* An edge that select_edge may return after a failure is conditional, was  *)
(* asked for, or leads to a node that runs then.                           *)
LEMMA ChosenLeads ==
  ASSUME NEW e \in Chosen
  PROVE  e \in Outgoing(graph, node) /\ Walk!Leads(e)
<1> DEFINE o == outcomes[node]
<1>1. e \in Outgoing(graph, node)
  BY SelectEdgeOutgoing DEF Chosen
<1>2. \/ e \in ConditionMatched(graph, node, o, ctx)
      \/ e \in LabelMatched(graph, node, o)
      \/ e \in SuggestionMatched(graph, node, o)
      \/ e \in DefaultEdges(graph, node, o)
  BY DEF Chosen, SelectEdge, Best, Earliest
<1>3. CASE e \in ConditionMatched(graph, node, o, ctx)
  BY <1>1, <1>3 DEF ConditionMatched, Walk!Leads
<1>4. CASE e \in LabelMatched(graph, node, o)
  BY <1>1, <1>4 DEF LabelMatched, Walk!Leads
<1>5. CASE e \in SuggestionMatched(graph, node, o)
  <2>1. DOMAIN o.suggest # {}
    BY <1>5, Zenon DEF SuggestionMatched
  <2>2. DOMAIN <<>> = {}
    BY EmptySeq
  <2>3. o.suggest # <<>>
    BY <2>1, <2>2
  <2> QED
    BY <1>1, <2>3 DEF Walk!Leads
<1>6. CASE e \in DefaultEdges(graph, node, o)
  BY <1>1, <1>6, SameGraph DEF DefaultEdges, OptsIn, Attr, Walk!Leads
<1> QED
  BY <1>2, <1>3, <1>4, <1>5, <1>6

LEMMA Follows ==
  ASSUME RouteEdge \/ LoopRestart
  PROVE  Walk!Follow
<1>1. phase = "route" /\ phase' = "top" /\ UNCHANGED <<graph, result>>
  BY DEF RouteEdge, LoopRestart, GoTo
<1>2. Standing = "decided" /\ Standing' = "open"
  BY <1>1 DEF Standing
<1>3. CASE RouteEdge
  <2>1. PICK e \in Chosen : ~e.restart /\ node' = e.to
    BY <1>3 DEF RouteEdge, GoTo
  <2>2. UNCHANGED <<outcomes, gateRetries, routeRetries>>
    BY <1>3 DEF RouteEdge, tables, budgets
  <2> QED
    BY <1>1, <1>2, <2>1, <2>2, ChosenLeads, SameGraph DEF Walk!Follow, Walk!Leave, Walk!Remember
<1>4. CASE LoopRestart
  <2>1. PICK e \in Chosen : e.restart /\ node' = e.to
    BY <1>4 DEF LoopRestart, GoTo
  <2>2. outcomes' = [n \in Nodes |-> NoOutcome] /\ gateRetries' = 0 /\ routeRetries' = 0
    BY <1>4 DEF LoopRestart, ClearTables
  <2> QED
    BY <1>1, <1>2, <2>1, <2>2, ChosenLeads, SameGraph DEF Walk!Follow, Walk!Leave, Walk!Forget
<1> QED
  BY <1>3, <1>4

LEMMA Passes ==
  ASSUME SkipAdvances
  PROVE  Walk!PassBy
<1>1. PICK e \in SkipEdges : phase' = "top" /\ node' = e.to
  BY DEF SkipAdvances, GoTo
<1>2. e \in Outgoing(graph, node)
  BY SelectEdgeOutgoing DEF SkipEdges, Best, Unconditional
<1>3. /\ Standing = "skipped" /\ Standing' = "open"
      /\ UNCHANGED <<graph, outcomes, gateRetries, routeRetries, result>>
  BY <1>1 DEF SkipAdvances, Standing, tables, budgets
<1> QED
  BY <1>1, <1>2, <1>3, SameGraph DEF Walk!PassBy, Walk!Leave, Walk!Remember

LEMMA Meets ==
  ASSUME RouteToFanIn
  PROVE  Walk!Meet
<1>1. PICK n \in MeetingPoints : phase' = "top" /\ node' = n
  BY DEF RouteToFanIn, GoTo
<1>2. /\ Standing = "decided" /\ Standing' = "open" /\ Attr(node).component
      /\ UNCHANGED <<graph, outcomes, gateRetries, routeRetries, result>>
  BY <1>1 DEF RouteToFanIn, FansOut, Standing, tables, budgets
<1>3. MeetingPoints = Walk!FanInNodes(graph, {e.to : e \in Walk!Ways})
  BY SameGraph, SameMeetings DEF MeetingPoints, BranchRoots
<1> QED
  BY <1>1, <1>2, <1>3, SameGraph DEF Walk!Meet, Walk!Leave, Walk!Remember

LEMMA RetriesRoute ==
  ASSUME Inv, SkipRetries \/ RouteRetries
  PROVE  Walk!RetryRoute
<1> DEFINE target == FailureRetryTarget(graph, node)
<1>1. /\ target # NoNode /\ routeRetries < MaxGateRetries /\ routeRetries' = routeRetries + 1
      /\ phase' = "top" /\ node' = target
      /\ UNCHANGED <<graph, gateRetries, result>>
  BY DEF SkipRetries, RouteRetries, MayRetryRoute, GoTo
<1>2. \/ Standing = "skipped" /\ UNCHANGED outcomes
      \/ Standing = "decided" /\ outcomes' = [n \in Nodes |-> NoOutcome]
  BY DEF SkipRetries, RouteRetries, ClearTables, tables, Standing
<1>3. Standing' = "open"
  BY <1>1 DEF Standing
<1>4. target = Walk!FailureRetryTarget(graph, node)
  BY SameGraph
<1> QED
  BY <1>1, <1>2, <1>3, <1>4, SameGraph DEF Walk!RetryRoute, Walk!Leave, Walk!Forget

(* Whom the exit goes back for: the first gate that is not held, or else    *)
(* the node that failed last.                                              *)
LEMMA RetriesGate ==
  ASSUME Inv, ExitRetries
  PROVE  Walk!RetryGate
<1> DEFINE n == GateResult.suggest[1]
<1>1. /\ phase = "top" /\ phase' = "top" /\ Attr(node).exit
      /\ GateResult.status = "fail" /\ GateResult.suggest # <<>> /\ n \in graph.nodes
      /\ gateRetries < MaxGateRetries /\ gateRetries' = gateRetries + 1 /\ node' = n
      /\ outcomes' = [m \in Nodes |-> NoOutcome]
      /\ UNCHANGED <<graph, routeRetries, result>>
  BY DEF ExitRetries, AtExit, Proceed, Tick, MayRetryGates, GoTo, ClearTables
<1>2. Standing = "open" /\ Standing' = "open"
  BY <1>1 DEF Standing
<1>3. Walk!Unpassed = Unheld
  BY SameGraph DEF Walk!Unpassed, Walk!Seen, Unheld, Gates, GateHeld
<1>4. \/ \E g \in Unheld : n = GateRetryTarget(graph, g)
      \/ /\ Unheld = {}
         /\ \E m \in graph.nodes : /\ outcomes[m].status = "fail" /\ outcomes[m].suggest # <<>>
                                     /\ n = outcomes[m].suggest[1]
  <2>1. CASE Unheld # {}
    <3> DEFINE t == GateRetryTarget(graph, FirstUnheld)
    <3>1. GateResult = Suggesting(t)
      BY <2>1 DEF GateResult
    <3>2. Suggesting(t).suggest = IF t = NoNode THEN <<>> ELSE <<t>>
      BY Zenon DEF Suggesting, Verdict
    <3>3. n = t
      BY <1>1, <3>1, <3>2
    <3>4. FirstUnheld \in Unheld
      BY <2>1, FirstUnheldIs DEF Inv
    <3> QED
      BY <3>3, <3>4
  <2>2. CASE Unheld = {} /\ completed # <<>>
    <3>1. Len(completed) \in 1 .. Len(completed) /\ completed \in Seq(graph.nodes)
      BY <2>2, Counters, EmptySeq, LenProperties DEF Inv
    <3>2. completed[Len(completed)] \in graph.nodes
      BY <3>1, ElementOfSeq
    <3>3. GateResult = outcomes[completed[Len(completed)]]
      BY <2>2 DEF GateResult
    <3> QED
      BY <1>1, <2>2, <3>2, <3>3
  <2>3. CASE Unheld = {} /\ completed = <<>>
    <3>1. GateResult.status = "success"
      BY <2>3 DEF GateResult, Verdict
    <3> QED
      BY <1>1, <3>1
  <2> QED
    BY <2>1, <2>2, <2>3
<1> QED
  BY <1>1, <1>2, <1>3, <1>4, SameGraph DEF Walk!RetryGate, Walk!Leave, Walk!Forget

(* However the run ends, it ends once; with success as ExitHoldsGates says. *)
LEMMA Ends ==
  ASSUME Inv, phase # "done", NEW st, NEW why, Finish(st, why), st # "none",
         st \in SuccessStatus => ExitPasses
  PROVE  Walk!End
<1>1. /\ phase' = "done" /\ result'.status = st
      /\ UNCHANGED <<graph, node, outcomes, gateRetries, routeRetries>>
  BY DEF Finish, tables
<1>2. Standing # "over" /\ Standing' = "over"
  BY <1>1 DEF Standing
<1>3. ASSUME st \in SuccessStatus
      PROVE  /\ Standing = "open" /\ Attr(node).exit
             /\ \A n \in graph.nodes : Attr(n).gate /\ outcomes[n] # NoOutcome =>
                  IsSuccess(outcomes[n]) /\ outcomes[n] \in Attr(n).results
  <2>1. phase = "top" /\ Attr(node).exit /\ graph' = graph
    BY <1>1, <1>3 DEF ExitPasses, AtExit, Proceed, Tick
  <2>2. SuccessMeansGatesHeld'
    BY <1>1, <1>3, ExitHoldsGates DEF Inv, IsSuccess
  <2>3. \A n \in Gates' : IsSuccess(outcomes'[n]) /\ outcomes'[n] \in Attr(n)'.results
    BY <1>1, <1>3, <2>2 DEF SuccessMeansGatesHeld, IsSuccess
  <2> QED
    BY <1>1, <2>1, <2>3 DEF Gates, Attr, Standing
<1>4. Walk!IsSuccess([status |-> result'.status]) <=> st \in SuccessStatus
  BY <1>1, SameGraph DEF IsSuccess
<1> QED
  BY <1>1, <1>2, <1>3, <1>4, SameGraph DEF Walk!End, Walk!Passed, Walk!Seen

(* What the exit reports is some outcome's status.                         *)
LEMMA GateResultIs ==
  ASSUME TypeInv, WalkInv
  PROVE  GateResult.status \in Status
<1>1. CASE Unheld # {}
  BY <1>1 DEF GateResult, Suggesting, Verdict, Status
<1>2. CASE Unheld = {} /\ completed # <<>>
  <2> DEFINE last == completed[Len(completed)]
  <2>1. Len(completed) \in 1 .. Len(completed) /\ completed \in Seq(graph.nodes)
    BY <1>2, Counters, EmptySeq, LenProperties
  <2>2. last \in Nodes /\ outcomes[last] # NoOutcome
    BY <2>1, ElementOfSeq, GraphFacts DEF TypeInv, WalkInv
  <2>3. outcomes[last] \in Outcome
    BY <2>2 DEF TypeInv, TypeOK, MaybeOutcome
  <2>4. GateResult = outcomes[last]
    BY <1>2 DEF GateResult
  <2> QED
    BY <2>3, <2>4, OutcomeStatus
<1>3. CASE Unheld = {} /\ completed = <<>>
  BY <1>3 DEF GateResult, Verdict, Status
<1> QED
  BY <1>1, <1>2, <1>3

(* A step that the walk does not see.                                      *)
LEMMA Quiet ==
  ASSUME UNCHANGED <<graph, node, outcomes, gateRetries, routeRetries, result>>,
         \/ phase' = phase
         \/ /\ phase \in {"top", "attempt", "backoff", "after"}
            /\ phase' \in {"top", "attempt", "backoff", "after"}
  PROVE  UNCHANGED Walk!walk
BY DEF Walk!walk, Standing

LEMMA WalkMoves == Inv /\ [Next]_vars => [Walk!WalkNext]_(Walk!walk)
<1> SUFFICES ASSUME Inv, [Next]_vars PROVE Walk!WalkNext \/ UNCHANGED Walk!walk
  OBVIOUS
<1> USE DEF tables, budgets, ladder, rundir, environment
<1>1. "fail" # "none" /\ ~("fail" \in SuccessStatus) /\ ~("none" \in Status)
  BY DEF SuccessStatus, Status
<1>2. ASSUME ExceedSteps \/ ExceedDuration \/ CancelAtHead \/ ExitFails PROVE Walk!End
  <2>1. phase # "done" /\ \E why : Finish("fail", why)
    BY <1>2 DEF ExceedSteps, ExceedDuration, CancelAtHead, ExitFails, AtExit, Proceed, Tick
  <2> QED
    BY <1>1, <2>1, Ends
<1>3. ASSUME ExitPasses PROVE Walk!End
  <2>1. phase # "done" /\ Finish(GateResult.status, "exit")
    BY <1>3 DEF ExitPasses, AtExit, Proceed, Tick
  <2> QED
    BY <1>1, <1>3, <2>1, Ends, GateResultIs DEF Inv
<1>4. CASE HeadStep
  <2>1. CASE StartNode
    <3>1. /\ UNCHANGED <<graph, node, outcomes, gateRetries, routeRetries, result>>
          /\ phase = "top" /\ phase' \in {"attempt", "after"}
      BY <2>1 DEF StartNode, Proceed, Tick
    <3> QED
      BY <3>1, Quiet
  <2>2. CASE ExitRetries
    BY <2>2, RetriesGate DEF Walk!WalkNext
  <2>3. CASE SkipNode
    BY <2>3, Skips DEF Walk!WalkNext
  <2> QED
    BY <1>2, <1>3, <1>4, <2>1, <2>2, <2>3 DEF HeadStep, Walk!WalkNext
<1>5. CASE SkipStep
  <2>1. CASE SkipTerminates
    <3>1. phase # "done" /\ Finish("fail", "dead_end")
      BY <2>1 DEF SkipTerminates
    <3> QED
      BY <1>1, <3>1, Ends DEF Walk!WalkNext
  <2> QED
    BY <1>5, <2>1, Passes, RetriesRoute DEF SkipStep, Walk!WalkNext
<1>6. CASE LadderStep
  <2>1. /\ UNCHANGED <<graph, node, outcomes, gateRetries, routeRetries, result>>
        /\ phase \in {"attempt", "backoff"} /\ phase' \in {"attempt", "backoff", "after"}
    BY <1>6 DEF LadderStep, AttemptCompletes, AttemptConsumed, AttemptsExhausted, HandlerRaises,
                BackoffElapses, NodeTimeout, LadderFrame, Return, TryAgain
  <2> QED
    BY <2>1, Quiet
<1>7. CASE CancelAfterNode
  <2>1. phase # "done" /\ Finish("fail", "cancelled")
    BY <1>7 DEF CancelAfterNode
  <2> QED
    BY <1>1, <2>1, Ends DEF Walk!WalkNext
<1>8. CASE RecordOutcome
  BY <1>8, Decides DEF Walk!WalkNext
<1>9. CASE RouteStep
  <2>1. CASE NoFanIn \/ RouteTerminates
    <3>1. phase # "done" /\ \E why : Finish("fail", why)
      BY <2>1 DEF NoFanIn, RouteTerminates
    <3> QED
      BY <1>1, <3>1, Ends DEF Walk!WalkNext
  <2> QED
    BY <1>9, <2>1, Meets, Follows, RetriesRoute DEF RouteStep, Walk!WalkNext
<1>10. CASE World \/ UNCHANGED vars
  <2>1. UNCHANGED <<graph, phase, node, outcomes, gateRetries, routeRetries, result>>
    BY <1>10 DEF World, RequestCancel, Elapse, vars
  <2> QED
    BY <2>1, Quiet
<1> QED
  BY <1>4, <1>5, <1>6, <1>7, <1>8, <1>9, <1>10 DEF Next, Step

LEMMA WalkStarts == Init => Walk!WalkInit
<1> SUFFICES ASSUME Init PROVE Walk!WalkInit
  OBVIOUS
<1>1. /\ graph \in Graphs /\ node = graph.start /\ phase = "top" /\ result = Running
      /\ outcomes = [n \in Nodes |-> NoOutcome] /\ gateRetries = 0 /\ routeRetries = 0
  BY DEF Init
<1>2. result.status = "none" /\ Standing = "open"
  BY <1>1 DEF Running, Standing
<1> QED
  BY <1>1, <1>2, SameGraph DEF Walk!WalkInit

(* Under cancellation, timeouts, retries, overrides, skips and restarts,    *)
(* PipelineEngine.run walks the graph as GraphWalk says.                   *)
THEOREM WalkHolds == Spec => WalkKept
<1>1. Spec => []Inv
  BY TypeAlways, VerdictAlways, BlameAlways, WithheldAlways, ResultAlways, WalkAlways, PTL DEF Inv
<1> QED
  BY <1>1, WalkStarts, WalkMoves, PTL DEF Spec, WalkKept, Walk!WalkSpec

-----------------------------------------------------------------------------
(* Routing *)

(* Whatever the ties, the weights decide: some edge of a set is not beaten, *)
(* because beating an edge takes one that is itself beaten by fewer.       *)
LEMMA BestExists ==
  ASSUME NEW S, S \subseteq Edge, IsFiniteSet(S), S # {}
  PROVE  Best(S) # {}
<1> DEFINE Over(e) == {f \in S : Beats(f, e)}
           I == {Cardinality(Over(e)) : e \in S}
<1>1. ASSUME NEW e \in S
      PROVE  IsFiniteSet(Over(e)) /\ Cardinality(Over(e)) \in Nat
  BY FS_Subset, FS_CardinalityType
<1>2. \E x \in I : \A y \in I : x <= y
  <2>1. I \subseteq Nat /\ I # {}
    BY <1>1
  <2> HIDE DEF I
  <2> QED
    BY <2>1, LeastOf
<1>3. PICK e \in S : \A g \in S : Cardinality(Over(e)) <= Cardinality(Over(g))
  BY <1>2
<1>4. ASSUME NEW g \in S, Beats(g, e) PROVE FALSE
  <2>1. \A f \in S : /\ f.weight \in Int /\ Rank[f.to] \in Nat /\ f.pos \in Nat
    BY RankAssumption DEF Edge
  <2>2. ~Beats(g, g)
    BY <2>1 DEF Beats
  <2>3. ASSUME NEW f \in S, Beats(f, g) PROVE Beats(f, e)
    BY <1>4, <2>1, <2>3 DEF Beats
  <2>4. g \in Over(e) /\ Over(g) \subseteq Over(e) \ {g}
    BY <1>4, <2>2, <2>3
  <2> HIDE DEF Over
  <2>5. /\ IsFiniteSet(Over(e) \ {g})
        /\ Cardinality(Over(e) \ {g}) = Cardinality(Over(e)) - 1
    BY <1>1, <2>4, FS_RemoveElement
  <2>6. Cardinality(Over(g)) <= Cardinality(Over(e)) - 1
    BY <2>4, <2>5, FS_Subset
  <2> QED
    BY <1>1, <1>3, <2>6
<1>5. e \in Best(S)
  BY <1>4 DEF Best
<1> QED
  BY <1>5

LEMMA EarliestExists ==
  ASSUME NEW S, S \subseteq Edge, S # {}
  PROVE  Earliest(S) # {}
<1> DEFINE I == {e.pos : e \in S}
<1>1. \E x \in I : \A y \in I : x <= y
  <2>1. I \subseteq Nat /\ I # {}
    BY DEF Edge
  <2> HIDE DEF I
  <2> QED
    BY <2>1, LeastOf
<1>2. PICK e \in S : \A f \in S : e.pos <= f.pos
  BY <1>1
<1> QED
  BY <1>2 DEF Earliest

LEMMA EdgeFacts ==
  ASSUME NEW g \in Graphs, NEW n
  PROVE  /\ Outgoing(g, n) \subseteq g.edges /\ g.edges \subseteq Edge
         /\ IsFiniteSet(Outgoing(g, n))
         /\ \A e, f \in g.edges : e.pos = f.pos => e = f
<1>1. IsGraph(g)
  BY GraphsAssumption
<1>2. Outgoing(g, n) \subseteq g.edges
  BY DEF Outgoing
<1> QED
  BY <1>1, <1>2, FS_Subset DEF IsGraph

LEMMA OneBest ==
  ASSUME NEW g \in Graphs, NEW S, S \subseteq g.edges, NEW e \in Best(S), NEW f \in Best(S)
  PROVE  e = f
<1>1. /\ S \subseteq Edge /\ (e.pos = f.pos => e = f)
      /\ e \in S /\ f \in S /\ ~Beats(e, f) /\ ~Beats(f, e)
  BY EdgeFacts DEF Best
<1>2. /\ e.weight \in Int /\ e.to \in Nodes /\ e.pos \in Nat
      /\ f.weight \in Int /\ f.to \in Nodes /\ f.pos \in Nat
  BY <1>1 DEF Edge
<1>3. Rank[e.to] \in Nat /\ Rank[f.to] \in Nat /\ (Rank[e.to] = Rank[f.to] => e.to = f.to)
  BY <1>2, RankAssumption
<1>4. e.weight = f.weight /\ e.to = f.to
  BY <1>1, <1>2, <1>3 DEF Beats
<1> QED
  BY <1>1, <1>2, <1>4 DEF Beats

LEMMA OneEarliest ==
  ASSUME NEW g \in Graphs, NEW S, S \subseteq g.edges, NEW e \in Earliest(S), NEW f \in Earliest(S)
  PROVE  e = f
<1>1. S \subseteq Edge /\ (e.pos = f.pos => e = f) /\ e \in S /\ f \in S
  BY EdgeFacts DEF Earliest
<1>2. e.pos \in Nat /\ f.pos \in Nat /\ e.pos <= f.pos /\ f.pos <= e.pos
  BY <1>1 DEF Edge, Earliest
<1> QED
  BY <1>1, <1>2

LEMMA Candidates ==
  ASSUME NEW g \in Graphs, NEW n, NEW o, NEW context
  PROVE  /\ ConditionMatched(g, n, o, context) \subseteq Outgoing(g, n)
         /\ LabelMatched(g, n, o) \subseteq Outgoing(g, n)
         /\ SuggestionMatched(g, n, o) \subseteq Outgoing(g, n)
         /\ DefaultEdges(g, n, o) \subseteq Outgoing(g, n)
         /\ Unconditional(g, n) \subseteq Outgoing(g, n)
BY DEF ConditionMatched, LabelMatched, SuggestionMatched, DefaultEdges, Unconditional

LEMMA SelectsOne ==
  ASSUME NEW g \in Graphs, NEW n, NEW o, NEW context,
         NEW e \in SelectEdge(g, n, o, context), NEW f \in SelectEdge(g, n, o, context)
  PROVE  e = f
<1>1. Outgoing(g, n) \subseteq g.edges
  BY EdgeFacts
<1>2. \E S : S \subseteq g.edges /\ \/ e \in Best(S) /\ f \in Best(S)
                                    \/ e \in Earliest(S) /\ f \in Earliest(S)
  BY <1>1, Candidates DEF SelectEdge
<1> QED
  BY <1>2, OneBest, OneEarliest

(* select_edge returns None only when no condition holds and no plain edge  *)
(* may be followed.                                                        *)
LEMMA SelectsSome ==
  ASSUME NEW g \in Graphs, NEW n, NEW o, NEW context, SelectEdge(g, n, o, context) = {}
  PROVE  /\ \A e \in Outgoing(g, n) : e.cond # {} => ~ConditionHolds(e, o, context)
         /\ \A e \in Unconditional(g, n) : o.status = "fail" /\ ~OptsIn(g, e.to)
<1> DEFINE C == ConditionMatched(g, n, o, context)
           D == DefaultEdges(g, n, o)
<1>1. /\ C \subseteq Edge /\ IsFiniteSet(C) /\ D \subseteq Edge /\ IsFiniteSet(D)
      /\ LabelMatched(g, n, o) \subseteq Edge /\ SuggestionMatched(g, n, o) \subseteq Edge
  BY EdgeFacts, Candidates, FS_Subset
<1>2. C = {} /\ D = {}
  BY <1>1, BestExists, EarliestExists, Zenon DEF SelectEdge
<1> QED
  BY <1>2 DEF ConditionMatched, DefaultEdges, Unconditional

(* Whatever ties, select_edge has one edge to return, on either path.       *)
THEOREM RoutingIsDetermined == Spec => []OneWayOn
<1>1. TypeInv => OneWayOn
  <2> SUFFICES ASSUME TypeInv PROVE OneWayOn
    OBVIOUS
  <2>1. graph \in Graphs /\ Unconditional(graph, node) \subseteq graph.edges
    BY EdgeFacts, Candidates DEF TypeInv
  <2>2. ASSUME NEW e \in SkipEdges, NEW f \in SkipEdges PROVE e = f
    BY <2>1, SelectsOne, OneBest DEF SkipEdges
  <2>3. ASSUME NEW e \in Chosen, NEW f \in Chosen PROVE e = f
    BY <2>1, SelectsOne DEF Chosen
  <2> QED
    BY <2>2, <2>3 DEF OneWayOn
<1> QED
  BY <1>1, TypeAlways, PTL

LEMMA FinishWhy ==
  ASSUME NEW st, NEW why, Finish(st, why)
  PROVE  result'.why = why
BY DEF Finish

(* How a run comes to give up for want of an edge.                         *)
LEMMA GivingUpSteps ==
  ASSUME [Next]_vars, phase # "done", result = Running, result'.why = "dead_end"
  PROVE  SkipTerminates \/ RouteTerminates
<1> USE DEF tables, environment, budgets, ladder, rundir
<1>0. Running.why # "dead_end"
  BY DEF Running
<1>1. CASE HeadStep
  BY <1>0, <1>1, FinishWhy DEF HeadStep, ExceedSteps, ExceedDuration, CancelAtHead, ExitPasses,
              ExitRetries, ExitFails, SkipNode, StartNode
<1>2. CASE SkipStep
  BY <1>0, <1>2 DEF SkipStep, SkipAdvances, SkipRetries
<1>3. CASE LadderStep
  BY <1>0, <1>3 DEF LadderStep, AttemptCompletes, AttemptConsumed, AttemptsExhausted, HandlerRaises,
              BackoffElapses, NodeTimeout, LadderFrame
<1>4. CASE CancelAfterNode \/ RecordOutcome
  BY <1>0, <1>4, FinishWhy DEF CancelAfterNode, RecordOutcome
<1>5. CASE RouteStep
  BY <1>0, <1>5, FinishWhy DEF RouteStep, RouteToFanIn, NoFanIn, RouteEdge, LoopRestart, RouteRetries
<1>6. CASE World \/ UNCHANGED vars
  BY <1>0, <1>6 DEF World, RequestCancel, Elapse, vars
<1> QED
  BY <1>1, <1>2, <1>3, <1>4, <1>5, <1>6 DEF Next, Step

DeadEndInv ==
  /\ DeadEndsAreReal
  /\ phase = "skipped" => outcomes[node].status = "skipped"

LEMMA SkippedSteps ==
  ASSUME [Next]_vars, phase' = "skipped"
  PROVE  SkipNode \/ (phase = "skipped" /\ UNCHANGED <<node, outcomes>>)
<1> USE DEF tables, environment, budgets, ladder, rundir
<1>1. CASE HeadStep
  BY <1>1 DEF HeadStep, ExceedSteps, ExceedDuration, CancelAtHead, ExitPasses, ExitRetries,
              ExitFails, SkipNode, StartNode, Finish, GoTo
<1>2. CASE SkipStep
  BY <1>2 DEF SkipStep, SkipAdvances, SkipRetries, SkipTerminates, Finish, GoTo
<1>3. CASE LadderStep
  BY <1>3 DEF LadderStep, AttemptCompletes, AttemptConsumed, AttemptsExhausted, HandlerRaises,
              BackoffElapses, NodeTimeout, LadderFrame, Return, TryAgain
<1>4. CASE CancelAfterNode \/ RecordOutcome
  BY <1>4 DEF CancelAfterNode, RecordOutcome, Finish
<1>5. CASE RouteStep
  BY <1>5 DEF RouteStep, RouteToFanIn, NoFanIn, RouteEdge, LoopRestart, RouteRetries,
              RouteTerminates, Finish, GoTo
<1>6. CASE World \/ UNCHANGED vars
  BY <1>6 DEF World, RequestCancel, Elapse, vars
<1> QED
  BY <1>1, <1>2, <1>3, <1>4, <1>5, <1>6 DEF Next, Step

LEMMA GivesUpRightly ==
  ASSUME TypeInv, DeadEndInv, SkipTerminates \/ RouteTerminates
  PROVE  /\ ~MayRetryRoute
         /\ \E o \in {outcomes[node], Verdict("fail", FALSE)} :
              /\ o = outcomes[node] \/ outcomes[node].status = "skipped"
              /\ \A e \in Outgoing(graph, node) : e.cond # {} => ~ConditionHolds(e, o, ctx)
         /\ \A e \in Unconditional(graph, node) :
              outcomes[node].status = "fail" /\ ~OptsIn(graph, e.to)
<1>1. graph \in Graphs
  BY DEF TypeInv
<1>2. CASE RouteTerminates
  <2>1. ~MayRetryRoute /\ SelectEdge(graph, node, outcomes[node], ctx) = {}
    BY <1>2 DEF RouteTerminates, Chosen
  <2> QED
    BY <1>1, <2>1, SelectsSome
<1>3. CASE SkipTerminates
  <2> DEFINE o == Verdict("fail", FALSE)
             U == Unconditional(graph, node)
  <2>1. ~MayRetryRoute /\ SkipEdges = {} /\ outcomes[node].status = "skipped"
    BY <1>3 DEF SkipTerminates, DeadEndInv
  <2>2. SelectEdge(graph, node, o, ctx) = {} /\ Best(U) = {}
    BY <2>1 DEF SkipEdges
  <2>3. U \subseteq Edge /\ IsFiniteSet(U)
    BY <1>1, EdgeFacts, Candidates, FS_Subset
  <2>4. U = {}
    BY <2>2, <2>3, BestExists
  <2>5. \A e \in Outgoing(graph, node) : e.cond # {} => ~ConditionHolds(e, o, ctx)
    BY <1>1, <2>2, SelectsSome
  <2> HIDE DEF o
  <2> QED
    BY <2>1, <2>4, <2>5 DEF o
<1> QED
  BY <1>2, <1>3

LEMMA DeadEndStep ==
  TypeInv /\ ResultInv /\ DeadEndInv /\ [Next]_vars => DeadEndInv'
<1> SUFFICES ASSUME TypeInv, ResultInv, DeadEndInv, [Next]_vars PROVE DeadEndInv'
  OBVIOUS
<1>1. ASSUME phase' = "skipped" PROVE outcomes'[node'].status = "skipped"
  <2>1. CASE SkipNode
    <3>1. node' = node /\ node \in Nodes /\ Verdict("skipped", FALSE) \in Outcome
      BY <2>1, Counters, GraphFacts, VerdictType DEF SkipNode, TypeInv, Status
    <3>2. outcomes'[node] = Verdict("skipped", FALSE)
      BY <2>1, <3>1, RecordTables DEF SkipNode
    <3>3. Verdict("skipped", FALSE).status = "skipped"
      BY DEF Verdict
    <3> QED
      BY <3>1, <3>2, <3>3
  <2> QED
    BY <1>1, <2>1, SkippedSteps DEF DeadEndInv
<1>2. DeadEndsAreReal'
  <2>1. CASE phase = "done"
    <3>1. UNCHANGED <<graph, node, outcomes, ctx, routeRetries, result>>
      BY <2>1, DoneSteps DEF vars, tables, budgets
    <3> QED
      BY <3>1 DEF DeadEndInv, DeadEndsAreReal, MayRetryRoute
  <2>2. CASE phase # "done" /\ result'.why = "dead_end"
    <3>1. SkipTerminates \/ RouteTerminates
      BY <2>2, GivingUpSteps DEF ResultInv
    <3>2. UNCHANGED <<graph, node, outcomes, ctx, routeRetries>>
      BY <3>1 DEF SkipTerminates, RouteTerminates, Finish, tables
    <3> QED
      BY <3>1, <3>2, GivesUpRightly DEF DeadEndsAreReal, MayRetryRoute
  <2>3. CASE result'.why # "dead_end"
    BY <2>3 DEF DeadEndsAreReal
  <2> QED
    BY <2>1, <2>2, <2>3
<1> QED
  BY <1>1, <1>2 DEF DeadEndInv

(* A run gives up for want of an edge only at a node that has none to       *)
(* follow and no retry left.                                               *)
THEOREM DeadEndsHold == Spec => []DeadEndsAreReal
<1>1. Init => DeadEndInv
  <2>1. Init => result = Running /\ phase = "top"
    BY DEF Init
  <2>2. Running.why # "dead_end"
    BY DEF Running
  <2> QED
    BY <2>1, <2>2 DEF DeadEndInv, DeadEndsAreReal
<1>2. DeadEndInv => DeadEndsAreReal
  BY DEF DeadEndInv
<1> QED
  BY <1>1, <1>2, DeadEndStep, TypeAlways, ResultAlways, PTL DEF Spec

=============================================================================
