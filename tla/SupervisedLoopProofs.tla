------------------------ MODULE SupervisedLoopProofs ------------------------
(***************************************************************************)
(* Managers, folder nodes and critique channels, for any graphs, managers,  *)
(* outcomes and critics.                                                   *)
(***************************************************************************)
EXTENDS SupervisedLoop, FiniteSetTheorems, TLAPS

-----------------------------------------------------------------------------
(* The manager's cycles *)

MetIn(stop, ctx, o) ==
  IF stop = {} THEN o.status \in {"success", "partial_success"}
  ELSE \A c \in stop : ClauseHolds(c, o, ctx)
Met(o) == MetIn(manager.stop, parent, o)

ContextFields == {"outcome", "label", "outputs"}

(* Every cycle that has ended, but the one just observed, left the guard    *)
(* unmet; outside the manager nothing has been observed.                   *)
CyclesInv ==
  /\ manager \in Managers
  /\ phase \in {"parent", "cycle", "walking", "folder", "dotfile", "observed"}
  /\ DOMAIN parent = ContextFields
  /\ walk.last \in Outcome \cup {NoOutcome} /\ DOMAIN walk = DOMAIN NoWalk
  /\ observed \in Seq(Outcome) /\ cycle \in Nat
  /\ phase \in {"parent", "folder"} => observed = <<>> /\ cycle = 0
  /\ phase = "cycle" => Len(observed) = cycle /\ \A i \in 1 .. Len(observed) : ~Met(observed[i])
  /\ phase \in {"walking", "dotfile"} =>
       cycle = Len(observed) + 1 /\ \A i \in 1 .. Len(observed) : ~Met(observed[i])
  /\ phase = "observed" =>
       cycle = Len(observed) /\ cycle > 0 /\ \A i \in 1 .. Len(observed) - 1 : ~Met(observed[i])

LEMMA VerdictsAreOutcomes ==
  /\ Failure \in Outcome /\ Verdict("success", FALSE) \in Outcome
  /\ \A o \in Given \cup {Failure} : o \in Outcome
<1>1. <<>> \in Seq(Nodes)
  OBVIOUS
<1>2. Failure \in Outcome /\ Verdict("success", FALSE) \in Outcome
  BY <1>1, LabelsAssumption DEF Failure, Verdict, Outcome, Status
<1> QED
  BY <1>2, GivenAssumption

LEMMA CyclesInit == Init => CyclesInv
<1>1. <<>> \in Seq(Outcome)
  OBVIOUS
<1>2. DOMAIN EmptyContext = ContextFields /\ NoWalk.last = NoOutcome
  BY DEF EmptyContext, ContextFields, NoWalk
<1>3. ASSUME Init
      PROVE  /\ manager \in Managers /\ phase = "parent" /\ parent = EmptyContext
             /\ walk = NoWalk /\ observed = <<>> /\ cycle = 0
  BY <1>3 DEF Init, ChildInit
<1> QED
  BY <1>1, <1>2, <1>3 DEF CyclesInv

(* One more outcome after the ones that did not meet the guard.             *)
LEMMA ObserveKeeps ==
  ASSUME CyclesInv, phase \in {"walking", "dotfile"}, NEW o \in Outcome, Observe(o),
         UNCHANGED <<manager, parent, cycle, walk>>
  PROVE  CyclesInv'
<1>1. /\ observed' = Append(observed, o) /\ phase' = "observed"
      /\ observed \in Seq(Outcome) /\ cycle = Len(observed) + 1
      /\ \A i \in 1 .. Len(observed) : ~Met(observed[i])
  BY DEF CyclesInv, Observe
<1>2. /\ observed' \in Seq(Outcome) /\ Len(observed') = Len(observed) + 1
      /\ \A i \in 1 .. Len(observed) : observed'[i] = observed[i]
  BY <1>1
<1>3. \A i \in 1 .. Len(observed') - 1 : ~MetIn(manager'.stop, parent', observed'[i])
  BY <1>1, <1>2 DEF Met
<1> QED
  BY <1>1, <1>2, <1>3 DEF CyclesInv, Met

(* A step that observes nothing and stays in the manager.                   *)
LEMMA StillKeeps ==
  ASSUME CyclesInv, UNCHANGED <<manager, parent, cycle, observed, phase>>,
         walk'.last \in Outcome \cup {NoOutcome}, DOMAIN walk' = DOMAIN NoWalk
  PROVE  CyclesInv'
<1>1. \A p : Met(p)' <=> Met(p)
  BY DEF Met
<1> QED
  BY <1>1 DEF CyclesInv

(* The handler returns: no cycle is left.                                   *)
LEMMA ReturnKeeps ==
  ASSUME CyclesInv, NEW o, NEW outputs, Return(o, outputs), UNCHANGED manager
  PROVE  CyclesInv'
BY DEF CyclesInv, Return, Updated, NoWalk, ContextFields

LEMMA SubgraphKeeps ==
  ASSUME CyclesInv, SubgraphStep
  PROVE  CyclesInv'
<1>1. ASSUME SubgraphExceeds \/ SubgraphCancelled \/ SubgraphNodeRaises
      PROVE  CyclesInv'
  <2>1. /\ phase = "walking" /\ Observe(Failure)
        /\ UNCHANGED <<manager, parent, cycle, walk>>
    BY <1>1 DEF SubgraphExceeds, SubgraphCancelled, SubgraphNodeRaises, MayExecute, AtNode,
                fixed, walkVars
  <2> QED
    BY <2>1, ObserveKeeps, VerdictsAreOutcomes
<1>2. ASSUME ReachTerminal
      PROVE  CyclesInv'
  <2>1. /\ phase = "walking" /\ UNCHANGED <<manager, parent, cycle, walk>>
        /\ Observe(IF walk.last = NoOutcome THEN Verdict("success", FALSE) ELSE walk.last)
    BY <1>2 DEF ReachTerminal, AtNode, fixed, walkVars
  <2>2. (IF walk.last = NoOutcome THEN Verdict("success", FALSE) ELSE walk.last) \in Outcome
    BY VerdictsAreOutcomes DEF CyclesInv
  <2> QED
    BY <2>1, <2>2, ObserveKeeps
<1>3. ASSUME NEW n \in graph.nodes, NEW o \in graph.attrs[n].results, n = walk.node, SubgraphNode(o)
      PROVE  CyclesInv'
  <2>1. o \in Outcome
    BY <1>3, ManagersAssumption, ChildGraphsAssumption DEF CyclesInv, Manager, graph, NodeAttrs
  <2>2. /\ phase = "walking" /\ UNCHANGED <<manager, parent, cycle>>
        /\ \/ /\ \E m : walk' = [node |-> m, steps |-> Taken, last |-> o]
              /\ UNCHANGED <<phase, observed>>
           \/ Observe(IF Outgoing(graph, walk.node) = {} THEN o ELSE Failure) /\ UNCHANGED walk
    BY <1>3 DEF SubgraphNode, MayExecute, AtNode, fixed
  <2>3. CASE /\ \E m : walk' = [node |-> m, steps |-> Taken, last |-> o]
             /\ UNCHANGED <<phase, observed>>
    <3>1. walk'.last = o /\ DOMAIN walk' = DOMAIN NoWalk
      BY <2>3 DEF NoWalk
    <3> QED
      BY <2>1, <2>2, <2>3, <3>1, StillKeeps
  <2>4. CASE Observe(IF Outgoing(graph, walk.node) = {} THEN o ELSE Failure) /\ UNCHANGED walk
    BY <2>1, <2>2, <2>4, ObserveKeeps, VerdictsAreOutcomes
  <2> QED
    BY <2>2, <2>3, <2>4
<1> QED
  BY <1>1, <1>2, <1>3 DEF SubgraphStep

LEMMA ManagerKeeps ==
  ASSUME CyclesInv, ManagerStep
  PROVE  CyclesInv'
<1>1. ASSUME BeginCycle PROVE CyclesInv'
  <2>0. /\ phase = "cycle" /\ cycle' = cycle + 1 /\ UNCHANGED <<manager, parent, cancelled>>
        /\ DOMAIN walk' = DOMAIN NoWalk /\ walk'.last \in Outcome \cup {NoOutcome}
    BY <1>1 DEF BeginCycle, fixed, CyclesInv, NoWalk
  <2>1. \A p : Met(p)' <=> Met(p)
    BY <2>0 DEF Met
  <2>2. CASE phase' \in {"walking", "dotfile"} /\ observed' = observed
    BY <2>0, <2>1, <2>2 DEF CyclesInv
  <2>3. CASE Observe(Failure)
    <3>1. /\ observed' = Append(observed, Failure) /\ phase' = "observed"
          /\ observed \in Seq(Outcome) /\ cycle = Len(observed)
          /\ \A i \in 1 .. Len(observed) : ~Met(observed[i])
      BY <2>0, <2>3 DEF Observe, CyclesInv
    <3>2. /\ observed' \in Seq(Outcome) /\ Len(observed') = Len(observed) + 1
          /\ \A i \in 1 .. Len(observed) : observed'[i] = observed[i]
      BY <3>1, VerdictsAreOutcomes
    <3>3. \A i \in 1 .. Len(observed') - 1 : ~MetIn(manager'.stop, parent', observed'[i])
      BY <2>0, <3>1, <3>2 DEF Met
    <3> QED
      BY <2>0, <3>1, <3>2, <3>3 DEF CyclesInv, Met
  <2> QED
    BY <1>1, <2>2, <2>3 DEF BeginCycle
<1>2. ASSUME ManagerStops \/ Exhausted PROVE CyclesInv'
  BY <1>2, ReturnKeeps DEF ManagerStops, Exhausted, fixed
<1>3. ASSUME NextCycle PROVE CyclesInv'
  <2>1. /\ phase = "observed" /\ phase' = "cycle" /\ ~StopHolds(Latest)
        /\ UNCHANGED <<manager, parent, cycle, observed, walk>>
    BY <1>3 DEF NextCycle, fixed, walkVars
  <2>2. \A p : Met(p)' <=> Met(p)
    BY <2>1 DEF Met
  <2>3. ~Met(observed[Len(observed)])
    BY <2>1 DEF StopHolds, Met, MetIn, Latest, DefaultGuard, IsSuccess, SuccessStatus
  <2>4. \A i \in 1 .. Len(observed) : ~Met(observed[i])
    BY <2>1, <2>3 DEF CyclesInv
  <2> QED
    BY <2>1, <2>2, <2>4 DEF CyclesInv
<1>4. ASSUME NEW o \in Given \cup {Failure}, ChildEngineEnds(o) PROVE CyclesInv'
  <2>1. phase = "dotfile" /\ Observe(o) /\ UNCHANGED <<manager, parent, cycle, walk>>
    BY <1>4 DEF ChildEngineEnds, fixed, walkVars
  <2> QED
    BY <2>1, ObserveKeeps, VerdictsAreOutcomes
<1> QED
  BY <1>1, <1>2, <1>3, <1>4, SubgraphKeeps DEF ManagerStep

LEMMA CyclesStep ==
  ASSUME CyclesInv, [Next]_vars
  PROVE  CyclesInv'
<1>1. ASSUME ParentStep PROVE CyclesInv'
  <2>1. ASSUME NEW o, NEW outputs, Return(o, outputs), UNCHANGED fixed PROVE CyclesInv'
    BY <2>1, ReturnKeeps DEF fixed
  <2>2. ASSUME ManagerRefuses \/ FolderRefuses \/ \E o \in Given \cup {Failure} : FolderEnds(o)
        PROVE  CyclesInv'
    BY <2>1, <2>2 DEF ManagerRefuses, FolderRefuses, FolderEnds
  <2>3. ASSUME \/ EnterManager \/ EnterFolder
               \/ \E o \in Given : (\E v \in {"old", "new"} : FolderNode(o, v)) \/ ParentNode(o)
        PROVE  CyclesInv'
    <3>1. /\ UNCHANGED <<manager, cycle, observed, walk>> /\ phase \in {"parent", "folder"}
          /\ phase' \in {"parent", "folder", "cycle"} /\ DOMAIN parent' = ContextFields
      BY <2>3 DEF EnterManager, EnterFolder, FolderNode, ParentNode, fixed, walkVars, CyclesInv, Updated
    <3> QED
      BY <3>1 DEF CyclesInv
  <2> QED
    BY <1>1, <2>2, <2>3 DEF ParentStep
<1>2. ASSUME \/ UNCHANGED vars \/ Cancel
             \/ \E c \in Critics, text \in Texts : CriticRuns(c, text)
      PROVE  CyclesInv'
  <2>1. UNCHANGED <<manager, parent, cycle, observed, phase, walk>>
    BY <1>2 DEF vars, childVars, Cancel, CriticRuns, walkVars
  <2> QED
    BY <2>1, StillKeeps DEF CyclesInv
<1>3. ASSUME Restart PROVE CyclesInv'
  <2>1. /\ UNCHANGED <<manager, cycle, observed, phase, walk>> /\ phase = "parent"
        /\ DOMAIN parent' = ContextFields
    BY <1>3 DEF Restart, fixed, walkVars, CyclesInv
  <2> QED
    BY <2>1 DEF CyclesInv
<1> QED
  BY <1>1, <1>2, <1>3, ManagerKeeps DEF Next

(* A manager answers what its last child answered: it succeeds only after a *)
(* cycle that met the guard, and gives up only after all its cycles, none   *)
(* of which did (ManagerVerdict).                                          *)
THEOREM ManagerVerdictHolds == Spec => ManagerVerdict
<1> DEFINE Answered ==
      LET good(o) == Met(o)
      IN  /\ \A i \in 1 .. Len(observed) - 1 : ~good(observed[i])
          /\ \/ observed # <<>> /\ good(Latest) /\ parent'.outcome = Latest.status
             \/ /\ \A i \in DOMAIN observed : ~good(observed[i])
                /\ Len(observed) = manager.maxCycles /\ parent'.outcome = "fail"
<1>1. ASSUME CyclesInv, Next, phase # "parent", phase # "folder", phase' = "parent"
      PROVE  Answered
  <2>1. ManagerStops \/ Exhausted
    BY <1>1 DEF Next, ManagerStep, ParentStep, Cancel, Restart, CriticRuns, CriticSays, childVars,
                SubgraphStep, SubgraphExceeds, SubgraphCancelled, SubgraphNodeRaises, ReachTerminal,
                SubgraphNode, MayExecute, AtNode, Observe, BeginCycle, NextCycle, ChildEngineEnds,
                ManagerRefuses, EnterManager, FolderRefuses, EnterFolder, FolderNode, ParentNode,
                FolderEnds
  <2>2. CASE ManagerStops
    <3>1. /\ phase = "observed" /\ StopHolds(Latest) /\ observed # <<>> /\ Latest \in Outcome
          /\ \A i \in 1 .. Len(observed) - 1 : ~Met(observed[i])
      BY <1>1, <2>2 DEF ManagerStops, CyclesInv, Latest
    <3>2. Met(Latest)
      BY <3>1 DEF StopHolds, Met, MetIn, DefaultGuard, IsSuccess, SuccessStatus
    <3>3. [Latest EXCEPT !.label = "", !.suggest = <<>>].status = Latest.status
      BY <3>1 DEF Outcome
    <3>4. parent'.outcome = Latest.status
      BY <1>1, <2>2, <3>3 DEF ManagerStops, Return, Updated, CyclesInv, ContextFields
    <3> QED
      BY <3>1, <3>2, <3>4
  <2>3. CASE Exhausted
    <3>1. /\ Len(observed) = manager.maxCycles /\ DOMAIN observed = 1 .. Len(observed)
          /\ \A i \in 1 .. Len(observed) : ~Met(observed[i])
      BY <1>1, <2>3 DEF Exhausted, CyclesInv
    <3>2. parent'.outcome = "fail"
      BY <1>1, <2>3 DEF Exhausted, Return, Updated, CyclesInv, ContextFields, Failure, Verdict
    <3> QED
      BY <1>1, <3>1, <3>2 DEF CyclesInv
  <2> QED
    BY <2>1, <2>2, <2>3
<1>2. CyclesInv /\ [Next]_vars
        => [phase # "parent" /\ phase # "folder" /\ phase' = "parent" => Answered]_vars
  BY <1>1
<1> QED
  BY <1>2, CyclesInit, CyclesStep, PTL DEF Spec, ManagerVerdict, Met, MetIn

-----------------------------------------------------------------------------
(* The label                                                               *)

LabelInv == DOMAIN child = ContextFields /\ LabelFromThisChild

LEMMA LabelStep ==
  ASSUME CyclesInv, LabelInv, [Next]_vars
  PROVE  LabelInv'
<1>1. CASE phase' \notin {"walking", "folder"} /\ DOMAIN child' = ContextFields
  BY <1>1 DEF LabelInv, LabelFromThisChild
<1>2. CASE UNCHANGED <<phase, child, given>>
  BY <1>2 DEF LabelInv, LabelFromThisChild
<1>3. ASSUME NEW o, child' = Updated(child, o), given' = given \cup ({o.label} \ {""}),
             phase' = phase, phase \in {"walking", "folder"}
      PROVE  LabelInv'
  <2>1. child'.label = IF o.label = "" THEN child.label ELSE o.label
    BY <1>3 DEF Updated, LabelInv, ContextFields
  <2>2. DOMAIN child' = ContextFields
    BY <1>3 DEF Updated, LabelInv, ContextFields
  <2>3. child.label \in given \cup {""}
    BY <1>3 DEF LabelInv, LabelFromThisChild
  <2>4. child'.label \in given' \cup {""}
    BY <1>3, <2>1, <2>3
  <2> QED
    BY <2>2, <2>4 DEF LabelInv, LabelFromThisChild
<1>4. ASSUME NEW seed, child' = ChildContext(seed), given' = {seed} \ {""}
      PROVE  LabelInv'
  BY <1>4 DEF ChildContext, LabelInv, LabelFromThisChild, CyclesInv, ContextFields
<1>5. ASSUME Observe(Failure) \/ \E o : Observe(o), DOMAIN child' = ContextFields PROVE LabelInv'
  BY <1>1, <1>5 DEF Observe
<1>6. ASSUME ManagerStep PROVE LabelInv'
  <2>1. ASSUME SubgraphStep PROVE LabelInv'
    <3>1. ASSUME SubgraphExceeds \/ SubgraphCancelled \/ ReachTerminal \/ SubgraphNodeRaises
          PROVE  phase' = "observed" /\ child' = child
      BY <3>1 DEF SubgraphExceeds, SubgraphCancelled, ReachTerminal, SubgraphNodeRaises, Observe, walkVars
    <3>2. ASSUME NEW o, SubgraphNode(o) PROVE LabelInv'
      <4>1. /\ child' = Updated(child, o) /\ given' = given \cup ({o.label} \ {""})
            /\ phase = "walking" /\ phase' \in {"walking", "observed"}
        BY <3>2 DEF SubgraphNode, MayExecute, AtNode, Observe
      <4>2. DOMAIN child' = ContextFields
        BY <4>1 DEF Updated, LabelInv, ContextFields
      <4> QED
        BY <1>1, <1>3, <4>1, <4>2
    <3> QED
      BY <1>1, <2>1, <3>1, <3>2 DEF SubgraphStep, LabelInv
  <2>2. ASSUME BeginCycle PROVE LabelInv'
    BY <1>4, <2>2 DEF BeginCycle
  <2>3. ASSUME ManagerStops \/ Exhausted PROVE phase' = "parent" /\ child' = EmptyContext
    BY <2>3 DEF ManagerStops, Exhausted, Return
  <2>4. ASSUME NextCycle \/ \E o \in Given \cup {Failure} : ChildEngineEnds(o)
        PROVE  phase' \in {"cycle", "observed"} /\ child' = child
    BY <2>4 DEF NextCycle, ChildEngineEnds, Observe, walkVars
  <2>5. DOMAIN EmptyContext = ContextFields
    BY DEF EmptyContext, ContextFields
  <2> QED
    BY <1>1, <1>6, <2>1, <2>2, <2>3, <2>4, <2>5 DEF ManagerStep, LabelInv
<1>7. ASSUME ParentStep PROVE LabelInv'
  <2>1. ASSUME ManagerRefuses \/ FolderRefuses \/ \E o \in Given \cup {Failure} : FolderEnds(o)
        PROVE  phase' = "parent" /\ child' = EmptyContext
    BY <2>1 DEF ManagerRefuses, FolderRefuses, FolderEnds, Return
  <2>2. ASSUME EnterFolder PROVE LabelInv'
    BY <1>4, <2>2 DEF EnterFolder
  <2>3. ASSUME EnterManager \/ \E o \in Given : ParentNode(o)
        PROVE  phase' \in {"cycle", "parent"} /\ child' = child
    BY <2>3 DEF EnterManager, ParentNode, walkVars
  <2>4. ASSUME NEW o, NEW v, FolderNode(o, v) PROVE LabelInv'
    <3>1. /\ child' = [Updated(child, o) EXCEPT !.outputs = v]
          /\ given' = given \cup ({o.label} \ {""}) /\ phase' = phase /\ phase = "folder"
      BY <2>4 DEF FolderNode
    <3>2. /\ DOMAIN child' = ContextFields
          /\ child'.label = IF o.label = "" THEN child.label ELSE o.label
      BY <3>1 DEF Updated, LabelInv, ContextFields
    <3>3. child.label \in given \cup {""}
      BY <3>1 DEF LabelInv, LabelFromThisChild
    <3>4. given \cup ({o.label} \ {""}) = given'
      BY <3>1
    <3>5. child'.label \in given' \cup {""}
      BY <3>2, <3>3, <3>4
    <3> QED
      BY <3>2, <3>5 DEF LabelInv, LabelFromThisChild
  <2>5. DOMAIN EmptyContext = ContextFields
    BY DEF EmptyContext, ContextFields
  <2> QED
    BY <1>1, <1>7, <2>1, <2>2, <2>3, <2>4, <2>5 DEF ParentStep, LabelInv
<1>8. ASSUME \/ UNCHANGED vars \/ Cancel \/ Restart
             \/ \E c \in Critics, text \in Texts : CriticRuns(c, text)
      PROVE  LabelInv'
  BY <1>2, <1>8 DEF vars, childVars, Cancel, Restart, CriticRuns, walkVars
<1> QED
  BY <1>6, <1>7, <1>8 DEF Next

(* No child routes by a label left over from its parent or from the cycle   *)
(* before (LabelFromThisChild).                                            *)
THEOREM LabelFromThisChildHolds == Spec => []LabelFromThisChild
<1>1. Init => LabelInv
  <2>1. DOMAIN EmptyContext = ContextFields
    BY DEF EmptyContext, ContextFields
  <2> QED
    BY <2>1 DEF Init, ChildInit, LabelInv, LabelFromThisChild
<1>2. LabelInv => LabelFromThisChild
  BY DEF LabelInv
<1> QED
  BY <1>1, <1>2, CyclesInit, CyclesStep, LabelStep, PTL DEF Spec

-----------------------------------------------------------------------------
(* The channels of critiques                                               *)

Of(t) == {s \in spoken : s.critic = Critic[t]}
Later(all, n) == {s \in all : s.iteration > n}
Increasing(entries) == \A i, j \in DOMAIN entries : i < j => entries[i].iteration < entries[j].iteration
Entries == [iteration : Nat, text : Texts]

(* A channel's entries are in order, each with as many critiques after it   *)
(* as there are entries behind it; a critique that is not in the channel    *)
(* was pushed out of a full one.                                           *)
ChannelOf(t) ==
  /\ IsFiniteSet(Of(t))
  /\ channel[t] \in Seq(Entries) /\ Len(channel[t]) <= MaxCritiques /\ Increasing(channel[t])
  /\ \A i \in 1 .. Len(channel[t]) :
       /\ [critic |-> Critic[t], iteration |-> channel[t][i].iteration, text |-> channel[t][i].text] \in spoken
       /\ Cardinality(Later(Of(t), channel[t][i].iteration)) = Len(channel[t]) - i
  /\ \A s \in Of(t) :
       \/ \E i \in 1 .. Len(channel[t]) : channel[t][i] = Entry(s.iteration, s.text)
       \/ Len(channel[t]) = MaxCritiques /\ s.iteration < channel[t][1].iteration

ChannelInv ==
  /\ iteration \in Nat
  /\ said \in [Critics -> Texts \cup {Silent}]
  /\ spoken \subseteq [critic : Critics, iteration : Nat, text : Texts]
  /\ \A s \in spoken : s.iteration <= iteration
  /\ \A t \in Targets : ChannelOf(t)

LEMMA ChannelInit == Init => ChannelInv
<1> SUFFICES ASSUME Init PROVE ChannelInv
  OBVIOUS
<1>1. iteration = 0 /\ spoken = {} /\ \A t \in Targets : channel[t] = <<>>
  BY DEF Init, FeedbackInit
<1>2. said \in [Critics -> Texts \cup {Silent}]
  BY DEF Init, FeedbackInit
<1>3. ASSUME NEW t \in Targets PROVE ChannelOf(t)
  <2>1. Of(t) = {} /\ channel[t] = <<>>
    BY <1>1 DEF Of
  <2>2. <<>> \in Seq(Entries) /\ Len(<<>>) = 0 /\ DOMAIN <<>> = {}
    OBVIOUS
  <2> QED
    BY <2>1, <2>2, FS_EmptySet, MaxCritiquesAssumption DEF ChannelOf, Increasing
<1> QED
  BY <1>1, <1>2, <1>3 DEF ChannelInv

(* A restart after an iteration in which the critic was silent.             *)
LEMMA SilentKeeps ==
  ASSUME ChannelInv, NEW t \in Targets, Of(t)' = Of(t), channel'[t] = channel[t],
         spoken \subseteq spoken'
  PROVE  ChannelOf(t)'
BY DEF ChannelInv, ChannelOf


(* A restart after an iteration in which the critic spoke.                  *)
LEMMA SpokenKeeps ==
  ASSUME ChannelInv, NEW t \in Targets, NEW text \in Texts,
         Of(t)' = Of(t) \cup {[critic |-> Critic[t], iteration |-> iteration + 1, text |-> text]},
         channel'[t] = Window(Append(channel[t], Entry(iteration + 1, text))),
         [critic |-> Critic[t], iteration |-> iteration + 1, text |-> text] \in spoken',
         spoken \subseteq spoken'
  PROVE  ChannelOf(t)'
<1> DEFINE now == iteration + 1
           new == [critic |-> Critic[t], iteration |-> now, text |-> text]
           old == channel[t]
           all == Append(old, Entry(now, text))
           kept == Window(all)
           cut == Len(all) - Len(kept)
           said0 == Of(t)
           said1 == Of(t)'
<1>1. /\ iteration \in Nat /\ now \in Nat /\ MaxCritiques \in Nat /\ MaxCritiques >= 1
      /\ Entry(now, text) \in Entries /\ Entry(now, text).iteration = now
  BY MaxCritiquesAssumption DEF ChannelInv, Entry, Entries
<1>2. /\ IsFiniteSet(said0) /\ old \in Seq(Entries) /\ Len(old) <= MaxCritiques /\ Increasing(old)
      /\ \A i \in 1 .. Len(old) : Cardinality(Later(said0, old[i].iteration)) = Len(old) - i
      /\ \A s \in said0 : \/ \E i \in 1 .. Len(old) : old[i] = Entry(s.iteration, s.text)
                          \/ Len(old) = MaxCritiques /\ s.iteration < old[1].iteration
  BY DEF ChannelInv, ChannelOf
<1>3. \A s \in said0 : s.iteration \in Nat /\ s.iteration < now
  BY <1>1 DEF ChannelInv, Of
<1>4. \A i \in 1 .. Len(old) : old[i] \in Entries /\ old[i].iteration \in Nat /\ old[i].iteration < now
  <2> TAKE i \in 1 .. Len(old)
  <2>1. old[i] \in Entries
    BY <1>2
  <2>2. [critic |-> Critic[t], iteration |-> old[i].iteration, text |-> old[i].text] \in spoken
    BY DEF ChannelInv, ChannelOf
  <2> QED
    BY <1>1, <2>1, <2>2 DEF ChannelInv, Entries
<1>5. /\ Len(old) \in Nat /\ Len(all) \in Nat
      /\ all \in Seq(Entries) /\ Len(all) = Len(old) + 1 /\ all[Len(old) + 1] = Entry(now, text)
      /\ \A i \in 1 .. Len(old) : all[i] = old[i]
  BY <1>1, <1>2
<1>6. /\ kept \in Seq(Entries) /\ Len(kept) \in Nat /\ Len(kept) <= MaxCritiques /\ cut \in {0, 1} /\ Len(kept) >= 1
      /\ Len(kept) = Len(all) - cut
      /\ cut = 1 => Len(old) = MaxCritiques /\ Len(kept) = MaxCritiques
      /\ \A i \in 1 .. Len(kept) : kept[i] = all[i + cut]
  <2> HIDE DEF all
  <2>1. CASE Len(all) > MaxCritiques
    <3>1. Len(old) = MaxCritiques /\ Len(all) = MaxCritiques + 1
      BY <1>1, <1>2, <1>5, <2>1
    <3>2. kept = SubSeq(all, 2, MaxCritiques + 1)
      <4>1. Len(all) - MaxCritiques + 1 = 2
        BY <1>1, <3>1
      <4> QED
        BY <2>1, <3>1, <4>1 DEF Window
    <3> HIDE DEF kept
    <3>3. kept \in Seq(Entries) /\ Len(kept) = MaxCritiques
      BY <1>1, <1>5, <3>1, <3>2
    <3>4. \A i \in 1 .. MaxCritiques : kept[i] = all[i + 1]
      BY <1>1, <1>5, <3>1, <3>2
    <3> QED
      BY <1>1, <3>1, <3>3, <3>4
  <2>2. CASE Len(all) <= MaxCritiques
    <3>1. kept = all
      <4>1. ~(Len(all) > MaxCritiques)
        BY <1>1, <1>5, <2>2
      <4> QED
        BY <4>1 DEF Window
    <3> HIDE DEF kept
    <3> QED
      BY <1>1, <1>2, <1>5, <2>2, <3>1
  <2> QED
    BY <1>1, <1>5, <2>1, <2>2
<1> HIDE DEF kept, all, cut, old, now, said0, said1
<1>7. Increasing(all)
  <2> SUFFICES ASSUME NEW i \in 1 .. Len(old) + 1, NEW j \in 1 .. Len(old) + 1, i < j
               PROVE  all[i].iteration < all[j].iteration
    BY <1>2, <1>5 DEF Increasing
  <2>1. i \in 1 .. Len(old)
    BY <1>2
  <2>2. CASE j \in 1 .. Len(old)
    <3>1. DOMAIN old = 1 .. Len(old)
      BY <1>2
    <3>2. old[i].iteration < old[j].iteration
      BY <1>2, <2>1, <2>2, <3>1, Zenon DEF Increasing
    <3>3. all[i] = old[i] /\ all[j] = old[j]
      BY <1>5, <2>1, <2>2, Zenon
    <3> QED
      BY <3>2, <3>3
  <2>3. CASE j = Len(old) + 1
    BY <1>1, <1>4, <1>5, <2>1, <2>3
  <2> QED
    BY <1>2, <2>2, <2>3
<1>8. /\ said1 = said0 \cup {new} /\ new \notin said0 /\ new.iteration = now
      /\ IsFiniteSet(said1)
  BY <1>1, <1>2, <1>3, FS_AddElement DEF said0, said1, now
<1> HIDE DEF new
<1>9. \A i \in 1 .. Len(all) : Cardinality(Later(said1, all[i].iteration)) = Len(all) - i
  <2> TAKE i \in 1 .. Len(all)
  <2>1. CASE i \in 1 .. Len(old)
    <3>1. /\ Later(said1, old[i].iteration) = Later(said0, old[i].iteration) \cup {new}
          /\ new \notin Later(said0, old[i].iteration)
      BY <1>4, <1>8, <2>1 DEF Later
    <3>2. IsFiniteSet(Later(said0, old[i].iteration))
      BY <1>2, FS_Subset DEF Later
    <3>3. Cardinality(Later(said1, old[i].iteration)) = Len(old) - i + 1
      BY <1>2, <2>1, <3>1, <3>2, FS_AddElement
    <3> QED
      BY <1>2, <1>5, <2>1, <3>3
  <2>2. CASE i = Len(old) + 1
    <3>1. Later(said1, now) = {}
      BY <1>1, <1>3, <1>8 DEF Later
    <3>2. all[i].iteration = now
      BY <1>1, <1>5, <2>2
    <3>3. Cardinality(Later(said1, all[i].iteration)) = 0
      BY <3>1, <3>2, FS_EmptySet
    <3> QED
      BY <1>5, <2>2, <3>3
  <2> QED
    BY <1>2, <1>5, <2>1, <2>2
<1>10. \A s \in said1 : \/ \E i \in 1 .. Len(all) : all[i] = Entry(s.iteration, s.text)
                        \/ Len(old) = MaxCritiques /\ s.iteration < all[1].iteration
  <2> TAKE s \in said1
  <2>1. CASE s = new
    <3>1. Entry(s.iteration, s.text) = all[Len(old) + 1]
      BY <1>5, <2>1 DEF new, now, Entry
    <3> QED
      BY <1>2, <1>5, <3>1
  <2>2. CASE s \in said0
    <3>1. CASE \E i \in 1 .. Len(old) : old[i] = Entry(s.iteration, s.text)
      <4>1. PICK i \in 1 .. Len(old) : old[i] = Entry(s.iteration, s.text)
        BY <3>1
      <4> QED
        BY <1>2, <1>5, <4>1
    <3>2. CASE Len(old) = MaxCritiques /\ s.iteration < old[1].iteration
      BY <1>1, <1>5, <3>2
    <3> QED
      BY <1>2, <2>2, <3>1, <3>2
  <2> QED
    BY <1>8, <2>1, <2>2
<1>11. Increasing(kept)
  <2> SUFFICES ASSUME NEW i \in 1 .. Len(kept), NEW j \in 1 .. Len(kept), i < j
               PROVE  kept[i].iteration < kept[j].iteration
    BY <1>6 DEF Increasing
  <2>1. i + cut \in DOMAIN all /\ j + cut \in DOMAIN all /\ i + cut < j + cut
    BY <1>5, <1>6
  <2>2. all[i + cut].iteration < all[j + cut].iteration
    BY <1>7, <2>1 DEF Increasing
  <2> QED
    BY <1>6, <2>2
<1>12. \A i \in 1 .. Len(kept) : Cardinality(Later(said1, kept[i].iteration)) = Len(kept) - i
  <2> TAKE i \in 1 .. Len(kept)
  <2>1. i + cut \in 1 .. Len(all)
    BY <1>2, <1>5, <1>6
  <2>2. Cardinality(Later(said1, all[i + cut].iteration)) = Len(all) - (i + cut)
    BY <1>9, <2>1
  <2>3. kept[i] = all[i + cut]
    BY <1>6
  <2>4. Len(kept) = Len(all) - cut /\ Len(all) \in Nat /\ cut \in Nat /\ Len(kept) \in Nat
    BY <1>5, <1>6
  <2>5. Len(all) - (i + cut) = Len(kept) - i
    BY <2>4
  <2> QED
    BY <2>2, <2>3, <2>5
<1>13. \A s \in said1 : \/ \E i \in 1 .. Len(kept) : kept[i] = Entry(s.iteration, s.text)
                        \/ Len(kept) = MaxCritiques /\ s.iteration < kept[1].iteration
  <2> TAKE s \in said1
  <2>0. s.iteration \in Nat
    BY <1>1, <1>3, <1>8
  <2>1. ASSUME NEW i \in 1 .. Len(all), all[i] = Entry(s.iteration, s.text), i > cut
        PROVE  \E k \in 1 .. Len(kept) : kept[k] = Entry(s.iteration, s.text)
    <3>1. i - cut \in 1 .. Len(kept) /\ kept[i - cut] = all[i]
      BY <1>2, <1>5, <1>6, <2>1
    <3> QED
      BY <2>1, <3>1
  <2>2. ASSUME cut = 1, s.iteration <= all[1].iteration
        PROVE  Len(kept) = MaxCritiques /\ s.iteration < kept[1].iteration
    <3>1. kept[1] = all[2] /\ 1 \in DOMAIN all /\ 2 \in DOMAIN all
      BY <1>1, <1>2, <1>5, <1>6, <2>2
    <3>2. all[1].iteration < all[2].iteration
      BY <1>7, <3>1 DEF Increasing
    <3>3. all[1] \in Entries /\ all[2] \in Entries
      BY <1>5, <3>1
    <3> QED
      BY <1>6, <2>0, <2>2, <3>1, <3>2, <3>3 DEF Entries
  <2>3. ASSUME NEW i \in 1 .. Len(all), all[i] = Entry(s.iteration, s.text), i <= cut
        PROVE  Len(kept) = MaxCritiques /\ s.iteration < kept[1].iteration
    <3>1. i = 1 /\ cut = 1
      BY <1>6, <2>3
    <3>2. s.iteration <= all[1].iteration
      BY <2>0, <2>3, <3>1 DEF Entry
    <3> QED
      BY <2>2, <3>1, <3>2
  <2>4. ASSUME Len(old) = MaxCritiques, s.iteration < all[1].iteration
        PROVE  Len(kept) = MaxCritiques /\ s.iteration < kept[1].iteration
    <3>1. cut = 1
      BY <1>1, <1>2, <1>5, <1>6, <2>4
    <3>2. all[1].iteration \in Nat
      <4>1. 1 \in 1 .. Len(all)
        BY <1>5
      <4>2. all[1] \in Entries
        BY <1>5, <4>1
      <4> QED
        BY <4>2 DEF Entries
    <3> QED
      BY <2>0, <2>2, <2>4, <3>1, <3>2
  <2> QED
    BY <1>6, <1>10, <2>1, <2>3, <2>4
<1>14. \A i \in 1 .. Len(kept) :
         [critic |-> Critic[t], iteration |-> kept[i].iteration, text |-> kept[i].text] \in spoken'
  <2> TAKE i \in 1 .. Len(kept)
  <2>0. Len(kept) + cut = Len(old) + 1
    BY <1>5, <1>6
  <2>1. i + cut \in 1 .. Len(old) + 1 /\ kept[i] = all[i + cut]
    BY <1>5, <1>6, <2>0
  <2>2. CASE i + cut = Len(old) + 1
    BY <1>5, <2>1, <2>2 DEF Entry, now
  <2>3. CASE i + cut \in 1 .. Len(old)
    <3>1. kept[i] = old[i + cut]
      BY <1>5, <2>1, <2>3
    <3>2. [critic |-> Critic[t], iteration |-> old[i + cut].iteration, text |-> old[i + cut].text] \in spoken
      BY <2>3 DEF ChannelInv, ChannelOf, old
    <3> QED
      BY <3>1, <3>2
  <2> QED
    BY <1>2, <2>1, <2>2, <2>3
<1>15. channel'[t] = kept
  BY DEF kept, all, old, now
<1> QED
  BY <1>6, <1>8, <1>11, <1>12, <1>13, <1>14, <1>15 DEF ChannelOf, said1

LEMMA ChannelStep ==
  ASSUME ChannelInv, [Next]_vars
  PROVE  ChannelInv'
<1>1. CASE UNCHANGED feedbackVars
  BY <1>1 DEF feedbackVars, ChannelInv, ChannelOf, Of
<1>2. ASSUME NEW c \in Critics, NEW text \in Texts, CriticRuns(c, text)
      PROVE  ChannelInv'
  <2>1. UNCHANGED <<iteration, channel, spoken>> /\ said' \in [Critics -> Texts \cup {Silent}]
    BY <1>2 DEF CriticRuns, CriticSays, ChannelInv
  <2>2. \A t \in Targets : ChannelOf(t)'
    BY <2>1 DEF ChannelInv, ChannelOf, Of
  <2> QED
    BY <2>1, <2>2 DEF ChannelInv
<1>3. ASSUME LoopRestart
      PROVE  ChannelInv'
  <2> DEFINE made == {[critic |-> c, iteration |-> iteration + 1, text |-> said[c]] :
                        c \in {d \in Critics : said[d] # Silent}}
  <2>1. /\ iteration \in Nat /\ iteration' = iteration + 1 /\ spoken' = spoken \cup made
        /\ said' = [c \in Critics |-> Silent]
        /\ \A t \in Targets : channel'[t] = Collect(t, iteration + 1)
    BY <1>3 DEF LoopRestart, Cleared, ChannelInv
  <2>2. made \subseteq [critic : Critics, iteration : Nat, text : Texts]
    BY <2>1 DEF ChannelInv
  <2>3. \A s \in spoken' : s.iteration <= iteration'
    BY <2>1 DEF ChannelInv
  <2>4. ASSUME NEW t \in Targets PROVE ChannelOf(t)'
    <3>1. Critic[t] \in Critics
      BY DEF Critics
    <3>2. Of(t)' = {s \in spoken' : s.critic = Critic[t]}
      BY DEF Of
    <3>3. CASE said[Critic[t]] = Silent
      <4>1. Of(t)' = Of(t)
        BY <2>1, <3>2, <3>3 DEF Of
      <4> QED
        BY <2>1, <3>3, <4>1, SilentKeeps DEF Collect
    <3>4. CASE said[Critic[t]] # Silent
      <4> DEFINE text == said[Critic[t]]
                 new == [critic |-> Critic[t], iteration |-> iteration + 1, text |-> text]
      <4>1. text \in Texts
        BY <3>1, <3>4 DEF ChannelInv
      <4>2. new \in spoken' /\ Of(t)' = Of(t) \cup {new}
        BY <2>1, <3>1, <3>2, <3>4 DEF Of
      <4>3. channel'[t] = Window(Append(channel[t], Entry(iteration + 1, text)))
        BY <2>1, <3>4 DEF Collect
      <4> HIDE DEF text
      <4> QED
        BY <2>1, <4>1, <4>2, <4>3, SpokenKeeps
    <3> QED
      BY <3>3, <3>4
  <2> QED
    BY <2>1, <2>2, <2>3, <2>4 DEF ChannelInv
<1> QED
  BY <1>1, <1>2, <1>3 DEF Next, Restart, vars

(* What is in the channel is what has fewer than MaxCritiques after it.     *)
LEMMA ChannelIsNewest ==
  ASSUME ChannelInv, NEW t \in Targets
  PROVE  LET all == {s \in spoken : s.critic = Critic[t]}
             newest == {s \in all : Cardinality({r \in all : r.iteration > s.iteration}) < MaxCritiques}
         IN  /\ {[iteration |-> s.iteration, text |-> s.text] : s \in newest} = ToSet(channel[t])
             /\ \A i, j \in DOMAIN channel[t] :
                  i < j => channel[t][i].iteration < channel[t][j].iteration
<1> DEFINE all == Of(t)
           ch == channel[t]
           newest == {s \in all : Cardinality(Later(all, s.iteration)) < MaxCritiques}
<1>1. /\ IsFiniteSet(all) /\ ch \in Seq(Entries) /\ Len(ch) <= MaxCritiques /\ Increasing(ch)
      /\ \A i \in 1 .. Len(ch) :
           /\ [critic |-> Critic[t], iteration |-> ch[i].iteration, text |-> ch[i].text] \in all
           /\ Cardinality(Later(all, ch[i].iteration)) = Len(ch) - i
      /\ \A s \in all : \/ \E i \in 1 .. Len(ch) : ch[i] = Entry(s.iteration, s.text)
                        \/ Len(ch) = MaxCritiques /\ s.iteration < ch[1].iteration
  BY DEF ChannelInv, ChannelOf, Of
<1>2. \A s \in all : s.iteration \in Nat
  BY DEF ChannelInv, Of
<1> HIDE DEF all, ch
<1>3. Len(ch) \in Nat /\ DOMAIN ch = 1 .. Len(ch) /\ \A i \in 1 .. Len(ch) : ch[i] \in Entries
  BY <1>1
<1>4. ASSUME NEW s \in newest
      PROVE  \E i \in 1 .. Len(ch) : ch[i] = Entry(s.iteration, s.text)
  <2>1. SUFFICES ASSUME Len(ch) = MaxCritiques, s.iteration < ch[1].iteration
                 PROVE  FALSE
    BY <1>1
  <2> DEFINE first == [critic |-> Critic[t], iteration |-> ch[1].iteration, text |-> ch[1].text]
             behind == Later(all, ch[1].iteration)
  <2>2. 1 \in 1 .. Len(ch)
    BY <1>3, <2>1, MaxCritiquesAssumption
  <2>3. /\ first \in all /\ first.iteration = ch[1].iteration
        /\ Cardinality(behind) = Len(ch) - 1
    BY <1>1, <2>2
  <2>4. IsFiniteSet(behind) /\ first \notin behind
    BY <1>1, <1>2, <2>3, FS_Subset DEF Later
  <2> HIDE DEF first
  <2>5. behind \cup {first} \subseteq Later(all, s.iteration)
    BY <1>2, <2>1, <2>3 DEF Later
  <2> HIDE DEF behind
  <2>6. Cardinality(behind \cup {first}) = MaxCritiques
    <3>1. Cardinality(behind \cup {first}) = Cardinality(behind) + 1
      BY <2>4, FS_AddElement
    <3>2. Cardinality(behind) = MaxCritiques - 1 /\ MaxCritiques \in Nat
      BY <2>1, <2>3, MaxCritiquesAssumption
    <3> QED
      BY <3>1, <3>2
  <2>7. IsFiniteSet(Later(all, s.iteration))
    BY <1>1, FS_Subset DEF Later
  <2>8. /\ Cardinality(behind \cup {first}) <= Cardinality(Later(all, s.iteration))
        /\ Cardinality(Later(all, s.iteration)) \in Nat
    BY <2>5, <2>7, FS_Subset, FS_CardinalityType
  <2>9. Cardinality(Later(all, s.iteration)) < MaxCritiques
    OBVIOUS
  <2> QED
    BY <2>6, <2>8, <2>9, MaxCritiquesAssumption
<1>5. ASSUME NEW i \in 1 .. Len(ch)
      PROVE  \E s \in newest : ch[i] = Entry(s.iteration, s.text)
  <2> DEFINE s == [critic |-> Critic[t], iteration |-> ch[i].iteration, text |-> ch[i].text]
  <2>1. s \in all /\ Cardinality(Later(all, s.iteration)) = Len(ch) - i
    BY <1>1
  <2>2. Len(ch) - i < MaxCritiques
    <3>1. Len(ch) <= MaxCritiques /\ Len(ch) \in Nat /\ MaxCritiques \in Nat
      BY <1>1, <1>3, MaxCritiquesAssumption
    <3> QED
      BY <3>1
  <2>3. s \in newest
    BY <2>1, <2>2
  <2>4. ch[i] = Entry(s.iteration, s.text)
    BY <1>3 DEF Entry, Entries
  <2> QED
    BY <2>3, <2>4
<1>6. {Entry(s.iteration, s.text) : s \in newest} = ToSet(ch)
  <2> HIDE DEF newest
  <2>1. ToSet(ch) = {ch[i] : i \in 1 .. Len(ch)}
    BY <1>3 DEF ToSet
  <2> QED
    BY <1>4, <1>5, <2>1
<1>7. \A i, j \in DOMAIN ch : i < j => ch[i].iteration < ch[j].iteration
  BY <1>1 DEF Increasing
<1> QED
  BY <1>6, <1>7 DEF all, ch, Of, Later, Entry

(* However often the loop restarts and its critics speak, each target sees  *)
(* the newest critiques of its own critic, in order, without a gap          *)
(* (ChannelIsRecentHistory).                                               *)
THEOREM ChannelHolds == Spec => []ChannelIsRecentHistory
<1>1. ChannelInv => ChannelIsRecentHistory
  BY ChannelIsNewest DEF ChannelIsRecentHistory
<1> QED
  BY <1>1, ChannelInit, ChannelStep, PTL DEF Spec
=============================================================================
