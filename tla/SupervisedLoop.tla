--------------------------- MODULE SupervisedLoop ---------------------------
(***************************************************************************)
(* A looping parent pipeline: in each iteration its manager and folder      *)
(* nodes run children and its critics speak; the restart of the loop        *)
(* (engine.py, step 6) clears the label and collects the critiques.         *)
(***************************************************************************)
EXTENDS ChildPipelines, Feedback

CONSTANT LongLoops     \* bound: the managers whose loop restarts more than once

vars == <<childVars, feedbackVars>>

Init == ChildInit /\ FeedbackInit

Restart ==
  /\ phase = "parent"
  /\ iteration = 0 \/ manager \in LongLoops
  /\ LoopRestart
  /\ parent' = [parent EXCEPT !.label = ""]
  /\ UNCHANGED <<fixed, phase, cycle, walkVars, observed>>

CriticRuns(c, text) ==
  /\ phase = "parent"
  /\ CriticSays(c, text)
  /\ UNCHANGED childVars

Next ==
  \/ (ManagerStep \/ ParentStep \/ Cancel) /\ UNCHANGED feedbackVars
  \/ Restart
  \/ \E c \in Critics, text \in Texts : CriticRuns(c, text)

Spec == Init /\ [][Next]_vars

(* Handlers of child nodes answer and child engines end (PipelineEngine's   *)
(* Termination): asyncio runs the manager's task.  Nothing makes the parent *)
(* enter a node.                                                           *)
FairSpec ==
  /\ Spec
  /\ WF_vars(ManagerStep /\ UNCHANGED feedbackVars)

-----------------------------------------------------------------------------
(* Properties *)

TypeOK ==
  /\ phase \in {"parent", "cycle", "walking", "folder", "dotfile", "observed"}
  /\ parent \in Context /\ child \in Context
  /\ cycle \in 0 .. manager.maxCycles /\ Len(observed) <= cycle
  /\ walk.steps \in 0 .. Budget
  /\ iteration \in 0 .. MaxIterations

(* A child never routes by a verdict it did not reach: the label its        *)
(* conditions read was given by one of its own nodes since this cycle (or   *)
(* this folder run) began, or seeded by the node that runs it, never left   *)
(* over from the parent or from the cycle before.                          *)
LabelFromThisChild ==
  phase \in {"walking", "folder"} => child.label \in given \cup {""}

(* What a manager answers is what its last child answered: it succeeds only *)
(* right after a cycle whose outcome met the guard, no earlier cycle met    *)
(* it, and it gives up only after every cycle it may run.                  *)
ManagerVerdict ==
  [][phase # "parent" /\ phase # "folder" /\ phase' = "parent" =>
       LET good(o) == IF manager.stop = {} THEN o.status \in {"success", "partial_success"}
                      ELSE \A c \in manager.stop : ClauseHolds(c, o, parent)
       IN  /\ \A i \in 1 .. Len(observed) - 1 : ~good(observed[i])
           /\ \/ observed # <<>> /\ good(Latest) /\ parent'.outcome = Latest.status
              \/ /\ \A i \in DOMAIN observed : ~good(observed[i])
                 /\ Len(observed) = manager.maxCycles /\ parent'.outcome = "fail"]_vars

(* Each target sees the newest critiques of its own critic and of no other, *)
(* in order, under the number of the iteration in which they were made,     *)
(* none twice, none left out between them.                                 *)
ChannelIsRecentHistory ==
  \A t \in Targets :
    LET all == {s \in spoken : s.critic = Critic[t]}
        newest == {s \in all : Cardinality({r \in all : r.iteration > s.iteration}) < MaxCritiques}
    IN  /\ {[iteration |-> s.iteration, text |-> s.text] : s \in newest} = ToSet(channel[t])
        /\ \A i, j \in DOMAIN channel[t] :
             i < j => channel[t][i].iteration < channel[t][j].iteration

(* A manager that has started ends, whatever its children answer, under any *)
(* stop condition, and with the run cancelled.                             *)
ManagerEnds == phase = "cycle" ~> phase = "parent"

=============================================================================
