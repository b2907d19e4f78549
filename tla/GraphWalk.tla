------------------------------ MODULE GraphWalk ------------------------------
(***************************************************************************)
(* What the author of a pipeline is promised: a walk over the graph.  Each  *)
(* node it comes to is decided or skipped once before the walk leaves it,   *)
(* and for a reason the table of verdicts shows.  It leaves along an edge,  *)
(* to where branches meet, or by a retry, of which there are only so many;  *)
(* what is forgotten on the way is forgotten as a whole.  It ends once, and *)
(* with success only at the exit, with every gate it remembers passed.      *)
(***************************************************************************)
EXTENDS PipelineGraph

CONSTANTS
  Maps,          \* the graphs
  Patience       \* retries of each kind

VARIABLES
  map, here,
  standing,      \* of the node the walk is at
  table,         \* the verdicts it remembers
  gateRetried, routeRetried,
  ending         \* the status it ends with

walk == <<map, here, standing, table, gateRetried, routeRetried, ending>>

Of(n) == map.attrs[n]
Ways == {e \in map.edges : e.from = here}
Blank == [n \in Nodes |-> NoOutcome]

WalkInit ==
  /\ map \in Maps /\ here = map.start
  /\ standing = "open"
  /\ table = Blank
  /\ gateRetried = 0 /\ routeRetried = 0
  /\ ending = "none"

-----------------------------------------------------------------------------
(* Deciding *)

(* What m was to produce is missing: it failed, or was passed by.          *)
Bad(m) ==
  \/ table[m].status = "fail"
  \/ table[m].status = "skipped" /\ \A o \in Of(m).results : o.status # "skipped"
Seen(m) == table[m] # NoOutcome

(* What makes the node at hand run, and what makes the walk pass it by.    *)
Called ==
  /\ Of(here).runsOn = "success" =>
       \A m \in map.nodes : Bad(m) => Of(m).outputs \cap Of(here).refs = {}
  /\ Of(here).runsOn = "failure" =>
       \E m \in map.nodes : Seen(m) /\ Of(m).outputs # {}
Excused ==
  \/ /\ Of(here).runsOn = "success"
     /\ \E m \in map.nodes : Seen(m) /\ Of(m).outputs \cap Of(here).refs # {}
  \/ /\ Of(here).runsOn = "failure"
     /\ \A m \in map.nodes : Bad(m) => Of(m).outputs = {}

Enter(o) ==
  /\ standing = "open" /\ ~Of(here).exit
  /\ table' = [table EXCEPT ![here] = o]
  /\ UNCHANGED <<map, here, gateRetried, routeRetried, ending>>

(* An explicit verdict is one of the node's own.                           *)
Decide ==
  /\ Called
  /\ table'[here] \in Outcome
  /\ table'[here].explicit => table'[here] \in Of(here).results
  /\ Enter(table'[here])
  /\ standing' = "decided"

Skip == Excused /\ Enter(Verdict("skipped", FALSE)) /\ standing' = "skipped"

-----------------------------------------------------------------------------
(* Moving on *)

Leave(n) ==
  /\ standing' = "open" /\ here' = n
  /\ UNCHANGED <<map, ending>>
Remember == UNCHANGED <<table, gateRetried, routeRetried>>
Forget == table' = Blank

(* After a failure a plain edge leads only to a node that is there for it.  *)
Leads(e) ==
  \/ table[here].status # "fail"
  \/ e.cond # {} \/ table[here].label # "" \/ table[here].suggest # <<>>
  \/ Of(e.to).runsOn \in {"always", "failure"}

Follow ==
  \E e \in Ways :
    /\ standing = "decided" /\ Leads(e) /\ Leave(e.to)
    /\ \/ ~e.restart /\ Remember
       \/ e.restart /\ Forget /\ gateRetried' = 0 /\ routeRetried' = 0

PassBy == standing = "skipped" /\ Remember /\ \E e \in Ways : Leave(e.to)

Meet ==
  /\ standing = "decided" /\ Of(here).component
  /\ \E n \in FanInNodes(map, {e.to : e \in Ways}) : Leave(n)
  /\ Remember

RetryRoute ==
  /\ standing \in {"decided", "skipped"}
  /\ routeRetried < Patience /\ routeRetried' = routeRetried + 1
  /\ FailureRetryTarget(map, here) # NoNode /\ Leave(FailureRetryTarget(map, here))
  /\ IF standing = "decided" THEN Forget ELSE UNCHANGED table
  /\ UNCHANGED gateRetried

(* The retry is the gate's own, or, with all of them passed, what a failed  *)
(* verdict suggests first.                                                 *)
Passed(n) == IsSuccess(table[n]) /\ table[n] \in Of(n).results
Unpassed == {n \in map.nodes : Of(n).gate /\ Seen(n) /\ ~(IsSuccess(table[n]) /\ table[n].explicit)}

RetryGate ==
  /\ standing = "open" /\ Of(here).exit
  /\ gateRetried < Patience /\ gateRetried' = gateRetried + 1
  /\ \E n \in map.nodes :
       /\ \/ \E g \in Unpassed : n = GateRetryTarget(map, g)
          \/ /\ Unpassed = {}
             /\ \E m \in map.nodes : /\ table[m].status = "fail" /\ table[m].suggest # <<>>
                                     /\ n = table[m].suggest[1]
       /\ Leave(n)
  /\ Forget /\ UNCHANGED routeRetried

-----------------------------------------------------------------------------
(* Ending *)

End ==
  /\ standing # "over" /\ standing' = "over"
  /\ IsSuccess([status |-> ending']) =>
       /\ standing = "open" /\ Of(here).exit
       /\ \A n \in map.nodes : Of(n).gate /\ Seen(n) => Passed(n)
  /\ ending' # "none"
  /\ UNCHANGED <<map, here, table, gateRetried, routeRetried>>

WalkNext == Decide \/ Skip \/ Follow \/ PassBy \/ Meet \/ RetryRoute \/ RetryGate \/ End

WalkSpec == WalkInit /\ [][WalkNext]_walk

=============================================================================
