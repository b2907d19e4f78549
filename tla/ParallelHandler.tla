-------------------------- MODULE ParallelHandler --------------------------
(***************************************************************************)
(* A parallel node (handlers/parallel.py) and the fan-in node behind it     *)
(* (handlers/fan_in.py).                                                   *)
(*                                                                         *)
(* Every branch is an asyncio task; the handler is one more.  Which of the  *)
(* four dispatchers runs follows from the two policies: fail_fast and       *)
(* first_success stop at the first branch that ends in a certain way,       *)
(* k_of_n counts, everything else gathers.  The first three wait with       *)
(* asyncio.wait: a wake hands over all branches that ended meanwhile, as a  *)
(* set that is then walked in any order.                                   *)
(*                                                                         *)
(* task[b]:                                                                 *)
(*   new        created, not started                                        *)
(*   queued     waiting for the semaphore                                   *)
(*   running    in run_subgraph                                             *)
(*   a status   ended with this outcome, FAIL for an exception              *)
(*   bailed     not started because fail_fast had seen a failure            *)
(*   cancelled                                                              *)
(* phase:                                                                   *)
(*   waiting    in asyncio.wait or asyncio.gather                           *)
(*   collecting the rest is cancelled, waiting for it to end                *)
(*   joining    parallel.results is stored, PARALLEL_COMPLETED going out    *)
(*   returned   the join policy has given its verdict                       *)
(*   evaluated  the fan-in handler has given its verdict                    *)
(*   expiring   the node's timeout has cancelled what gather waits for      *)
(*   timed_out  the node's timeout has ended the handler                    *)
(***************************************************************************)
EXTENDS Integers, FiniteSets

CONSTANTS
  Branches,    \* the outgoing edges of the node
  Configs      \* the attributes the two nodes may have

Statuses == {"success", "partial_success", "retry", "skipped", "fail"}
Succeeded == {"success", "partial_success"}

(* numerator / denominator is quorum_fraction; backend says whether the     *)
(* fan-in node has a prompt and a backend to put it to.                    *)
Config ==
  [error: {"continue", "fail_fast", "ignore"},
   join: {"wait_all", "first_success", "k_of_n", "quorum"},
   minSuccess: Int, numerator: Nat, denominator: Nat \ {0},
   maxParallel: Nat \ {0}, backend: BOOLEAN]

ASSUME BranchesAssumption == IsFiniteSet(Branches) /\ Branches # {}
ASSUME ConfigsAssumption == Configs \subseteq Config

VARIABLES
  config,      \* never changes
  task,
  phase,
  pending,     \* tasks the dispatcher has not collected
  cancelled,   \* whether the pending tasks have been asked to stop
  results,     \* branches whose result the dispatcher has appended
  stored,      \* parallel.results in the parent's context
  verdict,     \* status of the node's outcome
  winner       \* parallel.fan_in.best_id, and the fan-in node's status

vars == <<config, task, phase, pending, cancelled, results, stored, verdict, winner>>

None == "none"
NoWinner == [branch |-> None, status |-> None]

Init ==
  /\ config \in Configs
  /\ task = [b \in Branches |-> "new"]
  /\ phase = "waiting"
  /\ pending = Branches
  /\ cancelled = FALSE
  /\ results = {} /\ stored = {}
  /\ verdict = None /\ winner = NoWinner

-----------------------------------------------------------------------------
(* Branch tasks *)

Ended(b) == task[b] \in Statuses \cup {"bailed", "cancelled"}
Active(b) == ~Ended(b)
Holding == {b \in Branches : task[b] = "running"}
Permit == Cardinality(Holding) < config.maxParallel

(* failure_event: set in the step in which a branch ends in FAIL.           *)
FailureEvent == config.error = "fail_fast" /\ \E b \in Branches : task[b] = "fail"
Asked(b) == cancelled /\ b \in pending

Becomes(b, s) ==
  /\ task' = [task EXCEPT ![b] = s]
  /\ UNCHANGED <<config, phase, pending, cancelled, results, stored, verdict, winner>>

Bail(b) == task[b] = "new" /\ ~Asked(b) /\ FailureEvent /\ Becomes(b, "bailed")

Start(b) ==
  /\ task[b] = "new" /\ ~Asked(b) /\ ~FailureEvent
  /\ Becomes(b, IF Permit THEN "running" ELSE "queued")

Acquire(b) == task[b] = "queued" /\ ~Asked(b) /\ Permit /\ Becomes(b, "running")

(* A running branch may finish although it was asked to stop: the handler   *)
(* in it may swallow the cancellation, as AgentSession does around tools.  *)
Finish(b) == task[b] = "running" /\ \E s \in Statuses : Becomes(b, s)

(* A plausible slip: a branch behind the semaphore does not hear the cancellation. *)
StopRunning(b) == Asked(b) /\ task[b] = "running" /\ Becomes(b, "cancelled")

Stop(b) == Asked(b) /\ Active(b) /\ Becomes(b, "cancelled")

BranchStep(b) == Bail(b) \/ Start(b) \/ Acquire(b) \/ Finish(b) \/ Stop(b)

-----------------------------------------------------------------------------
(* The join policies *)

Successes(rs) == {b \in rs : task[b] \in Succeeded}
Failures(rs) == {b \in rs : task[b] = "fail"}

(* A plausible slip: rounds the quorum down.                              *)
NeededFloor(total) == (total * config.numerator) \div config.denominator

(* math.ceil(total * fraction)                                              *)
Needed(total) == (total * config.numerator + config.denominator - 1) \div config.denominator

Satisfied(rs) ==
  CASE config.join = "first_success" -> Successes(rs) # {}
    [] config.join = "k_of_n" -> Cardinality(Successes(rs)) >= config.minSuccess
    [] config.join = "quorum" -> Cardinality(Successes(rs)) >= Needed(Cardinality(rs))
    [] OTHER -> Failures(rs) = {}

(* _apply_join_policy                                                       *)
Join(rs) ==
  IF rs = {} \/ Satisfied(rs) THEN "success"
  ELSE IF config.join = "wait_all" THEN "partial_success"
  ELSE "fail"

(* error_policy=ignore filters before the results are stored.               *)
Kept(rs) == IF config.error = "ignore" THEN Successes(rs) ELSE rs

-----------------------------------------------------------------------------
(* The dispatchers *)

Gathers == config.error # "fail_fast" /\ config.join \in {"wait_all", "quorum"}
Counts == config.error # "fail_fast" /\ config.join = "k_of_n"
StopsAt(b) ==
  IF config.error = "fail_fast" THEN task[b] = "fail"
  ELSE config.join = "first_success" /\ task[b] \in Succeeded

Finished(bs) == {b \in bs : task[b] \in Statuses}
Batch == {b \in pending : Ended(b)}
Wakes == phase = "waiting" /\ Batch # {} /\ ~Gathers

(* The end of every dispatcher: execute stores what it returns.             *)
Store(rs) ==
  /\ phase' = "joining"
  /\ results' = rs /\ stored' = Kept(rs)
  /\ UNCHANGED <<config, task, pending, cancelled, verdict, winner>>

(* A plausible slip: cancels and returns at once.                         *)
CancelAndGo(rs) ==
  /\ pending' = pending \ Batch
  /\ cancelled' = TRUE
  /\ phase' = "joining"
  /\ results' = rs /\ stored' = Kept(rs)
  /\ UNCHANGED <<config, task, verdict, winner>>

(* Cancels the tasks still pending and waits for them, if there are any.    *)
CancelRest(rs) ==
  /\ pending' = pending \ Batch
  /\ cancelled' = TRUE
  /\ results' = rs
  /\ IF pending' = {}
     THEN phase' = "joining" /\ stored' = Kept(rs)
     ELSE phase' = "collecting" /\ UNCHANGED stored
  /\ UNCHANGED <<config, task, verdict, winner>>

(* Goes back to asyncio.wait, if tasks are left.                            *)
WaitOn(rs) ==
  /\ pending' = pending \ Batch
  /\ results' = rs
  /\ IF pending' = {}
     THEN phase' = "joining" /\ stored' = Kept(rs)
     ELSE UNCHANGED <<phase, stored>>
  /\ UNCHANGED <<config, task, cancelled, verdict, winner>>

(* asyncio.gather hands over all results at once.                           *)
Gather ==
  /\ phase = "waiting" /\ Gathers
  /\ \A b \in pending : Ended(b)
  /\ Store(pending)

(* _run_fail_fast and _run_first_success walk the batch and leave it at the *)
(* first branch that decides; what the walk has not reached is dropped.    *)
FirstDecides ==
  /\ Wakes /\ ~Counts
  /\ \E b \in Batch : \E before \in SUBSET {d \in Batch : ~StopsAt(d)} :
       StopsAt(b) /\ CancelRest(results \cup Finished(before) \cup {b})

NoneDecides ==
  /\ Wakes /\ ~Counts
  /\ \A b \in Batch : ~StopsAt(b)
  /\ WaitOn(results \cup Finished(Batch))

(* _run_k_of_n counts the whole batch, then asks twice.                     *)
Count(rs) == Cardinality(Successes(rs))
Met(rs) == Count(rs) >= config.minSuccess
(* A plausible slip: gives up when the rest would be just enough.         *)
ImpossibleEarly(rs, rest) == Count(rs) + Cardinality(rest) <= config.minSuccess
Impossible(rs, rest) == Count(rs) + Cardinality(rest) < config.minSuccess
Decided(rs, rest) == Met(rs) \/ Impossible(rs, rest)

CountBatch ==
  /\ Wakes /\ Counts
  /\ LET rs == results \cup Batch
     IN  IF Decided(rs, pending \ Batch) THEN CancelRest(rs) ELSE WaitOn(rs)

(* A plausible slip: drops what finished in spite of the cancellation.    *)
CollectNothing ==
  /\ phase = "collecting"
  /\ \A b \in pending : Ended(b)
  /\ Store(results)

(* What finished in spite of the cancellation is collected.                 *)
Collect ==
  /\ phase = "collecting"
  /\ \A b \in pending : Ended(b)
  /\ Store(results \cup Finished(pending))

Verdict ==
  /\ phase = "joining"
  /\ phase' = "returned"
  /\ verdict' = Join(stored)
  /\ UNCHANGED <<config, task, pending, cancelled, results, stored, winner>>

HandlerStep == Gather \/ FirstDecides \/ NoneDecides \/ CountBatch \/ Collect \/ Verdict

(* The node's timeout cancels the handler at its await.  gather passes this *)
(* on to its children and stays until the first of them ends cancelled, or  *)
(* all have ended some other way; asyncio.wait leaves them alone.          *)
Expire ==
  /\ phase \in {"waiting", "collecting", "joining"}
  /\ IF phase = "waiting" /\ Gathers
     THEN phase' = "expiring" /\ cancelled' = TRUE
     ELSE phase' = "timed_out" /\ UNCHANGED cancelled
  /\ UNCHANGED <<config, task, pending, results, stored, verdict, winner>>

GatherExpired ==
  /\ phase = "expiring"
  /\ (\E b \in pending : task[b] = "cancelled") \/ (\A b \in pending : Ended(b))
  /\ phase' = "timed_out"
  /\ UNCHANGED <<config, task, pending, cancelled, results, stored, verdict, winner>>

-----------------------------------------------------------------------------
(* Fan-in *)

(* A plausible slip: a branch that asks for a retry ranks behind one that failed. *)
RankRetryLast(s) ==
  CASE s = "success" -> 0
    [] s = "partial_success" -> 1
    [] s = "skipped" -> 2
    [] s = "fail" -> 3
    [] OTHER -> 4

Rank(s) ==
  CASE s = "success" -> 0
    [] s = "partial_success" -> 1
    [] s = "retry" -> 2
    [] s = "skipped" -> 3
    [] OTHER -> 4

(* _heuristic_select breaks ties by node id, which is any order here.       *)
Best(rs) == {b \in rs : \A d \in rs : Rank(task[b]) <= Rank(task[d])}

(* The backend may name any candidate; a wrong name or an exception of its  *)
(* falls back to the ranking.                                              *)
Candidates(rs) == IF config.backend THEN rs ELSE Best(rs)

FanIn ==
  /\ phase = "returned"
  /\ phase' = "evaluated"
  /\ IF stored = {}
     THEN winner' = [branch |-> None, status |-> "fail"]
     ELSE \E b \in Candidates(stored) :
            winner' = [branch |-> b,
                       status |-> IF task[b] = "fail" THEN "fail" ELSE "success"]
  /\ UNCHANGED <<config, task, pending, cancelled, results, stored, verdict>>

Next ==
  \/ \E b \in Branches : BranchStep(b)
  \/ HandlerStep \/ Expire \/ GatherExpired \/ FanIn

Spec == Init /\ [][Next]_vars

(* The event loop runs every task that can run, a branch comes to an end,   *)
(* and the engine goes on after the node; nothing has to time out.         *)
Fairness ==
  /\ \A b \in Branches : WF_vars(BranchStep(b))
  /\ WF_vars(HandlerStep) /\ WF_vars(GatherExpired) /\ WF_vars(FanIn)

FairSpec == Spec /\ Fairness

-----------------------------------------------------------------------------
(* Properties *)

Joined == phase \in {"joining", "returned", "evaluated"}

(* The semaphore never lets more than max_parallel branches run, those      *)
(* counted that were asked to stop and have not.                           *)
TypeOK ==
  /\ config \in Configs
  /\ task \in [Branches -> Statuses \cup {"new", "queued", "running", "bailed", "cancelled"}]
  /\ Cardinality(Holding) <= config.maxParallel
  /\ phase \in {"waiting", "collecting", "joining", "returned", "evaluated",
                "expiring", "timed_out"}
  /\ pending \subseteq Branches /\ results \subseteq Branches /\ stored \subseteq results
  /\ cancelled \in BOOLEAN
  /\ verdict \in Statuses \cup {None}
  /\ winner.branch \in stored \cup {None} /\ winner.status \in {None, "success", "fail"}

(* The spec's table of join policies that ask for successes, put to the     *)
(* branches themselves and not to what a dispatcher has kept of them.      *)
Holds(good) ==
  CASE config.join = "first_success" -> good # {}
    [] config.join = "k_of_n" -> Cardinality(good) >= config.minSuccess
    [] config.join = "quorum" ->
         Cardinality(good) * config.denominator >= Cardinality(Branches) * config.numerator

(* Under error_policy=continue the verdict is that of the table, although   *)
(* dispatchers leave early, drop what they have not looked at and collect   *)
(* what finishes late.  wait_all only asks that nothing failed.            *)
JoinExact ==
  config.error = "continue" /\ verdict # None =>
    verdict =
      IF config.join = "wait_all"
      THEN IF Failures(Branches) = {} THEN "success" ELSE "partial_success"
      ELSE IF Holds(Successes(Branches)) THEN "success" ELSE "fail"

(* Whatever the pending branches may still do, the table gives one answer.  *)
Settled ==
  LET good == Successes(Branches \ pending)
  IN  \A s, t \in SUBSET pending : Holds(good \cup s) = Holds(good \cup t)

(* No branch is cancelled whose outcome could change the verdict, and once  *)
(* none could, the handler does not go on waiting.                         *)
CancelsWhenSettled ==
  config.error # "fail_fast" /\ config.join \in {"first_success", "k_of_n"} =>
    /\ phase = "collecting" => Settled
    /\ phase = "waiting" /\ pending # Branches => ~Settled

(* When a dispatcher hands over its results no branch is left running:      *)
(* whoever was asked to stop has, or has finished in spite of it.  Nothing  *)
(* of the kind holds after the node's timeout, not even where it gathers.  *)
NoOrphans == Joined => \A b \in Branches : Ended(b)

(* Every branch that came to an end of its own is in parallel.results, also *)
(* when it did so after its cancellation, unless a walk was cut short.     *)
ResultsComplete ==
  Joined /\ (Gathers \/ Counts) => results = Finished(Branches)

(* The fan-in node succeeds with a candidate that did not fail, without a   *)
(* backend whenever there is one; and behind a join that asks for a success *)
(* its choice is a branch that succeeded.                                  *)
WinnerExact ==
  phase = "evaluated" =>
    /\ winner.status = "success" => winner.branch \in stored /\ task[winner.branch] # "fail"
    /\ ~config.backend => (winner.status = "fail" <=> stored \subseteq Failures(Branches))
    /\ /\ ~config.backend /\ config.error = "continue" /\ verdict = "success"
       /\ config.join = "first_success" \/ (config.join = "k_of_n" /\ config.minSuccess > 0)
       => task[winner.branch] \in Succeeded

(* Whatever the limit on parallel branches, and whoever is cancelled or     *)
(* not started, the handler comes back.                                    *)
HandlerEnds == <>(phase \in {"evaluated", "timed_out"})

-----------------------------------------------------------------------------
(* What the repository says of the handler, and the code does not do *)

=============================================================================
