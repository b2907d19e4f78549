----------------------- MODULE ParallelHandlerProofs -----------------------
(***************************************************************************)
(* The verdict of a parallel node, for any number of branches and any       *)
(* attributes.                                                             *)
(***************************************************************************)
EXTENDS ParallelHandler, FiniteSetTheorems, TLAPS

-----------------------------------------------------------------------------
(* Types *)

Points == Statuses \cup {"new", "queued", "running", "bailed", "cancelled"}

(* Beside its types: nothing is stored before the end of the dispatcher, no *)
(* verdict given before it is due, and no winner before there is one.      *)
TypeInv ==
  /\ TypeOK
  /\ phase \in {"waiting", "collecting", "expiring"} => stored = {} /\ verdict = None
  /\ phase = "joining" => verdict = None
  /\ phase # "evaluated" => winner = NoWinner

LEMMA TypeInit == Init => TypeInv
<1> SUFFICES ASSUME Init PROVE TypeInv
  OBVIOUS
<1>1. Holding = {}
  BY DEF Init, Holding
<1>2. Cardinality(Holding) <= config.maxParallel
  BY <1>1, FS_EmptySet, ConfigsAssumption DEF Init, Config
<1>3. task \in [Branches -> Points]
  BY DEF Init, Points
<1> QED
  BY <1>2, <1>3 DEF Init, TypeInv, TypeOK, Points, NoWinner, None

LEMMA HoldingFinite == IsFiniteSet(Holding) /\ Cardinality(Holding) \in Nat
BY FS_Subset, FS_CardinalityType, BranchesAssumption DEF Holding

(* What a step of a branch does to its own task and to nobody else.         *)
LEMMA BranchMoves ==
  ASSUME TypeInv, NEW b \in Branches, BranchStep(b)
  PROVE  /\ Active(b)
         /\ task'[b] \in Points /\ task' = [task EXCEPT ![b] = task'[b]]
         /\ \A d \in Branches : d # b => task'[d] = task[d]
         /\ task'[b] = "running" => Permit
         /\ task'[b] = "cancelled" => cancelled
         /\ task'[b] = "bailed" => config.error = "fail_fast"
         /\ task'[b] = "new" => FALSE
         /\ UNCHANGED <<config, phase, pending, cancelled, results, stored, verdict, winner>>
<1> USE DEF Becomes, Active, Ended, Points, Statuses
<1>1. task \in [Branches -> Points]
  BY DEF TypeInv, TypeOK
<1>2. CASE Bail(b)
  BY <1>1, <1>2 DEF Bail, FailureEvent
<1>3. CASE Start(b)
  BY <1>1, <1>3 DEF Start
<1>4. CASE Acquire(b)
  BY <1>1, <1>4 DEF Acquire
<1>5. CASE Finish(b)
  BY <1>1, <1>5 DEF Finish
<1>6. CASE Stop(b)
  BY <1>1, <1>6 DEF Stop, Asked
<1> QED
  BY <1>2, <1>3, <1>4, <1>5, <1>6 DEF BranchStep

LEMMA HoldingBound ==
  ASSUME TypeInv, NEW b \in Branches, BranchStep(b)
  PROVE  Cardinality(Holding') <= config.maxParallel
<1>1. /\ \A d \in Branches : d # b => task'[d] = task[d]
      /\ task'[b] = "running" => Permit
  BY BranchMoves
<1>2. config.maxParallel \in Nat /\ Cardinality(Holding) <= config.maxParallel
  BY ConfigsAssumption DEF TypeInv, TypeOK, Config
<1>3. CASE task'[b] = "running"
  <2>1. Holding' \subseteq Holding \cup {b}
    BY <1>1 DEF Holding
  <2>2. IsFiniteSet(Holding \cup {b}) /\ Cardinality(Holding \cup {b}) <= Cardinality(Holding) + 1
    <3>1. /\ IsFiniteSet(Holding \cup {b})
          /\ Cardinality(Holding \cup {b}) =
               IF b \in Holding THEN Cardinality(Holding) ELSE Cardinality(Holding) + 1
      BY HoldingFinite, FS_AddElement
    <3> QED
      BY <3>1, HoldingFinite
  <2>3. Cardinality(Holding') <= Cardinality(Holding \cup {b})
    BY <2>1, <2>2, FS_Subset
  <2>4. Cardinality(Holding) < config.maxParallel
    BY <1>1, <1>3 DEF Permit
  <2>5. Cardinality(Holding') \in Nat /\ Cardinality(Holding \cup {b}) \in Nat
    BY <2>1, <2>2, FS_Subset, FS_CardinalityType
  <2> QED
    BY <1>2, <2>2, <2>3, <2>4, <2>5, HoldingFinite
<1>4. CASE task'[b] # "running"
  <2>1. Holding' \subseteq Holding
    BY <1>1, <1>4 DEF Holding
  <2>2. Cardinality(Holding') <= Cardinality(Holding) /\ Cardinality(Holding') \in Nat
    BY <2>1, HoldingFinite, FS_Subset, FS_CardinalityType
  <2> QED
    BY <1>2, <2>2, HoldingFinite
<1> QED
  BY <1>3, <1>4

(* Where a dispatcher leaves off.                                           *)
LEMMA DispatcherTypes ==
  ASSUME TypeInv, NEW rs \in SUBSET Branches, phase \in {"waiting", "collecting"},
         Store(rs) \/ CancelRest(rs) \/ WaitOn(rs)
  PROVE  TypeInv'
<1>1. Kept(rs) \subseteq rs
  BY DEF Kept, Successes
<1>2. UNCHANGED <<config, task, verdict, winner>>
  BY DEF Store, CancelRest, WaitOn
<1>3. UNCHANGED Holding
  BY <1>2 DEF Holding
<1>4. /\ results' = rs
      /\ \/ phase' = "joining" /\ stored' = rs \cap Kept(rs)
         \/ phase' \in {"waiting", "collecting"} /\ stored' = stored
      /\ pending' \in SUBSET Branches /\ cancelled' \in BOOLEAN
  BY <1>1 DEF Store, CancelRest, WaitOn, TypeInv, TypeOK
<1>5. verdict = None /\ winner = NoWinner /\ stored = {}
  BY DEF TypeInv
<1> QED
  BY <1>2, <1>3, <1>4, <1>5 DEF TypeInv, TypeOK, NoWinner, None

LEMMA HandlerDispatches ==
  ASSUME TypeInv, HandlerStep
  PROVE  \/ Verdict
         \/ /\ phase \in {"waiting", "collecting"}
            /\ \E rs \in SUBSET Branches : Store(rs) \/ CancelRest(rs) \/ WaitOn(rs)
<1> USE DEF TypeInv, TypeOK
<1>1. Batch \in SUBSET Branches /\ \A bs \in SUBSET Branches : Finished(bs) \in SUBSET Branches
  BY DEF Batch, Finished
<1>2. CASE Gather
  BY <1>2 DEF Gather
<1>3. CASE FirstDecides
  <2>1. PICK b \in Batch, before \in SUBSET {d \in Batch : ~StopsAt(d)} :
          CancelRest(results \cup Finished(before) \cup {b})
    BY <1>3 DEF FirstDecides
  <2>2. results \cup Finished(before) \cup {b} \in SUBSET Branches
    BY <1>1 DEF Finished
  <2> QED
    BY <1>3, <2>1, <2>2 DEF FirstDecides, Wakes
<1>4. CASE NoneDecides
  <2>1. results \cup Finished(Batch) \in SUBSET Branches
    BY <1>1
  <2> QED
    BY <1>4, <2>1 DEF NoneDecides, Wakes
<1>5. CASE CountBatch
  <2>1. results \cup Batch \in SUBSET Branches
    BY <1>1
  <2> QED
    BY <1>5, <2>1 DEF CountBatch, Wakes
<1>6. CASE Collect
  <2>1. results \cup Finished(pending) \in SUBSET Branches
    BY <1>1
  <2> QED
    BY <1>6, <2>1 DEF Collect
<1> QED
  BY <1>2, <1>3, <1>4, <1>5, <1>6 DEF HandlerStep

LEMMA TypeStep == TypeInv /\ [Next]_vars => TypeInv'
<1> SUFFICES ASSUME TypeInv, [Next]_vars PROVE TypeInv'
  OBVIOUS
<1>1. ASSUME NEW b \in Branches, BranchStep(b)
      PROVE  TypeInv'
  <2>1. task' \in [Branches -> Points]
    BY <1>1, BranchMoves DEF TypeInv, TypeOK, Points
  <2>2. UNCHANGED <<config, phase, pending, cancelled, results, stored, verdict, winner>>
    BY <1>1, BranchMoves
  <2>3. Cardinality(Holding') <= config.maxParallel
    BY <1>1, HoldingBound
  <2> QED
    BY <2>1, <2>2, <2>3 DEF TypeInv, TypeOK, Points, NoWinner
<1>2. CASE HandlerStep
  <2>1. CASE Verdict
    <3>1. UNCHANGED Holding
      BY <2>1 DEF Verdict, Holding
    <3>2. Join(stored) \in Statuses
      BY DEF Join, Statuses
    <3> QED
      BY <2>1, <3>1, <3>2 DEF Verdict, TypeInv, TypeOK, NoWinner
  <2> QED
    BY <1>2, <2>1, HandlerDispatches, DispatcherTypes
<1>3. CASE Expire
  <2>1. UNCHANGED Holding
    BY <1>3 DEF Expire, Holding
  <2> QED
    BY <1>3, <2>1 DEF Expire, TypeInv, TypeOK, NoWinner
<1>4. CASE GatherExpired
  <2>1. UNCHANGED Holding
    BY <1>4 DEF GatherExpired, Holding
  <2> QED
    BY <1>4, <2>1 DEF GatherExpired, TypeInv, TypeOK, NoWinner
<1>5. CASE FanIn
  <2>1. UNCHANGED Holding
    BY <1>5 DEF FanIn, Holding
  <2>2. Candidates(stored) \subseteq stored
    BY DEF Candidates, Best
  <2>3. winner'.branch \in stored \cup {None} /\ winner'.status \in {"success", "fail"}
    BY <1>5, <2>2 DEF FanIn
  <2>4. /\ phase' = "evaluated"
        /\ UNCHANGED <<config, task, pending, cancelled, results, stored, verdict>>
    BY <1>5 DEF FanIn
  <2> QED
    BY <2>1, <2>3, <2>4 DEF TypeInv, TypeOK
<1>6. CASE UNCHANGED vars
  <2>1. UNCHANGED Holding
    BY <1>6 DEF vars, Holding
  <2> QED
    BY <1>6, <2>1 DEF vars, TypeInv, TypeOK
<1> QED
  BY <1>1, <1>2, <1>3, <1>4, <1>5, <1>6 DEF Next

LEMMA TypeAlways == Spec => []TypeInv
BY TypeInit, TypeStep, PTL DEF Spec

(* Every variable of the handler keeps its type, and the semaphore is never *)
(* held by more than max_parallel branches.                                *)
THEOREM ParallelTypes == Spec => []TypeOK
<1>1. TypeInv => TypeOK
  BY DEF TypeInv
<1> QED
  BY <1>1, TypeAlways, PTL

-----------------------------------------------------------------------------
(* What the dispatchers leave behind *)

(* A branch the dispatcher has collected is at its end; only those asked to *)
(* stop are cancelled, and gather asks nobody unless it expires.           *)
DispatchInv ==
  /\ \A b \in Branches \ pending : Ended(b)
  /\ phase = "waiting" => ~cancelled
  /\ ~cancelled => \A b \in Branches : task[b] # "cancelled"
  /\ config.error # "fail_fast" => \A b \in Branches : task[b] # "bailed"
  /\ phase = "expiring" => Gathers
  /\ Gathers => phase # "collecting" /\ pending = Branches
  /\ Gathers /\ phase \in {"waiting", "joining", "returned", "evaluated"} => ~cancelled
  /\ NoOrphans

LEMMA DispatchInit == Init => DispatchInv
BY DEF Init, DispatchInv, NoOrphans, Joined

LEMMA DispatchStep == TypeInv /\ DispatchInv /\ [Next]_vars => DispatchInv'
<1> SUFFICES ASSUME TypeInv, DispatchInv, [Next]_vars PROVE DispatchInv'
  OBVIOUS
<1> USE DEF Gathers, Joined
<1>0. pending \subseteq Branches /\ task \in [Branches -> Points]
  BY DEF TypeInv, TypeOK, Points
<1>1. ASSUME NEW b \in Branches, BranchStep(b)
      PROVE  DispatchInv'
  <2>1. /\ Active(b)
        /\ \A d \in Branches : d # b => task'[d] = task[d]
        /\ task'[b] = "cancelled" => cancelled
        /\ task'[b] = "bailed" => config.error = "fail_fast"
        /\ UNCHANGED <<config, phase, pending, cancelled>>
    BY <1>1, BranchMoves
  <2>2. b \in pending /\ \A d \in Branches : Ended(d) => Ended(d)'
    BY <2>1 DEF DispatchInv, Active, Ended
  <2>3. NoOrphans'
    BY <2>1, <2>2 DEF DispatchInv, NoOrphans
  <2> QED
    BY <2>1, <2>2, <2>3 DEF DispatchInv
<1>2. ASSUME NEW rs, CancelRest(rs), Wakes
      PROVE  DispatchInv'
  <2>1. /\ UNCHANGED <<config, task>> /\ cancelled' = TRUE /\ ~Gathers
        /\ pending' = pending \ Batch /\ phase' \in {"joining", "collecting"}
        /\ phase' = "joining" => pending' = {}
    BY <1>2 DEF CancelRest, Wakes
  <2>2. \A b \in Branches \ pending' : Ended(b)'
    BY <2>1 DEF DispatchInv, Batch, Ended
  <2> QED
    BY <2>1, <2>2 DEF DispatchInv, NoOrphans
<1>3. ASSUME NEW rs, WaitOn(rs), Wakes
      PROVE  DispatchInv'
  <2>1. /\ UNCHANGED <<config, task, cancelled>> /\ ~Gathers
        /\ pending' = pending \ Batch /\ phase' \in {"joining", "waiting"} /\ phase = "waiting"
        /\ phase' = "joining" => pending' = {}
    BY <1>3 DEF WaitOn, Wakes
  <2>2. \A b \in Branches \ pending' : Ended(b)'
    BY <2>1 DEF DispatchInv, Batch, Ended
  <2> QED
    BY <2>1, <2>2 DEF DispatchInv, NoOrphans
<1>4. ASSUME NEW rs, Store(rs), \A b \in pending : Ended(b), phase \in {"waiting", "collecting"}
      PROVE  DispatchInv'
  <2>1. UNCHANGED <<config, task, cancelled, pending>> /\ phase' = "joining"
    BY <1>4 DEF Store
  <2>2. \A b \in Branches : Ended(b)'
    BY <2>1, <1>4 DEF DispatchInv, Ended
  <2> QED
    BY <1>4, <2>1, <2>2 DEF DispatchInv, NoOrphans
<1>5. CASE Verdict \/ FanIn
  <2>1. /\ UNCHANGED <<config, task, cancelled, pending>>
        /\ phase \in {"joining", "returned"} /\ phase' \in {"returned", "evaluated"}
    BY <1>5 DEF Verdict, FanIn
  <2>2. \A b \in Branches : Ended(b)'
    BY <2>1 DEF DispatchInv, NoOrphans, Ended
  <2> QED
    BY <2>1, <2>2 DEF DispatchInv, NoOrphans, Ended
<1>6. CASE Expire \/ GatherExpired
  <2>1. UNCHANGED <<config, task, pending>> /\ \A b \in Branches : Ended(b)' <=> Ended(b)
    BY <1>6 DEF Expire, GatherExpired, Ended
  <2>2. CASE Expire
    BY <2>1, <2>2 DEF Expire, DispatchInv, NoOrphans
  <2>3. CASE GatherExpired
    BY <2>1, <2>3 DEF GatherExpired, DispatchInv, NoOrphans
  <2> QED
    BY <1>6, <2>2, <2>3
<1>7. CASE UNCHANGED vars
  BY <1>7 DEF vars, DispatchInv, NoOrphans, Ended
<1> QED
  <2>1. CASE HandlerStep
    BY <2>1, <1>2, <1>3, <1>4, <1>5
       DEF HandlerStep, Gather, FirstDecides, NoneDecides, CountBatch, Collect, Wakes
  <2> QED
    BY <2>1, <1>1, <1>5, <1>6, <1>7 DEF Next

LEMMA DispatchAlways == Spec => []DispatchInv
BY TypeAlways, DispatchInit, DispatchStep, PTL DEF Spec

(* A parallel node that hands over its results has no branch running,       *)
(* whichever dispatcher it used and whoever was asked to stop.             *)
THEOREM NoOrphansHold == Spec => []NoOrphans
<1>1. DispatchInv => NoOrphans
  BY DEF DispatchInv
<1> QED
  BY <1>1, DispatchAlways, PTL

-----------------------------------------------------------------------------
(* What is in the results *)

(* The dispatchers that count or gather keep every branch that came to an   *)
(* end of its own; the one for first_success may drop some, but only next   *)
(* to one that succeeded.  Whoever stops early has seen something.          *)
ResultsInv ==
  /\ results \subseteq Finished(Branches)
  /\ Counts /\ phase \in {"waiting", "collecting"} => results = Finished(Branches \ pending)
  /\ ResultsComplete
  /\ config.error # "fail_fast" /\ config.join = "first_success" =>
       /\ phase = "waiting" => results = Finished(Branches \ pending)
       /\ phase = "collecting" => Successes(results) # {}
       /\ Joined => results = Finished(Branches) \/ Successes(results) # {}
  /\ config.error # "fail_fast" /\ (phase = "collecting" \/ Joined) => results # {}
  /\ Joined => stored = Kept(results)
  /\ verdict # None => Joined /\ verdict = Join(stored)

LEMMA FinishedFacts ==
  /\ \A bs, cs : Finished(bs \cup cs) = Finished(bs) \cup Finished(cs)
  /\ \A bs : Finished(bs) \subseteq bs
  /\ \A bs, cs : bs \subseteq cs => Finished(bs) \subseteq Finished(cs)
BY DEF Finished

LEMMA ResultsInit == Init => ResultsInv
<1> SUFFICES ASSUME Init PROVE ResultsInv
  OBVIOUS
<1>1. Finished(Branches \ pending) = {}
  BY DEF Init, Finished
<1> QED
  BY <1>1 DEF Init, ResultsInv, ResultsComplete, Joined

(* A branch that moves is not among the results, and afterwards it is       *)
(* where it was among those still pending.                                 *)
LEMMA ResultsBranch ==
  ASSUME TypeInv, DispatchInv, ResultsInv, NEW b \in Branches, BranchStep(b)
  PROVE  ResultsInv'
<1>1. /\ Active(b)
      /\ \A d \in Branches : d # b => task'[d] = task[d]
      /\ UNCHANGED <<config, phase, pending, cancelled, results, stored, verdict, winner>>
  BY BranchMoves
<1>2. b \in pending /\ b \notin results /\ pending \subseteq Branches /\ results \subseteq Branches
  BY <1>1 DEF DispatchInv, ResultsInv, Active, Ended, Finished, TypeInv, TypeOK
<1>3. ~Joined
  BY <1>1 DEF DispatchInv, NoOrphans, Active
<1>4. /\ Finished(Branches) \subseteq Finished(Branches)'
      /\ Finished(Branches \ pending)' = Finished(Branches \ pending)
      /\ Successes(results)' = Successes(results)
  BY <1>1, <1>2 DEF Finished, Successes, Active, Ended
<1> QED
  BY <1>1, <1>3, <1>4 DEF ResultsInv, ResultsComplete, Joined, Counts

(* A wake of a dispatcher.  What it hands over has finished, since nobody   *)
(* has been cancelled yet.                                                 *)
LEMMA BatchFacts ==
  ASSUME TypeInv, DispatchInv, Wakes
  PROVE  /\ Batch \subseteq pending /\ Batch # {} /\ Finished(Batch) \subseteq Batch
         /\ config.error # "fail_fast" => Finished(Batch) = Batch
         /\ Finished(Branches \ (pending \ Batch)) = Finished(Branches \ pending) \cup Finished(Batch)
<1>1. Batch \subseteq pending /\ pending \subseteq Branches /\ Batch # {}
  BY DEF Batch, Wakes, TypeInv, TypeOK
<1>2. \A b \in Branches : task[b] # "cancelled"
  BY DEF Wakes, DispatchInv
<1>3. ASSUME config.error # "fail_fast" PROVE Finished(Batch) = Batch
  BY <1>1, <1>2, <1>3 DEF DispatchInv, Batch, Ended, Finished
<1>4. Branches \ (pending \ Batch) = (Branches \ pending) \cup Batch
  BY <1>1
<1> QED
  BY <1>1, <1>3, <1>4, FinishedFacts

LEMMA ResultsWake ==
  ASSUME TypeInv, DispatchInv, ResultsInv, FirstDecides \/ NoneDecides \/ CountBatch
  PROVE  ResultsInv'
<1> USE DEF Joined, Counts, Gathers
<1>0. Wakes
  BY DEF FirstDecides, NoneDecides, CountBatch
<1>1. /\ Batch \subseteq pending /\ Batch # {} /\ Finished(Batch) \subseteq Batch
      /\ config.error # "fail_fast" => Finished(Batch) = Batch
      /\ Finished(Branches \ (pending \ Batch)) = Finished(Branches \ pending) \cup Finished(Batch)
  BY <1>0, BatchFacts
<1>2. phase = "waiting" /\ ~Gathers /\ verdict = None /\ pending \subseteq Branches
  BY <1>0 DEF Wakes, TypeInv, TypeOK
<1>3. results \subseteq Finished(Branches) /\ Finished(Batch) \subseteq Finished(Branches)
  BY <1>1, <1>2, FinishedFacts DEF ResultsInv
<1>4. ASSUME CountBatch PROVE ResultsInv'
  <2> DEFINE rs == results \cup Batch
  <2>1. Counts /\ config.error # "fail_fast" /\ config.join = "k_of_n"
    BY <1>4 DEF CountBatch
  <2>2. /\ rs = Finished(Branches \ (pending \ Batch)) /\ rs # {}
        /\ rs \subseteq Finished(Branches)
    BY <1>1, <1>2, <1>3, <2>1 DEF ResultsInv
  <2>3. CancelRest(rs) \/ WaitOn(rs)
    BY <1>4 DEF CountBatch
  <2>4. /\ UNCHANGED <<config, task, verdict>> /\ results' = rs /\ pending' = pending \ Batch
        /\ \/ phase' = "joining" /\ stored' = Kept(rs) /\ pending' = {}
           \/ phase' \in {"waiting", "collecting"}
    BY <1>2, <2>3 DEF CancelRest, WaitOn
  <2>5. pending' = {} => rs = Finished(Branches)
    <3>1. ASSUME pending' = {} PROVE Branches \ (pending \ Batch) = Branches
      BY <2>4, <3>1
    <3> QED
      BY <2>2, <3>1
  <2>6. Finished(Branches \ pending)' = rs /\ Finished(Branches)' = Finished(Branches)
    BY <2>2, <2>4 DEF Finished
  <2>7. Kept(results)' = Kept(rs)
    BY <2>4 DEF Kept, Successes
  <2> QED
    BY <1>2, <2>1, <2>2, <2>4, <2>5, <2>6, <2>7 DEF ResultsInv, ResultsComplete
<1>5. ASSUME FirstDecides PROVE ResultsInv'
  <2>1. PICK b \in Batch, before \in SUBSET {d \in Batch : ~StopsAt(d)} :
          StopsAt(b) /\ CancelRest(results \cup Finished(before) \cup {b})
    BY <1>5 DEF FirstDecides
  <2> DEFINE rs == results \cup Finished(before) \cup {b}
  <2>2. b \in Finished(Branches)
    BY <1>1, <1>2, <2>1 DEF StopsAt, Finished, Statuses, Succeeded
  <2>3. rs \subseteq Finished(Branches) /\ rs # {}
    BY <1>1, <1>2, <1>3, <2>2, FinishedFacts
  <2>4. ~Counts
    BY <1>5 DEF FirstDecides
  <2>5. config.error # "fail_fast" => Successes(rs) # {}
    BY <2>1 DEF StopsAt, Successes
  <2>6. /\ UNCHANGED <<config, task, verdict>> /\ results' = rs
        /\ \/ phase' = "joining" /\ stored' = Kept(rs)
           \/ phase' = "collecting"
    BY <2>1 DEF CancelRest
  <2>7. /\ Finished(Branches)' = Finished(Branches) /\ Kept(results)' = Kept(rs)
        /\ Successes(results)' = Successes(rs)
    BY <2>6 DEF Finished, Kept, Successes
  <2> QED
    BY <1>2, <2>3, <2>4, <2>5, <2>6, <2>7 DEF ResultsInv, ResultsComplete
<1>6. ASSUME NoneDecides PROVE ResultsInv'
  <2> DEFINE rs == results \cup Finished(Batch)
  <2>1. WaitOn(rs) /\ ~Counts
    BY <1>6 DEF NoneDecides
  <2>2. rs \subseteq Finished(Branches)
    BY <1>3
  <2>3. config.error # "fail_fast" => config.join = "first_success" /\ rs # {}
    BY <1>1, <1>2, <2>1, ConfigsAssumption DEF TypeInv, TypeOK, Config
  <2>4. config.error # "fail_fast" => rs = Finished(Branches \ (pending \ Batch))
    BY <1>1, <1>2, <2>3 DEF ResultsInv
  <2>5. /\ UNCHANGED <<config, task, verdict>> /\ results' = rs /\ pending' = pending \ Batch
        /\ \/ phase' = "joining" /\ stored' = Kept(rs) /\ pending' = {}
           \/ phase' = "waiting"
    BY <1>2, <2>1 DEF WaitOn
  <2>6. config.error # "fail_fast" /\ pending' = {} => rs = Finished(Branches)
    <3>1. ASSUME pending' = {} PROVE Branches \ (pending \ Batch) = Branches
      BY <2>5, <3>1
    <3> QED
      BY <2>4, <3>1
  <2>7. /\ Finished(Branches)' = Finished(Branches) /\ Kept(results)' = Kept(rs)
        /\ config.error # "fail_fast" => Finished(Branches \ pending)' = rs
    BY <2>4, <2>5 DEF Finished, Kept, Successes
  <2> QED
    BY <1>2, <2>1, <2>2, <2>3, <2>5, <2>6, <2>7 DEF ResultsInv, ResultsComplete
<1> QED
  BY <1>4, <1>5, <1>6

LEMMA ResultsCollect ==
  ASSUME TypeInv, DispatchInv, ResultsInv, Gather \/ Collect
  PROVE  ResultsInv'
<1> USE DEF Joined, Counts, Gathers
<1>1. PICK rs : /\ Store(rs)
                /\ \/ Gather /\ rs = pending
                   \/ Collect /\ rs = results \cup Finished(pending)
  BY DEF Gather, Collect
<1>2. /\ UNCHANGED <<config, task, verdict>> /\ results' = rs
      /\ phase' = "joining" /\ stored' = Kept(rs)
  BY <1>1 DEF Store
<1>3. Finished(Branches)' = Finished(Branches) /\ Kept(results)' = Kept(rs)
      /\ Successes(results)' = Successes(rs)
  BY <1>2 DEF Finished, Kept, Successes
<1>4. verdict = None /\ pending \subseteq Branches
  BY <1>1 DEF Gather, Collect, TypeInv, TypeOK
<1>5. CASE Gather
  <2>1. pending = Branches /\ \A b \in Branches : Ended(b) /\ task[b] \notin {"cancelled", "bailed"}
    BY <1>5 DEF Gather, DispatchInv
  <2>2. Finished(Branches) = Branches
    BY <2>1 DEF Ended, Finished
  <2> QED
    BY <1>1, <1>2, <1>3, <1>4, <1>5, <2>1, <2>2, BranchesAssumption
       DEF Gather, Collect, ResultsInv, ResultsComplete
<1>6. CASE Collect
  <2>1. phase = "collecting" /\ ~Gathers /\ rs = results \cup Finished(pending)
    BY <1>1, <1>6 DEF Gather, Collect, DispatchInv
  <2>2. rs \subseteq Finished(Branches)
    BY <1>4, <2>1, FinishedFacts DEF ResultsInv
  <2>3. Counts => rs = Finished(Branches)
    <3>1. (Branches \ pending) \cup pending = Branches
      BY <1>4
    <3> QED
      BY <2>1, <3>1, FinishedFacts DEF ResultsInv
  <2>4. config.error # "fail_fast" => rs # {}
    BY <2>1 DEF ResultsInv
  <2>5. config.error # "fail_fast" /\ config.join = "first_success" => Successes(rs) # {}
    BY <2>1 DEF ResultsInv, Successes
  <2> QED
    BY <1>2, <1>3, <1>4, <2>1, <2>2, <2>3, <2>4, <2>5 DEF ResultsInv, ResultsComplete
<1> QED
  BY <1>1, <1>5, <1>6

LEMMA ResultsStep == TypeInv /\ DispatchInv /\ ResultsInv /\ [Next]_vars => ResultsInv'
<1> SUFFICES ASSUME TypeInv, DispatchInv, ResultsInv, [Next]_vars PROVE ResultsInv'
  OBVIOUS
<1>1. CASE Verdict \/ FanIn \/ Expire \/ GatherExpired \/ UNCHANGED vars
  <2>1. UNCHANGED <<config, task, pending, results, stored>>
    BY <1>1 DEF Verdict, FanIn, Expire, GatherExpired, vars
  <2>2. /\ UNCHANGED <<Finished(Branches), Finished(Branches \ pending), Successes(results)>>
        /\ UNCHANGED <<Kept(results), Join(stored)>>
    BY <2>1 DEF Finished, Successes, Kept, Join, Satisfied, Failures, Needed
  <2>3. CASE Verdict
    BY <2>1, <2>2, <2>3 DEF Verdict, ResultsInv, ResultsComplete, Joined, Counts, Gathers
  <2>4. CASE FanIn
    BY <2>1, <2>2, <2>4 DEF FanIn, ResultsInv, ResultsComplete, Joined, Counts, Gathers
  <2>5. CASE UNCHANGED vars
    BY <2>1, <2>2, <2>5 DEF vars, ResultsInv, ResultsComplete, Joined, Counts, Gathers
  <2>6. CASE Expire \/ GatherExpired
    <3>1. phase' \in {"expiring", "timed_out"} /\ UNCHANGED verdict
      BY <2>6 DEF Expire, GatherExpired
    <3>2. verdict = None
      BY <2>6 DEF Expire, GatherExpired, TypeInv, ResultsInv, Joined
    <3> QED
      BY <2>1, <2>2, <3>1, <3>2 DEF ResultsInv, ResultsComplete, Joined, Counts
  <2> QED
    BY <1>1, <2>3, <2>4, <2>5, <2>6
<1> QED
  BY <1>1, ResultsBranch, ResultsWake, ResultsCollect DEF Next, HandlerStep

LEMMA ResultsAlways == Spec => []ResultsInv
BY TypeAlways, DispatchAlways, ResultsInit, ResultsStep, PTL DEF Spec

(* Where the handler gathers or counts, parallel.results has every branch   *)
(* that came to an end of its own, late or not.                            *)
THEOREM ResultsCompleteHolds == Spec => []ResultsComplete
<1>1. ResultsInv => ResultsComplete
  BY DEF ResultsInv
<1> QED
  BY <1>1, ResultsAlways, PTL

-----------------------------------------------------------------------------
(* The verdicts *)

(* math.ceil of a quotient, without the quotient.                           *)
LEMMA Ceiling ==
  ASSUME NEW n \in Nat, NEW d \in Nat \ {0}, NEW s \in Nat
  PROVE  s >= (n + d - 1) \div d <=> s * d >= n
<1> DEFINE q == (n + d - 1) \div d
<1>1. q \in Int /\ q * d <= n + d - 1 /\ n + d - 1 < (q + 1) * d
  OBVIOUS
<1> HIDE DEF q
<1>2. ASSUME s >= q PROVE s * d >= n
  <2>1. s * d >= q * d
    BY <1>1, <1>2
  <2>2. (q + 1) * d = q * d + d
    BY <1>1
  <2> QED
    BY <1>1, <2>1, <2>2
<1>3. ASSUME s * d >= n PROVE s >= q
  <2>1. SUFFICES ASSUME s + 1 <= q PROVE FALSE
    BY <1>1
  <2>2. (s + 1) * d <= q * d
    BY <1>1, <2>1
  <2>3. (s + 1) * d = s * d + d
    OBVIOUS
  <2> QED
    BY <1>1, <1>3, <2>2, <2>3
<1> QED
  BY <1>2, <1>3 DEF q

LEMMA JoinStep == TypeInv /\ DispatchInv /\ ResultsInv => JoinExact
<1> SUFFICES ASSUME TypeInv, DispatchInv, ResultsInv, config.error = "continue", verdict # None
             PROVE  JoinExact
  BY DEF JoinExact
<1>1. Joined /\ verdict = Join(results) /\ results # {} /\ results \subseteq Finished(Branches)
  BY DEF ResultsInv, Kept
<1>2. \A b \in Branches : Ended(b)
  BY <1>1 DEF DispatchInv, NoOrphans
<1>3. /\ config.join \in {"wait_all", "first_success", "k_of_n", "quorum"}
      /\ config.numerator \in Nat /\ config.denominator \in Nat \ {0}
  BY ConfigsAssumption DEF TypeInv, TypeOK, Config
<1>4. Successes(Finished(Branches)) = Successes(Branches) /\ Finished(Branches) \subseteq Branches
  BY DEF Successes, Finished, Succeeded, Statuses
<1>5. ASSUME Gathers PROVE results = Branches
  <2>1. \A b \in Branches : task[b] \notin {"cancelled", "bailed"}
    BY <1>1, <1>5 DEF DispatchInv, Joined
  <2>2. Finished(Branches) = Branches
    BY <1>2, <2>1 DEF Ended, Finished
  <2> QED
    BY <1>1, <1>5, <2>2 DEF ResultsInv, ResultsComplete
<1>6. CASE config.join = "wait_all"
  <2>1. results = Branches
    BY <1>5, <1>6 DEF Gathers
  <2> QED
    BY <1>1, <1>6, <2>1 DEF JoinExact, Join, Satisfied
<1>7. CASE config.join = "first_success"
  <2>1. Successes(results) # {} <=> Successes(Branches) # {}
    <3>1. Successes(results) \subseteq Successes(Branches)
      BY <1>1, <1>4 DEF Successes
    <3>2. results = Finished(Branches) \/ Successes(results) # {}
      BY <1>1, <1>7 DEF ResultsInv
    <3> QED
      BY <1>4, <3>1, <3>2
  <2> QED
    BY <1>1, <1>7, <2>1 DEF JoinExact, Join, Satisfied, Holds
<1>8. CASE config.join = "k_of_n"
  <2>1. results = Finished(Branches)
    BY <1>1, <1>8 DEF ResultsInv, ResultsComplete, Counts
  <2> QED
    BY <1>1, <1>4, <1>8, <2>1 DEF JoinExact, Join, Satisfied, Holds
<1>9. CASE config.join = "quorum"
  <2>1. results = Branches
    BY <1>5, <1>9 DEF Gathers
  <2>2. Cardinality(Successes(Branches)) \in Nat /\ Cardinality(Branches) \in Nat
    BY BranchesAssumption, FS_Subset, FS_CardinalityType DEF Successes
  <2>3. Cardinality(Branches) * config.numerator \in Nat
    BY <1>3, <2>2
  <2>4. Cardinality(Successes(Branches)) >= Needed(Cardinality(Branches)) <=> Holds(Successes(Branches))
    BY <1>3, <1>9, <2>2, <2>3, Ceiling DEF Needed, Holds
  <2> QED
    BY <1>1, <1>9, <2>1, <2>4 DEF JoinExact, Join, Satisfied
<1> QED
  BY <1>3, <1>6, <1>7, <1>8, <1>9

(* Under error_policy=continue the verdict of a parallel node is what the   *)
(* table of join policies says of the branches themselves, whatever the     *)
(* dispatcher dropped, cancelled or collected late.                        *)
THEOREM JoinExactHolds == Spec => []JoinExact
BY JoinStep, TypeAlways, DispatchAlways, ResultsAlways, PTL

(* A winner comes from what is stored, from the best of it where there is   *)
(* no backend, and its status follows from its branch.                     *)
WinnerInv ==
  phase = "evaluated" =>
    IF stored = {}
    THEN winner.status = "fail"
    ELSE /\ winner.branch \in Candidates(stored)
         /\ winner.status = IF task[winner.branch] = "fail" THEN "fail" ELSE "success"

LEMMA WinnerStep == TypeInv /\ DispatchInv /\ WinnerInv /\ [Next]_vars => WinnerInv'
<1> SUFFICES ASSUME TypeInv, DispatchInv, WinnerInv, [Next]_vars, phase' = "evaluated"
             PROVE  WinnerInv'
  BY DEF WinnerInv
<1>1. CASE FanIn
  <2>1. UNCHANGED Candidates(stored)
    BY <1>1 DEF FanIn, Candidates, Best
  <2> QED
    BY <1>1, <2>1 DEF FanIn, WinnerInv
<1>2. CASE UNCHANGED vars
  <2>1. UNCHANGED Candidates(stored)
    BY <1>2 DEF vars, Candidates, Best
  <2> QED
    BY <1>2, <2>1 DEF vars, WinnerInv
<1>3. ASSUME NEW b \in Branches, BranchStep(b) PROVE FALSE
  BY <1>3, BranchMoves DEF DispatchInv, NoOrphans, Joined, Active
<1>4. ~HandlerStep /\ ~Expire /\ ~GatherExpired
  BY DEF HandlerStep, Gather, FirstDecides, NoneDecides, CountBatch, Collect, Verdict, Wakes,
         Store, CancelRest, WaitOn, Expire, GatherExpired
<1> QED
  BY <1>1, <1>2, <1>3, <1>4 DEF Next

LEMMA WinnerAlways == Spec => []WinnerInv
<1>1. Init => WinnerInv
  BY DEF Init, WinnerInv
<1> QED
  BY <1>1, TypeAlways, DispatchAlways, WinnerStep, PTL DEF Spec

(* The fan-in node fails only when it has to, never takes a branch that is  *)
(* not there, and behind a join that asks for a success takes one.         *)
THEOREM WinnerExactHolds == Spec => []WinnerExact
<1>1. TypeInv /\ ResultsInv /\ WinnerInv => WinnerExact
  <2> SUFFICES ASSUME TypeInv, ResultsInv, WinnerInv, phase = "evaluated" PROVE WinnerExact
    BY DEF WinnerExact
  <2>1. stored \subseteq results /\ results \subseteq Finished(Branches)
    BY DEF TypeInv, TypeOK, ResultsInv
  <2>2. \A b \in stored : b \in Branches /\ task[b] \in Statuses
    BY <2>1 DEF Finished
  <2>3. /\ winner.status = "success" => winner.branch \in stored /\ task[winner.branch] # "fail"
        /\ winner.status \in {"success", "fail"}
        /\ stored # {} => winner.branch \in stored
    BY DEF WinnerInv, Candidates, Best
  <2>4. ASSUME ~config.backend, stored # {}
        PROVE  \A d \in stored : Rank(task[winner.branch]) <= Rank(task[d])
    BY <2>4 DEF WinnerInv, Candidates, Best
  <2>5. \A b \in stored : Rank(task[b]) \in 0 .. 4 /\ (Rank(task[b]) = 4 <=> task[b] = "fail")
                          /\ (Rank(task[b]) <= 1 <=> task[b] \in Succeeded)
    BY <2>2 DEF Rank, Statuses, Succeeded
  <2>6. ~config.backend => (winner.status = "fail" <=> stored \subseteq Failures(Branches))
    <3>1. CASE stored = {}
      BY <3>1 DEF WinnerInv
    <3>2. ASSUME stored # {}, ~config.backend, task[winner.branch] = "fail", NEW d \in stored
          PROVE  task[d] = "fail"
      <4>1. Rank(task[winner.branch]) = 4 /\ Rank(task[d]) \in 0 .. 4
        BY <2>3, <2>5, <3>2
      <4>2. Rank(task[winner.branch]) <= Rank(task[d])
        BY <2>4, <3>2
      <4>3. Rank(task[d]) = 4
        BY <4>1, <4>2
      <4> QED
        BY <2>5, <4>3
    <3> QED
      BY <2>2, <2>3, <3>1, <3>2 DEF Failures, WinnerInv
  <2>7. ASSUME ~config.backend, config.error = "continue", verdict = "success",
               config.join = "first_success" \/ (config.join = "k_of_n" /\ config.minSuccess > 0)
        PROVE  task[winner.branch] \in Succeeded
    <3>1. stored = results /\ results # {} /\ Satisfied(stored)
      BY <2>7 DEF ResultsInv, Joined, Kept, Join, None
    <3>2. Successes(stored) # {}
      <4>1. CASE config.join = "first_success"
        BY <3>1, <4>1 DEF Satisfied
      <4>2. CASE config.join = "k_of_n" /\ config.minSuccess > 0
        <5>1. Cardinality(Successes(stored)) >= config.minSuccess /\ config.minSuccess \in Int
          BY <3>1, <4>2, ConfigsAssumption DEF Satisfied, TypeInv, TypeOK, Config
        <5> QED
          BY <4>2, <5>1, FS_EmptySet
      <4> QED
        BY <2>7, <4>1, <4>2
    <3>3. PICK d \in stored : task[d] \in Succeeded
      BY <3>2 DEF Successes
    <3>4. Rank(task[winner.branch]) <= Rank(task[d]) /\ Rank(task[d]) <= 1
      BY <2>4, <2>5, <2>7, <3>3
    <3>5. Rank(task[winner.branch]) \in 0 .. 4 /\ Rank(task[d]) \in 0 .. 4 /\ winner.branch \in stored
      BY <2>3, <2>5, <3>3
    <3>6. Rank(task[winner.branch]) <= 1
      BY <3>4, <3>5
    <3> QED
      BY <2>5, <3>5, <3>6
  <2> QED
    BY <2>3, <2>6, <2>7 DEF WinnerExact
<1> QED
  BY <1>1, TypeAlways, ResultsAlways, WinnerAlways, PTL

-----------------------------------------------------------------------------
(* When the rest is cancelled *)

Good == Successes(Branches \ pending)
Deciding == config.error # "fail_fast" /\ config.join \in {"first_success", "k_of_n"}

(* What the dispatchers have counted says whether they go on waiting.       *)
Fixed ==
  IF config.join = "first_success" THEN Good # {}
  ELSE \/ Cardinality(Good) >= config.minSuccess
       \/ Cardinality(Good) + Cardinality(pending) < config.minSuccess

SettledInv ==
  Deciding =>
    /\ phase = "waiting" => pending # {}
    /\ phase = "waiting" /\ pending # Branches => ~Fixed
    /\ phase = "collecting" => Fixed

LEMMA SettledInit == Init => SettledInv
BY BranchesAssumption DEF Init, SettledInv

(* Only what is pending moves, and it does not count yet.                  *)
LEMMA FixedKept ==
  ASSUME UNCHANGED <<config, pending>>, \A d \in Branches \ pending : task'[d] = task[d]
  PROVE  UNCHANGED Fixed
<1>1. UNCHANGED Good
  BY DEF Good, Successes
<1> QED
  BY <1>1 DEF Fixed

LEMMA SettledBranch ==
  ASSUME TypeInv, DispatchInv, SettledInv, NEW b \in Branches, BranchStep(b)
  PROVE  SettledInv'
<1>1. /\ Active(b) /\ \A d \in Branches : d # b => task'[d] = task[d]
      /\ UNCHANGED <<config, phase, pending>>
  BY BranchMoves
<1>2. b \in pending
  BY <1>1 DEF DispatchInv, Active
<1>3. UNCHANGED Fixed
  BY <1>1, <1>2, FixedKept
<1> QED
  BY <1>1, <1>3 DEF SettledInv, Deciding

LEMMA SettledFirst ==
  ASSUME TypeInv, DispatchInv, ResultsInv, SettledInv, FirstDecides \/ NoneDecides, Deciding
  PROVE  SettledInv'
<1>1. Wakes /\ config.join = "first_success" /\ phase = "waiting"
  BY DEF FirstDecides, NoneDecides, Wakes, Deciding, Counts
<1>2. Batch \subseteq pending /\ pending \subseteq Branches /\ Batch # {}
  BY <1>1, BatchFacts DEF TypeInv, TypeOK
<1>3. UNCHANGED <<config, task>> /\ pending' = pending \ Batch
  BY DEF FirstDecides, NoneDecides, CancelRest, WaitOn
<1>4. Good' = Good \cup Successes(Batch)
  BY <1>2, <1>3 DEF Good, Successes
<1>5. CASE FirstDecides
  <2>1. PICK b \in Batch : StopsAt(b)
    BY <1>5 DEF FirstDecides
  <2>2. b \in Successes(Batch)
    BY <2>1 DEF StopsAt, Successes, Deciding
  <2>3. Fixed'
    BY <1>1, <1>3, <1>4, <2>2 DEF Fixed
  <2>4. phase' # "waiting"
    BY <1>5 DEF FirstDecides, CancelRest
  <2> QED
    BY <2>3, <2>4 DEF SettledInv
<1>6. CASE NoneDecides
  <2>1. Successes(Batch) = {}
    BY <1>1, <1>6 DEF NoneDecides, StopsAt, Successes, Deciding
  <2>2. Good = {}
    <3>1. CASE pending = Branches
      BY <3>1 DEF Good, Successes
    <3>2. CASE pending # Branches
      BY <1>1, <3>2 DEF SettledInv, Fixed
    <3> QED
      BY <3>1, <3>2
  <2>3. ~Fixed'
    BY <1>1, <1>3, <1>4, <2>1, <2>2 DEF Fixed
  <2>4. (phase' = "waiting" /\ pending' # {}) \/ phase' = "joining"
    BY <1>1, <1>6 DEF NoneDecides, WaitOn
  <2> QED
    BY <2>3, <2>4 DEF SettledInv
<1> QED
  BY <1>5, <1>6

LEMMA SettledCount ==
  ASSUME TypeInv, DispatchInv, ResultsInv, CountBatch, Deciding
  PROVE  SettledInv'
<1> DEFINE rs == results \cup Batch
<1>1. Wakes /\ Counts /\ config.join = "k_of_n" /\ phase = "waiting"
  BY DEF CountBatch, Wakes, Counts
<1>2. Batch \subseteq pending /\ pending \subseteq Branches
  BY <1>1, BatchFacts DEF TypeInv, TypeOK
<1>3. UNCHANGED <<config, task>> /\ pending' = pending \ Batch
  BY DEF CountBatch, CancelRest, WaitOn
<1>4. Good' = Successes(rs)
  <2>1. results = Finished(Branches \ pending)
    BY <1>1 DEF ResultsInv
  <2>2. Successes(results) = Successes(Branches \ pending)
    BY <2>1 DEF Successes, Finished, Succeeded, Statuses
  <2>3. Successes(rs) = Successes(results) \cup Successes(Batch)
    BY DEF Successes
  <2>4. Good' = Good \cup Successes(Batch)
    BY <1>2, <1>3 DEF Good, Successes
  <2> QED
    BY <2>2, <2>3, <2>4 DEF Good
<1>5. Fixed' <=> Decided(rs, pending \ Batch)
  BY <1>1, <1>3, <1>4 DEF Fixed, Decided, Met, Impossible, Count
<1>6. \/ Fixed' /\ phase' \in {"joining", "collecting"}
      \/ ~Fixed' /\ (phase' = "joining" \/ (phase' = "waiting" /\ pending' # {}))
  <2>1. CASE Decided(rs, pending \ Batch)
    BY <1>5, <2>1 DEF CountBatch, CancelRest
  <2>2. CASE ~Decided(rs, pending \ Batch)
    BY <1>1, <1>5, <2>2 DEF CountBatch, WaitOn
  <2> QED
    BY <2>1, <2>2
<1> QED
  BY <1>6 DEF SettledInv

LEMMA SettledStep ==
  TypeInv /\ DispatchInv /\ ResultsInv /\ SettledInv /\ [Next]_vars => SettledInv'
<1> SUFFICES ASSUME TypeInv, DispatchInv, ResultsInv, SettledInv, [Next]_vars, Deciding'
             PROVE  SettledInv'
  BY DEF SettledInv
<1>1. CASE Gather \/ Collect \/ Verdict \/ FanIn \/ Expire \/ GatherExpired
  <2>1. phase' \notin {"waiting", "collecting"}
    BY <1>1 DEF Gather, Collect, Store, Verdict, FanIn, Expire, GatherExpired
  <2> QED
    BY <2>1 DEF SettledInv
<1>2. CASE UNCHANGED vars
  <2>1. UNCHANGED <<config, task, phase, pending>>
    BY <1>2 DEF vars
  <2>2. UNCHANGED Fixed
    BY <2>1, FixedKept
  <2> QED
    BY <2>1, <2>2 DEF SettledInv, Deciding
<1>3. CASE FirstDecides \/ NoneDecides \/ CountBatch
  <2>1. config' = config
    BY <1>3 DEF FirstDecides, NoneDecides, CountBatch, CancelRest, WaitOn
  <2>2. Deciding
    BY <2>1 DEF Deciding
  <2> QED
    BY <1>3, <2>2, SettledFirst, SettledCount
<1> QED
  BY <1>1, <1>2, <1>3, SettledBranch DEF Next, HandlerStep

LEMMA SettledAlways == Spec => []SettledInv
BY TypeAlways, DispatchAlways, ResultsAlways, SettledInit, SettledStep, PTL DEF Spec

(* How many a set and some of the pending are together.                    *)
LEMMA TogetherCount ==
  ASSUME NEW A, IsFiniteSet(A), NEW B, IsFiniteSet(B), A \cap B = {}, NEW S \in SUBSET B
  PROVE  /\ Cardinality(A) \in Nat /\ Cardinality(B) \in Nat /\ Cardinality(A \cup S) \in Nat
         /\ Cardinality(A) <= Cardinality(A \cup S)
         /\ Cardinality(A \cup S) <= Cardinality(A) + Cardinality(B)
         /\ Cardinality(A \cup B) = Cardinality(A) + Cardinality(B)
<1>1. /\ IsFiniteSet(A \cup B)
      /\ Cardinality(A \cup B) = Cardinality(A) + Cardinality(B) - Cardinality(A \cap B)
  BY FS_Union
<1>2. Cardinality(A \cap B) = 0
  BY FS_EmptySet
<1>3. Cardinality(A) \in Nat /\ Cardinality(B) \in Nat
  BY FS_CardinalityType
<1>4. A \cup S \in SUBSET (A \cup B) /\ A \in SUBSET (A \cup S)
  OBVIOUS
<1>5. IsFiniteSet(A \cup S) /\ Cardinality(A \cup S) <= Cardinality(A \cup B)
  BY <1>1, <1>4, FS_Subset
<1>6. Cardinality(A) <= Cardinality(A \cup S) /\ Cardinality(A \cup S) \in Nat
  BY <1>4, <1>5, FS_Subset, FS_CardinalityType
<1> QED
  BY <1>1, <1>2, <1>3, <1>5, <1>6

(* Under first_success and k_of_n, no branch is cancelled whose outcome     *)
(* could change the verdict, and once none could, the handler does not go   *)
(* on waiting.                                                             *)
THEOREM CancelsWhenSettledHolds == Spec => []CancelsWhenSettled
<1>1. TypeInv /\ SettledInv => CancelsWhenSettled
  <2> SUFFICES ASSUME TypeInv, SettledInv, Deciding
               PROVE  /\ phase = "collecting" => Settled
                      /\ phase = "waiting" /\ pending # Branches => ~Settled
    BY DEF CancelsWhenSettled, Deciding
  <2>1. pending \subseteq Branches /\ config.minSuccess \in Int
    BY ConfigsAssumption DEF TypeInv, TypeOK, Config
  <2>2. Settled <=> \A s, t \in SUBSET pending : Holds(Good \cup s) = Holds(Good \cup t)
    BY DEF Settled, Good
  <2>3. CASE config.join = "first_success"
    <3>1. \A g : Holds(g) <=> g # {}
      BY <2>3 DEF Holds
    <3>2. ASSUME phase = "collecting" PROVE Settled
      BY <2>2, <2>3, <3>1, <3>2 DEF SettledInv, Fixed
    <3>3. ASSUME phase = "waiting", pending # Branches PROVE ~Settled
      <4>1. Good = {} /\ pending # {}
        BY <2>3, <3>3 DEF SettledInv, Fixed
      <4>2. Holds(Good \cup pending) /\ ~Holds(Good \cup {})
        BY <3>1, <4>1
      <4> QED
        BY <2>2, <4>2
    <3> QED
      BY <3>2, <3>3
  <2>4. CASE config.join = "k_of_n"
    <3>1. \A g : Holds(g) <=> Cardinality(g) >= config.minSuccess
      BY <2>4 DEF Holds
    <3>2. IsFiniteSet(Good) /\ IsFiniteSet(pending) /\ Good \cap pending = {}
      BY <2>1, BranchesAssumption, FS_Subset DEF Good, Successes
    <3>3. \A s \in SUBSET pending :
            /\ Cardinality(Good) \in Nat /\ Cardinality(pending) \in Nat
            /\ Cardinality(Good \cup s) \in Nat /\ Cardinality(Good) <= Cardinality(Good \cup s)
            /\ Cardinality(Good \cup s) <= Cardinality(Good) + Cardinality(pending)
            /\ Cardinality(Good \cup pending) = Cardinality(Good) + Cardinality(pending)
      BY <3>2, TogetherCount
    <3>4. ASSUME phase = "collecting" PROVE Settled
      <4>1. \/ Cardinality(Good) >= config.minSuccess
            \/ Cardinality(Good) + Cardinality(pending) < config.minSuccess
        BY <2>4, <3>4 DEF SettledInv, Fixed
      <4>2. CASE Cardinality(Good) >= config.minSuccess
        <5>1. \A s \in SUBSET pending : Holds(Good \cup s) = TRUE
          BY <2>1, <2>4, <3>3, <4>2 DEF Holds
        <5> QED
          BY <2>2, <5>1
      <4>3. CASE Cardinality(Good) + Cardinality(pending) < config.minSuccess
        <5>1. \A s \in SUBSET pending : Holds(Good \cup s) = FALSE
          BY <2>1, <2>4, <3>3, <4>3 DEF Holds
        <5> QED
          BY <2>2, <5>1
      <4> QED
        BY <4>1, <4>2, <4>3
    <3>5. ASSUME phase = "waiting", pending # Branches PROVE ~Settled
      <4>1. ~Fixed
        BY <3>5 DEF SettledInv
      <4>2. /\ ~(Cardinality(Good) >= config.minSuccess)
            /\ ~(Cardinality(Good) + Cardinality(pending) < config.minSuccess)
        BY <2>4, <4>1 DEF Fixed
      <4>3. Cardinality(Good \cup pending) >= config.minSuccess
        BY <2>1, <3>3, <4>2
      <4>4. Good \cup {} = Good
        OBVIOUS
      <4>5. Holds(Good \cup pending) /\ ~Holds(Good \cup {})
        BY <3>1, <4>2, <4>3, <4>4
      <4> QED
        BY <2>2, <4>5
    <3> QED
      BY <3>4, <3>5
  <2> QED
    BY <2>3, <2>4 DEF Deciding
<1> QED
  BY <1>1, TypeAlways, SettledAlways, PTL

=============================================================================
