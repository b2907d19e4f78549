-------------------------- MODULE RemoteRunsProofs --------------------------
(***************************************************************************)
(* A pipeline from its address to its result, for every value of the        *)
(* constants: the run that is started (PipelineRuns) and the tree of files  *)
(* it is started from (RemoteSource).                                      *)
(***************************************************************************)
EXTENDS RemoteSource, PipelineRuns, SequenceTheorems, TLAPS

-----------------------------------------------------------------------------
(* Who was started under whom *)

WayIn == {"args", "prepare", "input", "compat", "load", "seed", "validate", "preflight",
          "environment", "run"}
WayOut == {"closing", "destroying", "cleanup", "leave", "report", "over"}

(* A task is awaited by tasks that exist, and by what awaits them.         *)
Tree(ts) ==
  /\ ts \in [Tasks -> Task]
  /\ \A t \in Tasks : ts[t].kind = "none" => ts[t] = NoTask
  /\ \A t \in Tasks : t \notin ts[t].under
  /\ \A t, u \in Tasks : u \in ts[t].under =>
       ts[u].kind # "none" /\ ts[u].under \subseteq ts[t].under

LEMMA NoTaskIs ==
  /\ NoTask \in Task /\ NoTask.kind = "none" /\ NoTask.at = NoNode /\ NoTask.over = FALSE
  /\ NoTask.under = {} /\ NoTask.fresh = FALSE
BY DEF NoTask, Task

(* The task at work, or what becomes of it: it stays where it is in the tree. *)
LEMMA TreeMoved ==
  ASSUME NEW ts, Tree(ts), NEW t \in Tasks, ts[t].kind # "none", NEW new \in Task,
         new.kind = ts[t].kind, new.under = ts[t].under
  PROVE  Tree([ts EXCEPT ![t] = new])
BY DEF Tree

LEMMA TreeStarted ==
  ASSUME NEW ts, Tree(ts), NEW t \in Tasks, ts[t].kind # "none",
         NEW u \in Tasks, ts[u].kind = "none", NEW new \in Task,
         new.kind # "none", new.under = ts[t].under \cup {t}
  PROVE  Tree([ts EXCEPT ![u] = new])
<1> DEFINE later == [ts EXCEPT ![u] = new]
<1>1. /\ later \in [Tasks -> Task] /\ later[u] = new
      /\ \A v \in Tasks : v # u => later[v] = ts[v]
  BY DEF Tree
<1>2. \A v \in Tasks : u \notin ts[v].under
  BY DEF Tree
<1>3. t # u
  OBVIOUS
<1> HIDE DEF later
<1>4. Tree(later)
  BY <1>1, <1>2, <1>3 DEF Tree
<1> QED
  BY <1>4 DEF later

LEMMA TreeEnded ==
  ASSUME NEW ts, Tree(ts), NEW t \in Tasks, \A u \in Tasks : t \notin ts[u].under
  PROVE  Tree([ts EXCEPT ![t] = NoTask])
<1> DEFINE later == [ts EXCEPT ![t] = NoTask]
<1>1. /\ later \in [Tasks -> Task] /\ later[t] = NoTask
      /\ \A v \in Tasks : v # t => later[v] = ts[v]
  BY NoTaskIs DEF Tree
<1> HIDE DEF later
<1>2. Tree(later)
  BY <1>1, NoTaskIs DEF Tree
<1> QED
  BY <1>2 DEF later

(* What is cut is gone, and what is left running is awaited by no other.    *)
StoppedAs(gone, left, ts) ==
  /\ ts \in [Tasks -> Task]
  /\ \A u \in gone \cap Tasks : ts[u] = NoTask
  /\ \A u \in Tasks \ gone :
       /\ ts[u].kind = tasks[u].kind /\ ts[u].at = tasks[u].at
       /\ ts[u].over = tasks[u].over /\ ts[u].fresh = tasks[u].fresh
       /\ ts[u].under = IF u \in left THEN tasks[u].under \cap left ELSE tasks[u].under
       /\ u \notin left => ts[u] = tasks[u]

LEMMA StoppedIs ==
  ASSUME NEW gone, NEW left, tasks \in [Tasks -> Task]
  PROVE  StoppedAs(gone, left, Stopped(gone, left))
<1> DEFINE kept(u) == [tasks[u] EXCEPT !.under = @ \cap left]
<1>1. \A u \in Tasks : /\ kept(u) \in Task
                       /\ kept(u).kind = tasks[u].kind /\ kept(u).at = tasks[u].at
                       /\ kept(u).over = tasks[u].over /\ kept(u).fresh = tasks[u].fresh
                       /\ kept(u).under = tasks[u].under \cap left
  BY DEF Task
<1>2. \A u \in Tasks : Stopped(gone, left)[u] =
          IF u \in gone THEN NoTask ELSE IF u \in left THEN kept(u) ELSE tasks[u]
  BY DEF Stopped
<1>3. DOMAIN Stopped(gone, left) = Tasks
  BY DEF Stopped
<1> HIDE DEF kept
<1>4. Stopped(gone, left) \in [Tasks -> Task]
  BY <1>1, NoTaskIs, Zenon DEF Stopped, kept
<1> QED
  BY <1>1, <1>2, <1>4 DEF StoppedAs

(* Whatever the roots await is cut or left running, and so are the roots.   *)
LEMMA TreeStopped ==
  ASSUME Tree(tasks), NEW roots \in SUBSET Tasks, NEW below \in SUBSET Tasks,
         below = {u \in Tasks : tasks[u].under \cap roots # {}},
         NEW left \in SUBSET below, left \cap roots = {},
         NEW gone, gone = below \ left \/ gone = roots \cup (below \ left)
  PROVE  Tree(Stopped(gone, left))
<1> DEFINE ts == Stopped(gone, left)
<1>1. tasks \in [Tasks -> Task]
  BY DEF Tree
<1>2. StoppedAs(gone, left, ts)
  BY <1>1, StoppedIs, Zenon
<1> USE DEF StoppedAs
<1> HIDE DEF ts
<1>3. gone \subseteq Tasks /\ gone \cap left = {}
  OBVIOUS
<1>4. \A u \in left : tasks[u].kind # "none"
  BY NoTaskIs DEF Tree
<1>5. ASSUME NEW u \in Tasks, u \notin gone, u \notin left, NEW v \in Tasks, v \in tasks[u].under
      PROVE  v \notin gone /\ v \notin left
  <2>1. v \notin below
    BY <1>5 DEF Tree
  <2>2. v \in roots => v \notin gone
    BY <1>5
  <2> QED
    BY <2>1, <2>2
<1>6. \A t \in Tasks : ts[t].kind = "none" => ts[t] = NoTask
  BY <1>2, <1>4 DEF Tree
<1>7. \A t \in Tasks : t \notin ts[t].under
  <2> SUFFICES ASSUME NEW t \in Tasks PROVE t \notin ts[t].under
    OBVIOUS
  <2>1. t \notin tasks[t].under
    BY DEF Tree
  <2>2. CASE t \in gone
    BY <1>2, <2>2, NoTaskIs
  <2>3. CASE t \notin gone
    BY <1>2, <2>1, <2>3
  <2> QED
    BY <2>2, <2>3
<1>8. ASSUME NEW t \in Tasks, NEW u \in Tasks, u \in ts[t].under
      PROVE  ts[u].kind # "none" /\ ts[u].under \subseteq ts[t].under
  <2>1. t \notin gone
    BY <1>2, <1>8, NoTaskIs
  <2>2. u \in tasks[t].under /\ tasks[u].kind # "none" /\ tasks[u].under \subseteq tasks[t].under
    <3>1. u \in tasks[t].under
      BY <1>2, <1>8, <2>1
    <3> QED
      BY <3>1 DEF Tree
  <2>3. CASE t \in left
    <3>1. u \in left
      BY <1>2, <1>8, <2>1, <2>3
    <3> QED
      BY <1>2, <1>3, <2>1, <2>2, <2>3, <3>1
  <2>4. CASE t \notin left
    BY <1>2, <1>5, <2>1, <2>2, <2>4
  <2> QED
    BY <2>3, <2>4
<1> QED
  BY <1>2, <1>6, <1>7, <1>8 DEF Tree, ts

(* A task that would call on the backend's own client, where none is made   *)
(* yet, is the walk itself or what the walk awaits without a branch between. *)
Owned(ts, at) ==
  \A t \in Tasks : ts[t].kind # "none" /\ ~ts[t].fresh =>
    /\ at = "walk" /\ ts[t].kind # "branch"
    /\ t = Top \/ Top \in ts[t].under
    /\ \A u \in ts[t].under : ts[u].kind # "branch"

LEMMA OwnedMoved ==
  ASSUME NEW ts, Tree(ts), NEW at, Owned(ts, at), NEW t \in Tasks, NEW new,
         new.kind = ts[t].kind, new.under = ts[t].under, new.fresh = ts[t].fresh
  PROVE  Owned([ts EXCEPT ![t] = new], at)
<1> DEFINE later == [ts EXCEPT ![t] = new]
<1>1. \A v \in Tasks : /\ later[v].kind = ts[v].kind /\ later[v].under = ts[v].under
                       /\ later[v].fresh = ts[v].fresh
  BY DEF Tree
<1>2. \A v \in Tasks : ts[v].under \subseteq Tasks
  BY DEF Tree, Task
<1> HIDE DEF later
<1>3. Owned(later, at)
  BY <1>1, <1>2 DEF Owned
<1> QED
  BY <1>3 DEF later

LEMMA OwnedStarted ==
  ASSUME NEW ts, Tree(ts), NEW at, Owned(ts, at), NEW t \in Tasks, ts[t].kind # "none",
         NEW u \in Tasks, ts[u].kind = "none", NEW new,
         new.under = ts[t].under \cup {t},
         new.fresh = TRUE \/ (new.kind # "branch" /\ new.fresh = ts[t].fresh)
  PROVE  Owned([ts EXCEPT ![u] = new], at)
<1> DEFINE later == [ts EXCEPT ![u] = new]
<1>1. later[u] = new /\ \A v \in Tasks : v # u => later[v] = ts[v]
  BY DEF Tree
<1>2. /\ \A v \in Tasks : ts[v].under \subseteq Tasks /\ u \notin ts[v].under
      /\ t # u
  BY DEF Tree, Task
<1> HIDE DEF later
<1>3. ASSUME NEW v \in Tasks, v # u, later[v].kind # "none", ~later[v].fresh
      PROVE  /\ at = "walk" /\ later[v].kind # "branch" /\ (v = Top \/ Top \in later[v].under)
             /\ \A w \in later[v].under : later[w].kind # "branch"
  BY <1>1, <1>2, <1>3 DEF Owned
<1>4. ASSUME ~later[u].fresh
      PROVE  /\ at = "walk" /\ later[u].kind # "branch" /\ (u = Top \/ Top \in later[u].under)
             /\ \A w \in later[u].under : later[w].kind # "branch"
  <2>1. /\ new.kind # "branch" /\ ~ts[t].fresh
    BY <1>1, <1>4
  <2>2. /\ at = "walk" /\ ts[t].kind # "branch" /\ (t = Top \/ Top \in ts[t].under)
        /\ \A w \in ts[t].under : ts[w].kind # "branch"
    BY <2>1 DEF Owned
  <2> QED
    BY <1>1, <1>2, <2>1, <2>2
<1>5. Owned(later, at)
  BY <1>3, <1>4 DEF Owned
<1> QED
  BY <1>5 DEF later

LEMMA OwnedEnded ==
  ASSUME NEW ts, Tree(ts), NEW at, Owned(ts, at), NEW t \in Tasks,
         \A u \in Tasks : t \notin ts[u].under, NEW later, t = Top \/ later = at
  PROVE  Owned([ts EXCEPT ![t] = NoTask], later)
<1> DEFINE rest == [ts EXCEPT ![t] = NoTask]
<1>1. rest[t] = NoTask /\ \A v \in Tasks : v # t => rest[v] = ts[v]
  BY DEF Tree
<1>2. \A v \in Tasks : ts[v].under \subseteq Tasks
  BY DEF Tree, Task
<1> HIDE DEF rest
<1>3. Owned(rest, later)
  BY <1>1, <1>2, NoTaskIs DEF Owned
<1> QED
  BY <1>3 DEF rest

(* What is left running has a branch above it, so its client is another.    *)
LEMMA OwnedStopped ==
  ASSUME Tree(tasks), NEW at, Owned(tasks, at), NEW below, NEW left \in Leftovers(below),
         NEW gone, NEW later,
         later = at \/ (Top \in gone /\ \A t \in Tasks : Top \in tasks[t].under => t \in gone \cup left)
  PROVE  Owned(Stopped(gone, left), later)
<1> DEFINE ts == Stopped(gone, left)
<1>1. tasks \in [Tasks -> Task] /\ \A v \in Tasks : tasks[v].under \subseteq Tasks
  BY DEF Tree, Task
<1>2. StoppedAs(gone, left, ts)
  BY <1>1, StoppedIs, Zenon
<1> HIDE DEF ts
<1>3. SUFFICES ASSUME NEW t \in Tasks, ts[t].kind # "none", ~ts[t].fresh
               PROVE  /\ later = "walk" /\ ts[t].kind # "branch" /\ (t = Top \/ Top \in ts[t].under)
                      /\ \A u \in ts[t].under : ts[u].kind # "branch"
  BY DEF Owned, ts
<1>4. t \notin gone
  BY <1>2, <1>3, NoTaskIs DEF StoppedAs
<1>5. tasks[t].kind = ts[t].kind /\ tasks[t].fresh = ts[t].fresh
  BY <1>2, <1>4 DEF StoppedAs
<1>6. /\ at = "walk" /\ tasks[t].kind # "branch" /\ (t = Top \/ Top \in tasks[t].under)
      /\ \A u \in tasks[t].under : tasks[u].kind # "branch"
  BY <1>3, <1>5 DEF Owned
<1>7. t \notin left
  BY <1>6 DEF Leftovers, Branch
<1>8. tasks[t] = ts[t]
  BY <1>2, <1>4, <1>7 DEF StoppedAs
<1>9. later = at
  BY <1>4, <1>6, <1>7
<1>10. \A u \in Tasks : tasks[u].kind # "branch" => ts[u].kind # "branch"
  BY <1>2, NoTaskIs DEF StoppedAs
<1> QED
  BY <1>1, <1>6, <1>8, <1>9, <1>10

(* How a step of the walk leaves the tree: one task moves, starts another   *)
(* or ends, or what it awaits is stopped.                                  *)
TreeKept(ts, after) == Tree(ts) /\ (Owned(tasks, statement) => Owned(ts, after))

LEMMA MovedKeeps ==
  ASSUME Tree(tasks), NEW t \in Tasks, tasks[t].kind # "none", NEW new \in Task,
         new.kind = tasks[t].kind, new.under = tasks[t].under, new.fresh = tasks[t].fresh
  PROVE  TreeKept([tasks EXCEPT ![t] = new], statement)
<1>1. Tree([tasks EXCEPT ![t] = new])
  BY TreeMoved
<1>2. Owned(tasks, statement) => Owned([tasks EXCEPT ![t] = new], statement)
  BY OwnedMoved
<1> QED
  BY <1>1, <1>2 DEF TreeKept

LEMMA EndedKeeps ==
  ASSUME Tree(tasks), NEW t \in Tasks, Below(t) = {}, NEW after, t = Top \/ after = statement
  PROVE  TreeKept([tasks EXCEPT ![t] = NoTask], after)
<1>1. \A u \in Tasks : t \notin tasks[u].under
  BY DEF Below
<1>2. Tree([tasks EXCEPT ![t] = NoTask])
  BY <1>1, TreeEnded
<1>3. Owned(tasks, statement) => Owned([tasks EXCEPT ![t] = NoTask], after)
  BY <1>1, OwnedEnded
<1> QED
  BY <1>2, <1>3 DEF TreeKept

LEMMA EnterTree ==
  ASSUME Tree(tasks), NEW t \in Tasks, NEW n \in Nodes, Enter(t, n)
  PROVE  TreeKept(tasks', statement)
<1> DEFINE new == [tasks[t] EXCEPT !.at = n]
<1>1. tasks[t] \in Task /\ tasks[t].kind # "none"
  BY DEF Enter, BetweenNodes, Tree
<1>2. new \in Task /\ new.kind = tasks[t].kind /\ new.under = tasks[t].under /\ new.fresh = tasks[t].fresh
  BY <1>1 DEF Task
<1>3. tasks' = [tasks EXCEPT ![t] = new]
  BY DEF Enter
<1> HIDE DEF new
<1> QED
  BY <1>1, <1>2, <1>3, MovedKeeps

LEMMA LeaveTree ==
  ASSUME Tree(tasks), NEW t \in Tasks, Leave(t)
  PROVE  TreeKept(tasks', statement)
<1> DEFINE between == [tasks[t] EXCEPT !.at = NoNode]
           new == [between EXCEPT !.over = FALSE]
<1>1. tasks[t] \in Task /\ tasks[t].kind # "none"
  BY DEF Leave, Tree
<1>2. /\ between \in Task /\ between.kind = tasks[t].kind /\ between.under = tasks[t].under
      /\ between.fresh = tasks[t].fresh
  BY <1>1 DEF Task
<1>3. tasks' = [tasks EXCEPT ![t] = new]
  BY Zenon DEF Leave
<1> HIDE DEF between
<1>4. /\ new \in Task /\ new.kind = between.kind /\ new.under = between.under
      /\ new.fresh = between.fresh
  BY <1>2 DEF Task
<1> HIDE DEF new
<1> QED
  BY <1>1, <1>2, <1>3, <1>4, MovedKeeps

LEMMA StartBranchTree ==
  ASSUME Tree(tasks), NEW t \in Tasks, NEW u \in Tasks, NEW b \in Nodes, StartBranch(t, u, b)
  PROVE  /\ Tree(tasks')
         /\ job.backend = "own loop" /\ client = "none" =>
              (Owned(tasks, statement) => Owned(tasks', statement))
<1> DEFINE new == [kind |-> "branch", at |-> b, over |-> FALSE, under |-> tasks[t].under \cup {t},
                   fresh |-> job.backend = "own loop" /\ (tasks[t].fresh \/ client = "none")]
<1>1. tasks[t].kind # "none" /\ tasks[u].kind = "none"
  BY NoTaskIs DEF StartBranch, InNode, Tree
<1>2. new \in Task /\ new.kind = "branch" /\ new.under = tasks[t].under \cup {t}
      /\ (job.backend = "own loop" /\ client = "none" => new.fresh = TRUE)
  <2>1. tasks[t].under \subseteq Tasks
    BY DEF Tree, Task
  <2> QED
    BY <2>1 DEF Task
<1>3. tasks' = [tasks EXCEPT ![u] = new]
  BY DEF StartBranch
<1> HIDE DEF new
<1>4. Tree(tasks')
  BY <1>1, <1>2, <1>3, TreeStarted
<1> QED
  BY <1>1, <1>2, <1>3, <1>4, OwnedStarted

LEMMA StartChildTree ==
  ASSUME Tree(tasks), NEW t \in Tasks, NEW u \in Tasks, NEW kind \in {"engine", "subgraph"},
         StartChild(t, u, kind)
  PROVE  TreeKept(tasks', statement)
<1> DEFINE new == [kind |-> kind, at |-> NoNode, over |-> FALSE, under |-> tasks[t].under \cup {t},
                   fresh |-> tasks[t].fresh]
<1>1. tasks[t].kind # "none" /\ tasks[u].kind = "none"
  BY NoTaskIs DEF StartChild, InNode, Tree
<1>2. new \in Task /\ new.kind = kind /\ new.under = tasks[t].under \cup {t}
      /\ new.fresh = tasks[t].fresh
  <2>1. tasks[t].under \cup {t} \subseteq Tasks /\ tasks[t].fresh \in BOOLEAN
    BY DEF Tree, Task
  <2> QED
    BY <2>1 DEF Task
<1>3. tasks' = [tasks EXCEPT ![u] = new]
  BY DEF StartChild
<1> HIDE DEF new
<1>4. Tree(tasks')
  BY <1>1, <1>2, <1>3, TreeStarted
<1>5. Owned(tasks, statement) => Owned(tasks', statement)
  BY <1>1, <1>2, <1>3, OwnedStarted
<1> QED
  BY <1>4, <1>5 DEF TreeKept

LEMMA BelowIs ==
  ASSUME NEW t \in Tasks
  PROVE  Below(t) = {u \in Tasks : tasks[u].under \cap {t} # {}}
BY DEF Below

LEMMA TimesOutTree ==
  ASSUME Tree(tasks), NEW t \in Tasks, TimesOut(t)
  PROVE  TreeKept(tasks', statement)
<1>1. PICK left \in Leftovers(Below(t)) :
        tasks' = [Stopped(Below(t) \ left, left) EXCEPT ![t].over = TRUE]
  BY DEF TimesOut
<1>2. left \subseteq Below(t) /\ t \notin Below(t) /\ Below(t) \subseteq Tasks
  BY DEF Leftovers, Below, Tree
<1> DEFINE gone == Below(t) \ left
           ts == Stopped(gone, left)
           new == [ts[t] EXCEPT !.over = TRUE]
<1>3. Tree(ts)
  <2>1. Below(t) = {u \in Tasks : tasks[u].under \cap {t} # {}}
    BY BelowIs
  <2> QED
    BY <1>2, <2>1, TreeStopped
<1>4. Owned(tasks, statement) => Owned(ts, statement)
  BY OwnedStopped
<1>5. StoppedAs(gone, left, ts)
  BY StoppedIs DEF Tree
<1>6. tasks' = [ts EXCEPT ![t] = new]
  BY <1>1, Zenon
<1> HIDE DEF ts
<1>7. ts[t] \in Task /\ ts[t].kind # "none"
  BY <1>2, <1>5, NoTaskIs DEF StoppedAs, TimesOut, InNode, Tree
<1>8. new \in Task /\ new.kind = ts[t].kind /\ new.under = ts[t].under /\ new.fresh = ts[t].fresh
  BY <1>7 DEF Task
<1> HIDE DEF new
<1>9. Tree(tasks')
  BY <1>3, <1>6, <1>7, <1>8, TreeMoved
<1>10. Owned(ts, statement) => Owned(tasks', statement)
  BY <1>3, <1>6, <1>8, OwnedMoved
<1> QED
  BY <1>4, <1>9, <1>10 DEF TreeKept

LEMMA CutBranchesTree ==
  ASSUME Tree(tasks), NEW t \in Tasks, CutBranches(t)
  PROVE  TreeKept(tasks', statement)
<1>1. PICK off \in SUBSET {u \in StartedBy(t) : Branch(u)} :
        \E left \in Leftovers(UNION {Below(u) : u \in off}) :
          tasks' = Stopped(off \cup ((UNION {Below(u) : u \in off}) \ left), left)
  BY DEF CutBranches
<1> DEFINE below == UNION {Below(u) : u \in off}
<1>2. PICK left \in Leftovers(below) : tasks' = Stopped(off \cup (below \ left), left)
  BY <1>1
<1>3. off \subseteq Tasks /\ below \subseteq Tasks /\ left \subseteq below
  BY DEF StartedBy, Below, Leftovers
<1>4. below = {u \in Tasks : tasks[u].under \cap off # {}}
  BY <1>3 DEF Below
<1>5. left \cap off = {}
  <2> SUFFICES ASSUME NEW v \in left \cap off PROVE FALSE
    OBVIOUS
  <2>1. PICK w \in off : w \in tasks[v].under
    BY <1>3, <1>4
  <2>2. tasks[v].under = tasks[w].under
    BY DEF StartedBy
  <2> QED
    BY <1>3, <2>1, <2>2 DEF Tree
<1> HIDE DEF below
<1>6. Tree(tasks')
  BY <1>2, <1>3, <1>4, <1>5, TreeStopped
<1>7. Owned(tasks, statement) => Owned(tasks', statement)
  BY <1>2, OwnedStopped
<1> QED
  BY <1>6, <1>7 DEF TreeKept

LEMMA BreakWalkTree ==
  ASSUME Tree(tasks), BreakWalk
  PROVE  TreeKept(tasks', statement')
<1>1. PICK left \in Leftovers(Below(Top)) : tasks' = Stopped({Top} \cup (Below(Top) \ left), left)
  BY DEF BreakWalk
<1>2. Top \in Tasks /\ left \subseteq Below(Top) /\ Top \notin Below(Top) /\ Below(Top) \subseteq Tasks
  BY RolesAssumption DEF Leftovers, Below, Tree
<1> DEFINE gone == {Top} \cup (Below(Top) \ left)
<1>3. Tree(tasks')
  <2>1. Below(Top) = {u \in Tasks : tasks[u].under \cap {Top} # {}}
    BY <1>2, BelowIs
  <2>2. left \cap {Top} = {}
    BY <1>2
  <2> QED
    BY <1>1, <1>2, <2>1, <2>2, TreeStopped
<1>4. Top \in gone /\ \A t \in Tasks : Top \in tasks[t].under => t \in gone \cup left
  BY DEF Below
<1> HIDE DEF gone
<1>5. Owned(tasks, statement) => Owned(Stopped(gone, left), statement')
  BY <1>4, OwnedStopped
<1> QED
  BY <1>1, <1>3, <1>5 DEF TreeKept, gone

(* Before the walk there are no tasks and no client; the client of a         *)
(* backend with a tool loop of its own is made by the walk or not at all.   *)
TasksInv ==
  /\ job \in Jobs
  /\ Tree(tasks)
  /\ statement \in WayIn => client = "none" /\ \A t \in Tasks : tasks[t].kind = "none"
  /\ job.backend = "own loop" /\ client = "none" => Owned(tasks, statement)

LEMMA TasksInit == RunsInit => TasksInv
<1> SUFFICES ASSUME RunsInit PROVE TasksInv
  OBVIOUS
<1>1. tasks = [t \in Tasks |-> NoTask] /\ client = "none" /\ job \in Jobs
  BY Zenon DEF RunsInit
<1>2. Tree(tasks)
  BY <1>1, NoTaskIs DEF Tree
<1> QED
  BY <1>1, <1>2, NoTaskIs DEF TasksInv, Owned

LEMMA FollowingOf ==
  /\ Following("args") = "prepare" /\ Following("prepare") = "compat"
  /\ Following("input") = "load" /\ Following("compat") = "load"
  /\ Following("load") = IF Mounted THEN "validate" ELSE "seed"
  /\ Following("seed") = IF job.checked THEN "validate" ELSE "preflight"
  /\ Following("validate") = "preflight"
  /\ Following("preflight") = IF Mounted /\ job.env # "none" THEN "environment" ELSE "run"
  /\ Following("environment") = "run"
BY Zenon DEF Following

LEMMA UnwindsOf ==
  /\ \A p \in {"args", "prepare", "input"} : Unwinds(p) = "report"
  /\ \A p \in {"compat", "load"} :
       Unwinds(p) = IF job.entry = "cli" THEN "leave" ELSE "report"
  /\ \A p \in {"seed", "validate", "preflight", "environment"} : Unwinds(p) = "cleanup"
  /\ Unwinds("walk") = IF Mounted THEN "closing" ELSE "cleanup"
<1>1. Unwinds("args") = "report" /\ Unwinds("prepare") = "report" /\ Unwinds("input") = "report"
  BY Zenon DEF Unwinds
<1>2. /\ Unwinds("compat") = IF job.entry = "cli" THEN "leave" ELSE "report"
      /\ Unwinds("load") = IF job.entry = "cli" THEN "leave" ELSE "report"
  BY Zenon DEF Unwinds
<1>3. /\ Unwinds("seed") = "cleanup" /\ Unwinds("validate") = "cleanup"
      /\ Unwinds("preflight") = "cleanup" /\ Unwinds("environment") = "cleanup"
  BY Zenon DEF Unwinds
<1>4. Unwinds("walk") = IF Mounted THEN "closing" ELSE "cleanup"
  BY Zenon DEF Unwinds
<1> QED
  BY <1>1, <1>2, <1>3, <1>4, Zenon

(* The steps around the walk.                                              *)
LEMMA OtherSteps ==
  ASSUME Way \/ Out
  PROVE  /\ UNCHANGED <<eventVars, job>> /\ statement # "walk" /\ statement' # "walk"
         /\ statement' \in WayIn => statement \in WayIn /\ client' = client
         /\ client' = "none" => client = "none"
<1> USE DEF WayIn, Mounted
<1>1. CASE ReadArguments \/ ReadToolInput \/ CheckEngineCompatibility \/ SeedContext
  BY <1>1, FollowingOf, UnwindsOf
     DEF ReadArguments, ReadToolInput, CheckEngineCompatibility, SeedContext, Judge
<1>2. CASE Validate \/ Preflight
  BY <1>2, FollowingOf, UnwindsOf DEF Validate, Preflight, Judge
<1>3. CASE OpenSession \/ Load \/ Create
  BY <1>3, FollowingOf DEF OpenSession, Load, Create
<1>4. CASE Raise
  BY <1>4, UnwindsOf DEF Raise
<1>5. CASE CloseBackend \/ DestroyEnvironment \/ CancelTeardown
  BY <1>5 DEF CloseBackend, DestroyEnvironment, CancelTeardown
<1>6. CASE CleanUp \/ LeaveSession
  BY <1>6 DEF CleanUp, LeaveSession
<1>7. CASE Report
  <2>1. statement = "report" /\ statement' = "over" /\ UNCHANGED <<eventVars, job, client>>
    BY <1>7, Zenon DEF Report
  <2> QED
    BY <2>1
<1> QED
  BY <1>1, <1>2, <1>3, <1>4, <1>5, <1>6, <1>7 DEF Way, Out

(* What a step of a task does to the run around it.                        *)
LEMMA TaskKeeps ==
  ASSUME NEW t \in Tasks, TaskStep(t)
  PROVE  /\ UNCHANGED <<job, view, container, session, cut, told>>
         /\ UNCHANGED <<statement, raised, outcome, manifest>>
         /\ client' = client \/ Call(t)
<1> USE DEF WrapKept, wrapVars
<1>1. CASE \E n \in Nodes : Enter(t, n) \/ Skip(t, n)
  BY <1>1 DEF Enter, Skip
<1>2. CASE \E u \in Tasks, b \in Nodes : StartBranch(t, u, b)
  BY <1>2 DEF StartBranch
<1>3. CASE \E u \in Tasks, kind \in {"engine", "subgraph"} : StartChild(t, u, kind)
  BY <1>3 DEF StartChild
<1>4. CASE Leave(t) \/ TimesOut(t) \/ StageGivenUp(t) \/ EndBranch(t) \/ CutBranches(t)
  BY <1>4 DEF Leave, TimesOut, StageGivenUp, EndBranch, CutBranches
<1>5. CASE (\E s \in Statuses, how \in Hows : EndChild(t, s, how)) \/ ChildBreaks(t)
  BY <1>5 DEF EndChild, ChildBreaks
<1>6. CASE Call(t)
  BY <1>6 DEF Call
<1> QED
  BY <1>1, <1>2, <1>3, <1>4, <1>5, <1>6 DEF TaskStep

(* Whoever takes one exists.                                               *)
LEMMA StepperIs ==
  ASSUME Tree(tasks), NEW t \in Tasks, TaskStep(t)
  PROVE  tasks[t].kind # "none"
<1> USE NoTaskIs DEF Tree, InNode, BetweenNodes, Engine, Branch
<1>1. CASE \E n \in Nodes : Enter(t, n) \/ Skip(t, n)
  BY <1>1 DEF Enter, Skip
<1>2. CASE \E u \in Tasks, b \in Nodes : StartBranch(t, u, b)
  BY <1>2 DEF StartBranch
<1>3. CASE \E u \in Tasks, kind \in {"engine", "subgraph"} : StartChild(t, u, kind)
  BY <1>3 DEF StartChild
<1>4. CASE Leave(t) \/ TimesOut(t) \/ StageGivenUp(t) \/ EndBranch(t)
  BY <1>4 DEF Leave, TimesOut, StageGivenUp, EndBranch
<1>5. CASE CutBranches(t)
  <2>1. \E u \in Tasks : t \in tasks[u].under
    BY <1>5 DEF CutBranches, StartedBy, Below
  <2> QED
    BY <2>1
<1>6. CASE (\E s \in Statuses, how \in Hows : EndChild(t, s, how)) \/ ChildBreaks(t)
  BY <1>6 DEF EndChild, Finishes, ChildBreaks
<1>7. CASE Call(t)
  BY <1>7 DEF Call
<1> QED
  BY <1>1, <1>2, <1>3, <1>4, <1>5, <1>6, <1>7 DEF TaskStep

(* What a step of the walk does to the run around it.                      *)
LEMMA WalkSteps ==
  ASSUME Walk
  PROVE  /\ UNCHANGED <<job, view, container, session, cut, told>>
         /\ client' = client \/ \E t \in Tasks : Call(t)
         /\ \/ /\ statement = "run" /\ statement' = "walk" /\ manifest' = "own"
               /\ UNCHANGED <<raised, outcome, client>>
            \/ /\ \E t \in Tasks : TaskStep(t)
               /\ UNCHANGED <<statement, raised, outcome, manifest>>
            \/ /\ statement = "walk" /\ statement' = IF Mounted THEN "closing" ELSE "cleanup"
               /\ UNCHANGED <<client, manifest>>
               /\ \/ raised' = raised /\ outcome' \in Statuses
                  \/ raised' = TRUE /\ outcome' = outcome
<1>1. CASE StartRun
  BY <1>1 DEF StartRun
<1>2. CASE \E t \in Tasks : TaskStep(t)
  BY <1>2, TaskKeeps
<1>3. CASE \E s \in Statuses, how \in Hows : FinishWalk(s, how)
  BY <1>3 DEF FinishWalk
<1>4. CASE BreakWalk
  BY <1>4, UnwindsOf DEF BreakWalk
<1> QED
  BY <1>1, <1>2, <1>3, <1>4 DEF Walk

LEMMA TasksStep == TasksInv /\ [RunsNext]_runVars => TasksInv'
<1> SUFFICES ASSUME TasksInv, [RunsNext]_runVars PROVE TasksInv'
  OBVIOUS
<1> DEFINE Own == job.backend = "own loop" /\ client = "none"
<1>1. Tree(tasks) /\ (Own => Owned(tasks, statement)) /\ job \in Jobs
  BY DEF TasksInv
<1>2. CASE StartRun
  <2> DEFINE new == [NoTask EXCEPT !.kind = "engine"]
  <2>1. \A t \in Tasks : tasks[t] = NoTask
    BY <1>1, <1>2 DEF StartRun, TasksInv, WayIn, Tree
  <2>2. new \in Task /\ new.kind = "engine" /\ new.under = {}
    BY DEF Task, NoTask
  <2>3. tasks' = [tasks EXCEPT ![Top] = new] /\ UNCHANGED <<job, client>> /\ statement' = "walk"
    BY <1>2 DEF StartRun
  <2> HIDE DEF new
  <2>4. Top \in Tasks /\ tasks \in [Tasks -> Task]
    BY <1>1, RolesAssumption DEF Tree
  <2>5. \A t \in Tasks : tasks'[t] = IF t = Top THEN new ELSE NoTask
    BY <2>1, <2>3, <2>4
  <2>6. Tree(tasks')
    BY <2>2, <2>3, <2>4, <2>5, NoTaskIs DEF Tree
  <2>7. Owned(tasks', statement')
    BY <2>2, <2>3, <2>5, NoTaskIs DEF Owned
  <2> QED
    BY <1>1, <2>3, <2>6, <2>7 DEF TasksInv, WayIn
<1>3. ASSUME NEW t \in Tasks, TaskStep(t)
      PROVE  Tree(tasks') /\ (Own => Owned(tasks', statement))
  <2>1. CASE \E n \in Nodes : Enter(t, n) \/ Skip(t, n)
    <3>1. CASE \E n \in Nodes : Enter(t, n)
      BY <1>1, <3>1, EnterTree DEF TreeKept
    <3>2. CASE \E n \in Nodes : Skip(t, n)
      BY <1>1, <3>2 DEF Skip
    <3> QED
      BY <2>1, <3>1, <3>2
  <2>2. CASE \E u \in Tasks, b \in Nodes : StartBranch(t, u, b)
    BY <1>1, <2>2, StartBranchTree
  <2>3. CASE \E u \in Tasks, kind \in {"engine", "subgraph"} : StartChild(t, u, kind)
    BY <1>1, <2>3, StartChildTree DEF TreeKept
  <2>4. CASE Leave(t)
    BY <1>1, <2>4, LeaveTree DEF TreeKept
  <2>5. CASE TimesOut(t)
    BY <1>1, <2>5, TimesOutTree DEF TreeKept
  <2>6. CASE StageGivenUp(t) \/ Call(t)
    BY <1>1, <2>6 DEF StageGivenUp, Call
  <2>7. CASE CutBranches(t)
    BY <1>1, <2>7, CutBranchesTree DEF TreeKept
  <2>8. CASE EndBranch(t) \/ (\E s \in Statuses, how \in Hows : EndChild(t, s, how)) \/ ChildBreaks(t)
    <3>1. tasks' = [tasks EXCEPT ![t] = NoTask] /\ Below(t) = {}
      BY <2>8 DEF EndBranch, EndChild, Finishes, ChildBreaks
    <3> QED
      BY <1>1, <3>1, EndedKeeps DEF TreeKept
  <2> QED
    BY <1>3, <2>1, <2>2, <2>3, <2>4, <2>5, <2>6, <2>7, <2>8 DEF TaskStep
<1>4. CASE \E t \in Tasks : TaskStep(t)
  <2>1. PICK t \in Tasks : TaskStep(t)
    BY <1>4
  <2>2. UNCHANGED <<job, statement>> /\ (client' = client \/ \E u \in Tasks : Call(u))
    BY <2>1, TaskKeeps
  <2>3. client' = "none" => client = "none"
    BY <2>2 DEF Call
  <2>4. tasks[t].kind # "none"
    BY <1>1, <2>1, StepperIs
  <2>5. statement \notin WayIn
    BY <2>1, <2>4 DEF TasksInv
  <2>6. Tree(tasks') /\ (Own => Owned(tasks', statement))
    BY <1>3, <2>1
  <2> QED
    BY <1>1, <2>2, <2>3, <2>5, <2>6 DEF TasksInv
<1>5. ASSUME NEW s \in Statuses, NEW how \in Hows, FinishWalk(s, how) PROVE TasksInv'
  <2>1. /\ tasks' = [tasks EXCEPT ![Top] = NoTask] /\ Below(Top) = {}
        /\ UNCHANGED <<job, client>> /\ statement' \in {"closing", "cleanup"} /\ Top \in Tasks
    BY <1>5, RolesAssumption DEF FinishWalk, Finishes
  <2>2. Tree(tasks') /\ (Owned(tasks, statement) => Owned(tasks', statement'))
    BY <1>1, <2>1, EndedKeeps DEF TreeKept
  <2> QED
    BY <1>1, <2>1, <2>2 DEF TasksInv, WayIn
<1>6. CASE BreakWalk
  <2>1. UNCHANGED <<job, client>> /\ statement' \in {"closing", "cleanup"}
    BY <1>6, UnwindsOf DEF BreakWalk
  <2>2. Tree(tasks') /\ (Owned(tasks, statement) => Owned(tasks', statement'))
    BY <1>1, <1>6, BreakWalkTree DEF TreeKept
  <2> QED
    BY <1>1, <2>1, <2>2 DEF TasksInv, WayIn
<1>7. CASE Way \/ Out
  <2>1. /\ UNCHANGED <<tasks, job>> /\ statement # "walk" /\ statement' # "walk"
        /\ statement' \in WayIn => statement \in WayIn /\ client' = client
        /\ client' = "none" => client = "none"
    BY <1>7, OtherSteps DEF eventVars
  <2> QED
    BY <1>1, <2>1 DEF TasksInv, Owned
<1>8. CASE UNCHANGED runVars
  <2>1. UNCHANGED <<tasks, job, statement, client>>
    BY <1>8 DEF runVars, wrapVars, eventVars
  <2> QED
    BY <2>1 DEF TasksInv
<1> QED
  BY <1>2, <1>4, <1>5, <1>6, <1>7, <1>8 DEF RunsNext, Walk

-----------------------------------------------------------------------------
(* The way in and out of a run *)

(* Where the statement stands decides what may still be open: the tree from *)
(* the load to its cleanup and the session of the command line from its     *)
(* opening to leave.                                                       *)
OpenInv ==
  /\ statement \in WayIn \cup {"walk"} \cup WayOut
  /\ statement \in {"args", "prepare", "leave"} => job.entry = "cli"
  /\ statement = "environment" => Mounted /\ job.env # "none"
  /\ statement \in {"args", "prepare", "input", "compat", "load"} => view = "none"
  /\ statement \in {"leave", "report", "over"} => view # "here"
  /\ session # "none" => job.entry = "cli"
  /\ statement \in {"args", "prepare", "input"} => session = "none"
  /\ statement \in {"report", "over"} => session # "open"

(* The client and the container of a mounted run are held up to the         *)
(* teardown step that is theirs.                                           *)
HeldInv ==
  /\ client \in {"none", "open", "closed"}
  /\ client = "open" => job.backend \in {"own loop", "direct"}
  /\ client = "open" /\ job.backend = "own loop" =>
       statement \in {"walk", "closing"} \/ "close" \in cut
  /\ statement \in WayIn \ {"run"} => container = "none"
  /\ container = "up" =>
       /\ Mounted /\ job.env # "none"
       /\ \/ statement \in {"run", "walk", "closing", "destroying"}
          \/ job.env = "create" \/ "destroy" \in cut

LEMMA OpenInit == RunsInit => OpenInv /\ HeldInv
<1> SUFFICES ASSUME RunsInit PROVE OpenInv /\ HeldInv
  OBVIOUS
<1>1. /\ statement = "args" => job.entry = "cli"
      /\ statement \in {"args", "input", "compat", "load"}
  BY Zenon DEF RunsInit
<1>2. view = "none" /\ session = "none" /\ client = "none" /\ container = "none"
  BY Zenon DEF RunsInit
<1> QED
  BY <1>1, <1>2 DEF OpenInv, HeldInv, WayIn, WayOut

(* The client of a run is made by a task of its walk, or of what the walk   *)
(* left running when its own client had been made before.                  *)
LEMMA ClientIs ==
  ASSUME TasksInv, HeldInv, NEW t \in Tasks, Call(t)
  PROVE  \/ client' = client
         \/ /\ client' = "open" /\ job.backend \in {"own loop", "direct"}
            /\ job.backend = "own loop" => statement = "walk"
<1>1. tasks[t].kind # "none" /\ job.backend \in {"own loop", "direct"}
  BY StepperIs DEF TaskStep, TasksInv, Call
<1>2. CASE tasks[t].fresh
  BY <1>2 DEF Call
<1>3. CASE ~tasks[t].fresh /\ client = "none"
  BY <1>1, <1>3 DEF Call, TasksInv, Owned
<1>4. CASE ~tasks[t].fresh /\ client # "none"
  BY <1>4 DEF Call, HeldInv
<1> QED
  BY <1>2, <1>3, <1>4

LEMMA OpenStep == OpenInv /\ [RunsNext]_runVars => OpenInv'
<1> SUFFICES ASSUME OpenInv, [RunsNext]_runVars PROVE OpenInv'
  OBVIOUS
<1>1. CASE Walk \/ UNCHANGED runVars
  <2>1. /\ UNCHANGED <<job, view, session>>
        /\ \/ statement = "run" /\ statement' = "walk"
           \/ statement' = statement
           \/ statement = "walk" /\ statement' = IF Mounted THEN "closing" ELSE "cleanup"
    BY <1>1, WalkSteps DEF runVars, wrapVars
  <2>2. CASE statement' = statement
    BY <2>1, <2>2 DEF OpenInv, Mounted
  <2>3. CASE statement' # statement
    BY <2>1, <2>3 DEF OpenInv, WayIn, WayOut, Mounted
  <2> QED
    BY <2>2, <2>3
<1> USE DEF OpenInv, WayIn, WayOut, Mounted, eventVars
<1>2. CASE ReadArguments \/ ReadToolInput \/ CheckEngineCompatibility \/ SeedContext
  BY <1>2, FollowingOf, UnwindsOf
     DEF ReadArguments, ReadToolInput, CheckEngineCompatibility, SeedContext, Judge
<1>3. CASE Validate \/ Preflight
  BY <1>3, FollowingOf, UnwindsOf DEF Validate, Preflight, Judge
<1>4. CASE OpenSession \/ Load \/ Create
  BY <1>4, FollowingOf DEF OpenSession, Load, Create
<1>5. CASE Raise
  BY <1>5, UnwindsOf DEF Raise
<1>6. CASE CloseBackend \/ DestroyEnvironment \/ CancelTeardown
  BY <1>6 DEF CloseBackend, DestroyEnvironment, CancelTeardown
<1>7. CASE CleanUp \/ LeaveSession
  BY <1>7 DEF CleanUp, LeaveSession, ViewAfterCleanup
<1>8. CASE Report
  <2>1. statement = "report" /\ statement' = "over" /\ UNCHANGED <<job, view, session>>
    BY <1>8, Zenon DEF Report
  <2> QED
    BY <2>1
<1> QED
  BY <1>1, <1>2, <1>3, <1>4, <1>5, <1>6, <1>7, <1>8 DEF RunsNext, Way, Out

LEMMA HeldStep == TasksInv /\ OpenInv /\ HeldInv /\ [RunsNext]_runVars => HeldInv'
<1> SUFFICES ASSUME TasksInv, OpenInv, HeldInv, [RunsNext]_runVars PROVE HeldInv'
  OBVIOUS
<1>1. /\ job.backend = "own loop" => Mounted
      /\ job.env \in {"none", "create", "create and destroy"}
  BY DEF TasksInv, Jobs, Mounted, Backends
<1>2. ASSUME UNCHANGED <<job, statement, client, container, cut>> PROVE HeldInv'
  BY <1>2 DEF HeldInv, Mounted
<1>3. CASE Walk
  <2>1. /\ UNCHANGED <<job, container, cut>>
        /\ \/ statement = "run" /\ statement' = "walk" /\ client' = client
           \/ (\E t \in Tasks : TaskStep(t)) /\ statement' = statement
           \/ /\ statement = "walk" /\ statement' = IF Mounted THEN "closing" ELSE "cleanup"
              /\ client' = client
        /\ client' = client \/ \E t \in Tasks : Call(t)
    BY <1>3, WalkSteps
  <2>2. CASE client' = client /\ statement' = statement
    BY <1>2, <2>1, <2>2
  <2>3. CASE client' = client /\ statement' # statement
    BY <1>1, <2>1, <2>3 DEF HeldInv, WayIn, Mounted
  <2>4. ASSUME NEW t \in Tasks, Call(t), client' # client PROVE HeldInv'
    <3>1. /\ client' = "open" /\ job.backend \in {"own loop", "direct"}
          /\ job.backend = "own loop" => statement = "walk"
      BY <2>4, ClientIs
    <3>2. UNCHANGED <<job, statement, container, cut>>
      BY <2>4 DEF Call
    <3> QED
      BY <3>1, <3>2 DEF HeldInv, Mounted
  <2> QED
    BY <2>1, <2>2, <2>3, <2>4
<1>4. CASE UNCHANGED runVars
  BY <1>2, <1>4 DEF runVars, wrapVars
<1>5. CASE ReadArguments \/ ReadToolInput \/ CheckEngineCompatibility \/ SeedContext \/ Validate \/ Preflight
           \/ OpenSession \/ Load
  <2>1. /\ UNCHANGED <<job, client, container, cut>>
        /\ statement \in WayIn \ {"run"} /\ statement' \notin {"walk", "closing", "destroying"}
    BY <1>5, FollowingOf, UnwindsOf
       DEF ReadArguments, ReadToolInput, CheckEngineCompatibility, SeedContext, Validate, Preflight,
           Judge, OpenSession, Load, WayIn
  <2>2. client = "none"
    BY <2>1 DEF TasksInv
  <2> QED
    BY <2>1, <2>2 DEF HeldInv
<1>6. CASE Create \/ Raise
  <2>1. /\ UNCHANGED <<job, client, cut>> /\ statement \in WayIn
        /\ container' = "up" => statement = "environment" /\ statement' = "run"
        /\ statement' \in {"run", "report", "leave", "cleanup"}
    BY <1>6, FollowingOf, UnwindsOf DEF Create, Raise, WayIn, HeldInv
  <2>2. client = "none"
    BY <2>1 DEF TasksInv
  <2> QED
    BY <2>1, <2>2 DEF HeldInv, OpenInv, WayIn, Mounted
<1>7. CASE CloseBackend
  BY <1>1, <1>7 DEF CloseBackend, Closes, HeldInv, WayIn, Mounted
<1>8. CASE DestroyEnvironment
  BY <1>1, <1>8 DEF DestroyEnvironment, Destroys, HeldInv, WayIn, Mounted
<1>9. CASE CancelTeardown
  BY <1>1, <1>9 DEF CancelTeardown, Closes, Destroys, HeldInv, WayIn, Mounted
<1>10. CASE CleanUp \/ LeaveSession \/ Report
  <2>1. /\ UNCHANGED <<job, client, container>> /\ statement \in WayOut \ {"closing", "destroying"}
        /\ cut \subseteq cut' /\ statement' \in WayOut
    <3>1. CASE CleanUp \/ LeaveSession
      BY <3>1 DEF CleanUp, LeaveSession, WayOut
    <3>2. CASE Report
      BY <3>2, Zenon DEF Report, WayOut
    <3> QED
      BY <1>10, <3>1, <3>2
  <2> QED
    BY <2>1 DEF HeldInv, WayIn, WayOut, Mounted
<1> QED
  BY <1>3, <1>4, <1>5, <1>6, <1>7, <1>8, <1>9, <1>10 DEF RunsNext, Way, Out

(* However a run ends, the tree is deleted and the session closed, the       *)
(* client is closed unless it is one that has no close, and the container    *)
(* gone unless the tool for it is not mounted, each unless its own teardown  *)
(* step failed (the finally blocks of execute, drive_engine and              *)
(* run_pipeline).                                                          *)
THEOREM NothingLeftBehindHolds == RunsSpec => []NothingLeftBehind
<1>1. TasksInv /\ OpenInv /\ HeldInv => NothingLeftBehind
  <2>1. TasksInv => job.env \in {"none", "create", "create and destroy"}
    BY DEF TasksInv, Jobs
  <2> QED
    BY <2>1 DEF OpenInv, HeldInv, NothingLeftBehind, WayIn, WayOut
<1>2. RunsInit => TasksInv /\ OpenInv /\ HeldInv
  BY TasksInit, OpenInit
<1>3. TasksInv /\ OpenInv /\ HeldInv /\ [RunsNext]_runVars => (TasksInv /\ OpenInv /\ HeldInv)'
  BY TasksStep, OpenStep, HeldStep
<1> QED
  BY <1>1, <1>2, <1>3, PTL DEF RunsSpec

-----------------------------------------------------------------------------
(* What the caller is told *)

Asked(entry) == entry \in {"cli", "tool"}

(* The outcome exists from the end of the walk on, and a way out without    *)
(* one was entered by an exception; a manifest of the run's own is past its *)
(* stamping once the session of the command line is left; who got as far as *)
(* the walk has passed what comes before it.                               *)
ToldInv ==
  /\ raised \in BOOLEAN
  /\ outcome \in Statuses \cup {NoStatus}
  /\ outcome # NoStatus => statement \in WayOut
  /\ statement \in WayOut /\ ~raised => outcome # NoStatus
  /\ manifest = "own" => statement \in {"walk"} \cup WayOut
  /\ job.entry = "cli" /\ manifest = "own" /\ statement \in {"report", "over"} => "stamp" \in cut
  /\ statement \in {"preflight", "environment", "run", "walk"} \/ outcome # NoStatus =>
       (job.flaw = "graph" => ~job.checked)
  /\ statement \in {"environment", "run", "walk"} \/ outcome # NoStatus =>
       job.supply \in {"served", "simulation"}
  /\ statement = "over" =>
       /\ job.entry = "cli" => told = ExitCode
       /\ job.entry = "tool" => told = ToolResult
       /\ ~Asked(job.entry) => told = CallResult

LEMMA ToldInit == RunsInit => ToldInv
<1>1. ASSUME RunsInit
      PROVE  /\ raised = FALSE /\ outcome = NoStatus /\ manifest \in {"none", "stale"}
             /\ statement \in {"args", "input", "compat", "load"}
  <2>1. statement = "args" \/ statement = "input" \/ statement = "compat" \/ statement = "load"
    BY <1>1, Zenon DEF RunsInit
  <2> QED
    BY <1>1, <2>1 DEF RunsInit
<1> QED
  BY <1>1 DEF ToldInv, WayOut

(* Whatever of the way in raises, the way out is entered by an exception.   *)
LEMMA ToldStep == OpenInv /\ ToldInv /\ [RunsNext]_runVars => ToldInv'
<1> SUFFICES ASSUME OpenInv, ToldInv, [RunsNext]_runVars PROVE ToldInv'
  OBVIOUS
<1> USE DEF ToldInv, WayOut, Mounted, eventVars, Statuses, NoStatus
<1>1. CASE ReadArguments \/ ReadToolInput \/ CheckEngineCompatibility \/ SeedContext
  BY <1>1, FollowingOf, UnwindsOf
     DEF ReadArguments, ReadToolInput, CheckEngineCompatibility, SeedContext, Judge
<1>2. CASE Validate \/ Preflight
  BY <1>2, FollowingOf, UnwindsOf DEF Validate, Preflight, Judge
<1>3. CASE OpenSession \/ Load \/ Create
  BY <1>3, FollowingOf DEF OpenSession, Load, Create
<1>4. CASE Raise
  BY <1>4, UnwindsOf DEF Raise
<1>5. CASE Walk
  <2>1. /\ UNCHANGED <<job, cut, told>>
        /\ \/ /\ statement = "run" /\ statement' = "walk" /\ manifest' = "own"
              /\ UNCHANGED <<raised, outcome>>
           \/ UNCHANGED <<statement, raised, outcome, manifest>>
           \/ /\ statement = "walk" /\ statement' = IF Mounted THEN "closing" ELSE "cleanup"
              /\ manifest' = manifest
              /\ \/ raised' = raised /\ outcome' \in Statuses
                 \/ raised' = TRUE /\ outcome' = outcome
    BY <1>5, WalkSteps
  <2>2. CASE statement' = statement
    <3>1. UNCHANGED <<statement, job, cut, told, raised, outcome, manifest>>
      BY <2>1, <2>2
    <3> QED
      BY <3>1 DEF Asked, ExitCode, ToolResult, CallResult
  <2>3. CASE statement = "run" /\ statement' = "walk"
    <3>1. /\ UNCHANGED <<job, cut, told, raised, outcome>> /\ manifest' = "own"
      BY <2>1, <2>3
    <3> QED
      BY <2>3, <3>1
  <2>4. CASE statement = "walk" /\ statement' \in {"closing", "cleanup"}
    <3>1. /\ UNCHANGED <<job, cut, told, manifest>>
          /\ \/ raised' = raised /\ outcome' \in Statuses
             \/ raised' = TRUE /\ outcome' = outcome
      BY <2>1, <2>4
    <3> QED
      BY <2>4, <3>1
  <2> QED
    BY <2>1, <2>2, <2>3, <2>4
<1>6. CASE CloseBackend \/ DestroyEnvironment \/ CancelTeardown
  BY <1>6 DEF CloseBackend, DestroyEnvironment, CancelTeardown
<1>7. CASE CleanUp \/ LeaveSession
  BY <1>7 DEF CleanUp, LeaveSession, OpenInv
<1>8. CASE Report
  <2>1. /\ statement = "report" /\ statement' = "over"
        /\ UNCHANGED <<job, raised, manifest, cut, outcome>>
    BY <1>8, Zenon DEF Report
  <2>2. /\ job.entry = "cli" => told' = ExitCode
        /\ job.entry = "tool" => told' = ToolResult
    BY <1>8, Zenon DEF Report
  <2>3. job.entry # "cli" /\ job.entry # "tool" => told' = CallResult
    BY <1>8, Zenon DEF Report
  <2> QED
    BY <2>1, <2>2, <2>3 DEF Asked, ExitCode, ToolResult, CallResult
<1>9. CASE UNCHANGED runVars
  BY <1>9 DEF runVars, wrapVars, Asked, ExitCode, ToolResult, CallResult
<1> QED
  BY <1>1, <1>2, <1>3, <1>4, <1>5, <1>6, <1>7, <1>8, <1>9 DEF RunsNext, Way, Out

(* The caller is told the engine's outcome, exit code 0 for a success only, *)
(* and a failure whenever anything raised (cmd_run, run_pipeline and the    *)
(* run_pipeline tool).                                                     *)
THEOREM ToldWhatHappenedHolds == RunsSpec => []ToldWhatHappened
<1>1. ToldInv => ToldWhatHappened
  BY DEF ToldInv, ToldWhatHappened, WayOut, Asked, Statuses, NoStatus, ExitCode, ToolResult,
         CallResult
<1>2. RunsInit => OpenInv /\ ToldInv
  BY OpenInit, ToldInit
<1>3. OpenInv /\ ToldInv /\ [RunsNext]_runVars => (OpenInv /\ ToldInv)'
  BY OpenStep, ToldStep
<1> QED
  BY <1>1, <1>2, <1>3, PTL DEF RunsSpec

-----------------------------------------------------------------------------
(* The timeline: a node's records against its executions *)

Ends == {"live", "done", "cut"}

Paired(rs, es) ==
  /\ Len(rs) = Len(es)
  /\ \A i \in DOMAIN es : (rs[i].status = "running") <=> (es[i] # "done")

NewestOpen(rs) == rs # <<>> => rs[Len(rs)].status = "running"
NewestClosed(rs) == rs # <<>> => rs[Len(rs)].status # "running"

LEMMA NewestReplaced ==
  ASSUME NEW S, NEW s \in Seq(S), s # <<>>, NEW e \in S
  PROVE  LET t == [s EXCEPT ![Len(s)] = e] IN
         /\ t \in Seq(S) /\ t # <<>>
         /\ Len(s) \in 1..Len(s) /\ Len(t) = Len(s) /\ DOMAIN t = 1..Len(s)
         /\ \A i \in 1..Len(s) : t[i] = IF i = Len(s) THEN e ELSE s[i]
<1>1. Len(s) \in Nat \ {0} /\ Len(s) \in 1..Len(s)
  BY EmptySeq
<1> DEFINE t == [s EXCEPT ![Len(s)] = e]
<1>2. t \in Seq(S) /\ Len(t) = Len(s)
      /\ \A i \in 1..Len(s) : t[i] = IF i = Len(s) THEN e ELSE s[i]
  BY <1>1, ExceptSeq
<1> HIDE DEF t
<1>3. t # <<>> /\ DOMAIN t = 1..Len(s)
  BY <1>1, <1>2, LenProperties, EmptySeq
<1> QED
  BY <1>1, <1>2, <1>3 DEF t

(* The newest record is the newest execution's: a start adds one to both.   *)
LEMMA PairedStart ==
  ASSUME NEW rs \in Seq(NodeRun), NEW es \in Seq(Ends), Paired(rs, es)
  PROVE  LET longer == Append(rs, [status |-> "running", calls |-> 0]) IN
         /\ longer \in Seq(NodeRun) /\ Append(es, "live") \in Seq(Ends)
         /\ Paired(longer, Append(es, "live"))
         /\ NewestOpen(longer)
<1> DEFINE new == [status |-> "running", calls |-> 0]
           longer == Append(rs, new)
           more == Append(es, "live")
           n == Len(rs)
<1>1. new \in NodeRun /\ new.status = "running" /\ "live" \in Ends
  BY DEF NodeRun, RunStatus, Ends
<1> HIDE DEF new
<1>2. /\ n \in Nat /\ Len(es) = n /\ DOMAIN es = 1..n
  BY LenProperties DEF Paired
<1>3. /\ longer \in Seq(NodeRun) /\ Len(longer) = n + 1
      /\ \A i \in 1..n : longer[i] = rs[i]
      /\ longer[n + 1] = new
  BY <1>1, AppendProperties
<1>4. /\ more \in Seq(Ends) /\ Len(more) = n + 1
      /\ \A i \in 1..n : more[i] = es[i]
      /\ more[n + 1] = "live"
  BY <1>1, <1>2, AppendProperties
<1> HIDE DEF longer, more, n
<1>5. DOMAIN more = 1..(n + 1)
  BY <1>4, LenProperties
<1>6. Paired(longer, more)
  <2> SUFFICES ASSUME NEW i \in 1..(n + 1)
               PROVE  (longer[i].status = "running") <=> (more[i] # "done")
    BY <1>3, <1>4, <1>5 DEF Paired
  <2>1. CASE i = n + 1
    BY <2>1, <1>1, <1>3, <1>4
  <2>2. CASE i # n + 1
    BY <2>2, <1>2, <1>3, <1>4 DEF Paired
  <2> QED
    BY <2>1, <2>2
<1>7. NewestOpen(longer)
  BY <1>1, <1>3 DEF NewestOpen
<1> QED
  BY <1>3, <1>4, <1>6, <1>7 DEF longer, more, new

LEMMA EndedIs ==
  ASSUME NEW es \in Seq(Ends), NEW how \in Ends
  PROVE  /\ Ended(es, how) \in Seq(Ends) /\ Len(Ended(es, how)) = Len(es)
         /\ DOMAIN Ended(es, how) = 1..Len(es)
         /\ \A i \in 1..Len(es) : Ended(es, how)[i] = IF i = Len(es) THEN how ELSE es[i]
<1>1. CASE es = <<>>
  BY <1>1, EmptySeq, LenProperties DEF Ended
<1>2. CASE es # <<>>
  BY <1>2, NewestReplaced DEF Ended
<1> QED
  BY <1>1, <1>2

(* A completion closes the newest record, and leaves its calls alone.      *)
LEMMA ClosedRunsIs ==
  ASSUME NEW rs \in Seq(NodeRun)
  PROVE  LET t == ClosedRuns(rs) IN
         /\ t \in Seq(NodeRun) /\ Len(t) = Len(rs)
         /\ \A i \in 1..Len(rs) : /\ t[i].calls = rs[i].calls
                                  /\ t[i].status = IF i = Len(rs) THEN "ended" ELSE rs[i].status
<1>1. CASE rs = <<>>
  BY <1>1, EmptySeq DEF ClosedRuns
<1>2. CASE rs # <<>>
  <2>1. Len(rs) \in 1..Len(rs)
    BY <1>2, EmptySeq
  <2> DEFINE last == rs[Len(rs)]
             closed == [last EXCEPT !.status = "ended"]
             rsNew == [rs EXCEPT ![Len(rs)] = closed]
  <2>2. last \in NodeRun
    BY <2>1, ElementOfSeq
  <2>3. closed \in NodeRun /\ closed.status = "ended" /\ closed.calls = last.calls
    BY <2>2 DEF NodeRun, RunStatus
  <2>4. ClosedRuns(rs) = rsNew
    BY <1>2, <2>1 DEF ClosedRuns
  <2> HIDE DEF closed
  <2>5. /\ rsNew \in Seq(NodeRun) /\ Len(rsNew) = Len(rs)
        /\ \A i \in 1..Len(rs) : rsNew[i] = IF i = Len(rs) THEN closed ELSE rs[i]
    BY <1>2, <2>3, NewestReplaced
  <2> HIDE DEF rsNew
  <2> QED
    BY <2>3, <2>4, <2>5
<1> QED
  BY <1>1, <1>2

(* A call booked on the newest record changes no status and no other's calls. *)
LEMMA BookedCallIs ==
  ASSUME NEW rs \in Seq(NodeRun)
  PROVE  LET t == BookedCall(rs) IN
         /\ t \in Seq(NodeRun) /\ Len(t) = Len(rs)
         /\ \A i \in 1..Len(rs) : /\ t[i].status = rs[i].status
                                  /\ i # Len(rs) => t[i].calls = rs[i].calls
<1>1. CASE rs = <<>>
  BY <1>1, EmptySeq DEF BookedCall
<1>2. CASE rs # <<>>
  <2>1. Len(rs) \in 1..Len(rs)
    BY <1>2, EmptySeq
  <2> DEFINE last == rs[Len(rs)]
             booked == [last EXCEPT !.calls = @ + 1]
             rsNew == [rs EXCEPT ![Len(rs)] = booked]
  <2>2. last \in NodeRun
    BY <2>1, ElementOfSeq
  <2>3. booked \in NodeRun /\ booked.status = last.status
    BY <2>2 DEF NodeRun
  <2>4. BookedCall(rs) = rsNew
    BY <1>2, <2>1 DEF BookedCall
  <2> HIDE DEF booked
  <2>5. /\ rsNew \in Seq(NodeRun) /\ Len(rsNew) = Len(rs)
        /\ \A i \in 1..Len(rs) : rsNew[i] = IF i = Len(rs) THEN booked ELSE rs[i]
    BY <1>2, <2>3, NewestReplaced
  <2> HIDE DEF rsNew
  <2> QED
    BY <2>3, <2>4, <2>5
<1> QED
  BY <1>1, <1>2

LEMMA PairedEnd ==
  ASSUME NEW rs \in Seq(NodeRun), NEW es \in Seq(Ends), Paired(rs, es)
  PROVE  Paired(ClosedRuns(rs), Ended(es, "done"))
<1>1. Len(rs) \in Nat /\ Len(es) = Len(rs) /\ DOMAIN es = 1..Len(rs)
  BY LenProperties DEF Paired
<1> DEFINE t == ClosedRuns(rs)
           e == Ended(es, "done")
<1>2. /\ Len(t) = Len(rs)
      /\ \A i \in 1..Len(rs) : t[i].status = IF i = Len(rs) THEN "ended" ELSE rs[i].status
  BY ClosedRunsIs
<1>3. /\ Len(e) = Len(rs) /\ DOMAIN e = 1..Len(rs)
      /\ \A i \in 1..Len(rs) : e[i] = IF i = Len(rs) THEN "done" ELSE es[i]
  <2>1. "done" \in Ends
    BY DEF Ends
  <2>2. /\ Len(e) = Len(es) /\ DOMAIN e = 1..Len(es)
        /\ \A i \in 1..Len(es) : e[i] = IF i = Len(es) THEN "done" ELSE es[i]
    BY <2>1, EndedIs
  <2> QED
    BY <1>1, <2>2
<1> HIDE DEF t, e
<1> QED
  BY <1>1, <1>2, <1>3 DEF Paired, t, e

(* A cancelled execution was open, and so stays its record.                *)
LEMMA PairedCut ==
  ASSUME NEW rs \in Seq(NodeRun), NEW es \in Seq(Ends), Paired(rs, es), NewestOpen(rs)
  PROVE  Paired(rs, Ended(es, "cut"))
<1>1. Len(rs) \in Nat /\ Len(es) = Len(rs) /\ DOMAIN es = 1..Len(rs)
  BY LenProperties DEF Paired
<1> DEFINE e == Ended(es, "cut")
<1>2. /\ Len(e) = Len(rs) /\ DOMAIN e = 1..Len(rs)
      /\ \A i \in 1..Len(rs) : e[i] = IF i = Len(rs) THEN "cut" ELSE es[i]
  <2>1. "cut" \in Ends
    BY DEF Ends
  <2>2. /\ Len(e) = Len(es) /\ DOMAIN e = 1..Len(es)
        /\ \A i \in 1..Len(es) : e[i] = IF i = Len(es) THEN "cut" ELSE es[i]
    BY <2>1, EndedIs
  <2> QED
    BY <1>1, <2>2
<1>3. \A i \in 1..Len(rs) : i = Len(rs) => rs[i].status = "running"
  BY EmptySeq DEF NewestOpen
<1> HIDE DEF e
<1>4. \A i \in 1..Len(rs) : (rs[i].status = "running") <=> (e[i] # "done")
  BY <1>1, <1>2, <1>3 DEF Paired
<1> QED
  BY <1>1, <1>2, <1>4 DEF Paired, e

LEMMA BookedNewest ==
  ASSUME NEW rs \in Seq(NodeRun)
  PROVE  LET t == BookedCall(rs) IN
         /\ NewestOpen(rs) => NewestOpen(t)
         /\ NewestClosed(rs) => NewestClosed(t)
         /\ rs # <<>> => t # <<>>
<1> DEFINE t == BookedCall(rs)
<1>1. /\ t \in Seq(NodeRun) /\ Len(t) = Len(rs)
      /\ \A i \in 1..Len(rs) : t[i].status = rs[i].status
  BY BookedCallIs
<1> HIDE DEF t
<1>2. rs # <<>> \/ t # <<>> => rs # <<>> /\ t # <<>> /\ Len(rs) \in 1..Len(rs)
  BY <1>1, EmptySeq, LenProperties
<1> QED
  BY <1>1, <1>2 DEF NewestOpen, NewestClosed, t

LEMMA PairedBooked ==
  ASSUME NEW rs \in Seq(NodeRun), NEW es \in Seq(Ends), Paired(rs, es)
  PROVE  Paired(BookedCall(rs), es)
<1>1. Len(rs) \in Nat /\ Len(es) = Len(rs) /\ DOMAIN es = 1..Len(rs)
  BY LenProperties DEF Paired
<1> DEFINE t == BookedCall(rs)
<1>2. /\ t \in Seq(NodeRun) /\ Len(t) = Len(rs)
      /\ \A i \in 1..Len(rs) : t[i].status = rs[i].status
  BY BookedCallIs
<1> HIDE DEF t
<1>3. Paired(t, es)
  BY <1>1, <1>2 DEF Paired
<1> QED
  BY <1>3 DEF t

(* A second completion, or one without a start, finds the record closed.    *)
LEMMA PairedAgain ==
  ASSUME NEW rs \in Seq(NodeRun), NEW es \in Seq(Ends), Paired(rs, es), NewestClosed(rs)
  PROVE  Paired(ClosedRuns(rs), es)
<1>1. Len(rs) \in Nat /\ Len(es) = Len(rs) /\ DOMAIN es = 1..Len(rs)
  BY LenProperties DEF Paired
<1> DEFINE t == ClosedRuns(rs)
<1>2. /\ Len(t) = Len(rs)
      /\ \A i \in 1..Len(rs) : t[i].status = IF i = Len(rs) THEN "ended" ELSE rs[i].status
  BY ClosedRunsIs
<1>3. \A i \in 1..Len(rs) : i = Len(rs) => rs[i].status # "running"
  BY EmptySeq DEF NewestClosed
<1> HIDE DEF t
<1>4. \A i \in 1..Len(rs) : (t[i].status = "running") <=> (es[i] # "done")
  BY <1>1, <1>2, <1>3 DEF Paired
<1> QED
  BY <1>1, <1>2, <1>4 DEF Paired, t

LEMMA ClosedNewest ==
  ASSUME NEW rs \in Seq(NodeRun)
  PROVE  NewestClosed(ClosedRuns(rs))
<1> DEFINE t == ClosedRuns(rs)
<1>1. /\ t \in Seq(NodeRun) /\ Len(t) = Len(rs)
      /\ \A i \in 1..Len(rs) : t[i].status = IF i = Len(rs) THEN "ended" ELSE rs[i].status
  BY ClosedRunsIs
<1> HIDE DEF t
<1>2. t # <<>> => Len(t) \in 1..Len(rs)
  BY <1>1, EmptySeq, LenProperties
<1> QED
  BY <1>1, <1>2 DEF NewestClosed, t

(* A start and a completion, in the table and in what really happens.      *)
AddsRecord(runs, n) == [runs EXCEPT ![n] = Append(@, [status |-> "running", calls |-> 0])]
ClosesRecord(runs, n) == [runs EXCEPT ![n] = ClosedRuns(@)]
BooksCall(runs, n) == [runs EXCEPT ![n] = BookedCall(@)]
AddsExec(es, n) == [es EXCEPT ![n] = Append(@, "live")]
EndsExec(es, n) == [es EXCEPT ![n] = Ended(@, "done")]
CutsExecs(es, off) == [m \in Nodes |-> IF m \in off THEN Ended(es[m], "cut") ELSE es[m]]

(* The handlers, on a state that has been made.                            *)
Made(s) == s \in RunState /\ s.status # "none"

(* A handler that touches neither the records nor current_node.            *)
Quiet(s, t) == Made(t) /\ t.runs = s.runs /\ t.current = s.current

LEMMA QuietHandlers ==
  ASSUME NEW s, Made(s), NEW status
  PROVE  /\ Quiet(s, PipelineComplete(s, status)) /\ Quiet(s, PipelineError(s))
         /\ Quiet(s, StageFailed(s))
<1>0. s.errors + 1 \in Nat
  BY DEF Made, RunState
<1> USE DEF Made, Quiet, RunState, Seen
<1>1. Quiet(s, PipelineComplete(s, status))
  BY DEF PipelineComplete
<1>2. Quiet(s, PipelineError(s))
  <2> DEFINE t == [s EXCEPT !.status = "failed"]
  <2>1. t \in RunState /\ t.status = "failed" /\ t.runs = s.runs /\ t.current = s.current
        /\ t.errors = s.errors
    OBVIOUS
  <2>2. PipelineError(s) = [t EXCEPT !.errors = s.errors + 1]
    BY Zenon DEF PipelineError
  <2> HIDE DEF t
  <2>3. Quiet(s, [t EXCEPT !.errors = s.errors + 1])
    BY <1>0, <2>1, Zenon
  <2> QED
    BY <2>2, <2>3, Zenon
<1>3. Quiet(s, StageFailed(s))
  BY <1>0, Zenon DEF StageFailed
<1> QED
  BY <1>1, <1>2, <1>3

LEMMA PipelineStartIs ==
  /\ Made(PipelineStart) /\ PipelineStart.current = NoNode
  /\ \A n \in Nodes : PipelineStart.runs[n] = <<>>
<1>1. <<>> \in Seq(NodeRun)
  BY EmptySeq
<1> QED
  BY <1>1 DEF PipelineStart, NoRun, Made, RunState

LEMMA NodeStartIs ==
  ASSUME NEW s, Made(s), NEW n \in Nodes
  PROVE  LET t == NodeStart(s, n) IN
         /\ Made(t) /\ t.current = n
         /\ t.runs = AddsRecord(s.runs, n)
<1> DEFINE new == [status |-> "running", calls |-> 0]
           runs == [s.runs EXCEPT ![n] = Append(@, new)]
           t1 == [s EXCEPT !.current = n]
           t2 == [t1 EXCEPT !.path = s.path \cup {n}]
           t3 == [t2 EXCEPT !.runs = runs]
<1>1. NodeStart(s, n) = t3
  BY Zenon DEF NodeStart, Seen, Made
<1>2. new \in NodeRun
  BY DEF NodeRun, RunStatus
<1> HIDE DEF new
<1>3. Append(s.runs[n], new) \in Seq(NodeRun)
  BY <1>2, AppendProperties DEF Made, RunState
<1>4. runs \in [Nodes -> Seq(NodeRun)]
  BY <1>3 DEF Made, RunState
<1> HIDE DEF runs
<1>5. Made(t1) /\ t1.current = n
  BY DEF Made, RunState
<1>6. s.path \cup {n} \in SUBSET Nodes
  BY DEF Made, RunState
<1> HIDE DEF t1
<1>7. Made(t2) /\ t2.current = n
  BY <1>5, <1>6 DEF Made, RunState
<1> HIDE DEF t2
<1>8. Made(t3) /\ t3.current = n /\ t3.runs = runs
  BY <1>4, <1>7 DEF Made, RunState
<1> HIDE DEF t3
<1> QED
  BY <1>1, <1>8 DEF runs, new, AddsRecord

LEMMA NodeCompleteIs ==
  ASSUME NEW s, Made(s), NEW n \in Nodes
  PROVE  LET t == NodeComplete(s, n) IN
         /\ Made(t) /\ t.current = NoNode
         /\ t.runs = ClosesRecord(s.runs, n)
<1> DEFINE runs == [s.runs EXCEPT ![n] = ClosedRuns(@)]
           t1 == [s EXCEPT !.runs = runs]
           t2 == [t1 EXCEPT !.current = NoNode]
<1>1. NodeComplete(s, n) = t2
  BY Zenon DEF NodeComplete, Seen, Made
<1>2. ClosedRuns(s.runs[n]) \in Seq(NodeRun)
  BY ClosedRunsIs DEF Made, RunState
<1>3. runs \in [Nodes -> Seq(NodeRun)]
  BY <1>2 DEF Made, RunState
<1> HIDE DEF runs
<1>4. Made(t1) /\ t1.runs = runs
  BY <1>3 DEF Made, RunState
<1> HIDE DEF t1
<1>5. Made(t2) /\ t2.current = NoNode /\ t2.runs = runs
  BY <1>4 DEF Made, RunState
<1> HIDE DEF t2
<1> QED
  BY <1>1, <1>5 DEF runs, ClosesRecord

LEMMA ProviderResponseIs ==
  ASSUME NEW s, Made(s)
  PROVE  LET t == ProviderResponse(s) IN
         /\ Made(t) /\ t.current = s.current
         /\ t.runs = IF s.current = NoNode THEN s.runs
                     ELSE BooksCall(s.runs, s.current)
<1> DEFINE counted == [s EXCEPT !.calls = @ + 1]
           runs == [s.runs EXCEPT ![s.current] = BookedCall(@)]
           booked == [counted EXCEPT !.runs = runs]
<1>1. ProviderResponse(s) = IF s.current = NoNode THEN counted ELSE booked
  BY Zenon DEF ProviderResponse, Seen, Made
<1>2. Made(counted) /\ counted.current = s.current /\ counted.runs = s.runs
  <2>1. s.calls + 1 \in Nat
    BY DEF Made, RunState
  <2> QED
    BY <2>1, Zenon DEF Made, RunState
<1>3. s.current # NoNode => BookedCall(s.runs[s.current]) \in Seq(NodeRun)
  BY BookedCallIs DEF Made, RunState
<1>4. s.current # NoNode => runs \in [Nodes -> Seq(NodeRun)]
  BY <1>3 DEF Made, RunState
<1> HIDE DEF counted, runs
<1>5. s.current # NoNode => Made(booked) /\ booked.current = s.current /\ booked.runs = runs
  BY <1>2, <1>4 DEF Made, RunState
<1> HIDE DEF booked
<1> QED
  BY <1>1, <1>2, <1>5 DEF runs, BooksCall

(* The whole table: as many records as executions; and of a node that no two *)
(* tasks were at, each record is its execution's, the newest open while a     *)
(* task is in it and closed when that has timed out.                        *)
Timeline(runs, es, mx, ts) ==
  /\ \A n \in Nodes : Len(runs[n]) = Len(es[n])
  /\ \A n \in Nodes \ mx : Paired(runs[n], es[n])
  /\ \A t \in Tasks : ts[t].at \in Nodes \ mx =>
       /\ ~ts[t].over => NewestOpen(runs[ts[t].at])
       /\ ts[t].over => NewestClosed(runs[ts[t].at])
       /\ \A u \in Tasks : ts[u].at = ts[t].at => u = t

KeepsCalls(runs, later) ==
  \A m \in Nodes : \A i \in DOMAIN runs[m] \cap DOMAIN later[m] :
    later[m][i].calls = runs[m][i].calls

FinalCalls(runs, later) ==
  \A m \in Nodes : \A i \in DOMAIN runs[m] \cap DOMAIN later[m] :
    runs[m][i].status # "running" => later[m][i].calls = runs[m][i].calls

Tables == [Nodes -> Seq(NodeRun)]
Executions == [Nodes -> Seq(Ends)]

(* u is at n from now on, which others may be at already.                  *)
LEMMA StartKeeps ==
  ASSUME NEW runs \in Tables, NEW es \in Executions, NEW mx, NEW ts, NEW later,
         NEW n \in Nodes, NEW u \in Tasks, Timeline(runs, es, mx, ts),
         later[u].at = n, ~later[u].over,
         \A t \in Tasks : t # u => later[t].at = ts[t].at /\ later[t].over = ts[t].over,
         NEW more, more = IF n \in {ts[t].at : t \in Tasks} THEN mx \cup {n} ELSE mx
  PROVE  /\ AddsExec(es, n) \in Executions
         /\ Timeline(AddsRecord(runs, n), AddsExec(es, n), more, later)
         /\ KeepsCalls(runs, AddsRecord(runs, n))
<1> DEFINE new == [status |-> "running", calls |-> 0]
           longer == Append(runs[n], new)
           longerEs == Append(es[n], "live")
<1>1. runs[n] \in Seq(NodeRun) /\ es[n] \in Seq(Ends)
  BY DEF Tables, Executions
<1>2. n \notin mx => Paired(longer, longerEs) /\ NewestOpen(longer)
  BY <1>1, PairedStart DEF Timeline
<1>3. new \in NodeRun /\ "live" \in Ends /\ DOMAIN runs[n] = 1..Len(runs[n])
  BY <1>1, LenProperties DEF NodeRun, RunStatus, Ends
<1> HIDE DEF new
<1>4. \A i \in DOMAIN runs[n] : longer[i] = runs[n][i]
  BY <1>1, <1>3, AppendProperties
<1>5. /\ longerEs \in Seq(Ends) /\ Len(longer) = Len(runs[n]) + 1 /\ Len(longerEs) = Len(es[n]) + 1
  BY <1>1, <1>3, AppendProperties
<1> HIDE DEF longer, longerEs
<1> DEFINE table == [runs EXCEPT ![n] = longer]
           es2 == [es EXCEPT ![n] = longerEs]
<1>6. es2 \in Executions
  BY <1>5 DEF Executions
<1>7. \A m \in Nodes : /\ table[m] = IF m = n THEN longer ELSE runs[m]
                       /\ es2[m] = IF m = n THEN longerEs ELSE es[m]
  BY DEF Tables, Executions
<1>8. KeepsCalls(runs, table)
  BY <1>4, <1>7 DEF KeepsCalls
<1>9. mx \subseteq more /\ (n \notin more => n \notin mx /\ \A t \in Tasks : ts[t].at # n)
  OBVIOUS
<1> HIDE DEF table, es2
<1>10. \A m \in Nodes : Len(table[m]) = Len(es2[m])
  BY <1>5, <1>7 DEF Timeline
<1>11. \A m \in Nodes \ more : Paired(table[m], es2[m])
  BY <1>2, <1>7, <1>9 DEF Timeline
<1>12. ASSUME NEW t \in Tasks, later[t].at \in Nodes \ more
       PROVE  /\ ~later[t].over => NewestOpen(table[later[t].at])
              /\ later[t].over => NewestClosed(table[later[t].at])
              /\ \A v \in Tasks : later[v].at = later[t].at => v = t
  <2>1. CASE t = u
    BY <1>2, <1>7, <1>9, <1>12, <2>1
  <2>2. CASE t # u
    <3>1. later[t].at = ts[t].at /\ later[t].over = ts[t].over /\ ts[t].at \in Nodes \ mx
      BY <1>9, <1>12, <2>2
    <3>2. ts[t].at # n
      BY <1>9, <1>12, <3>1
    <3> QED
      BY <1>7, <2>2, <3>1, <3>2 DEF Timeline
  <2> QED
    BY <2>1, <2>2
<1>13. Timeline(table, es2, more, later)
  BY <1>10, <1>11, <1>12 DEF Timeline
<1> QED
  BY <1>6, <1>8, <1>13 DEF longer, longerEs, new, AddsRecord, AddsExec, table, es2

(* The execution of n ends, and the task that was in it leaves or is over.  *)
Leaving(ts, later, u, n) ==
  /\ n \in Nodes /\ ts[u].at = n
  /\ later[u].at = NoNode \/ (later[u].at = n /\ later[u].over)
  /\ \A t \in Tasks : t # u => later[t].at = ts[t].at /\ later[t].over = ts[t].over

EndedWell(runs, es, mx, later, n) ==
  /\ EndsExec(es, n) \in Executions
  /\ Timeline(ClosesRecord(runs, n), EndsExec(es, n), mx, later)
  /\ KeepsCalls(runs, ClosesRecord(runs, n))

LEMMA EndKeeps ==
  ASSUME NEW runs \in Tables, NEW es \in Executions, NEW mx, NEW ts, NEW later,
         NEW n, NEW u \in Tasks, Timeline(runs, es, mx, ts), Leaving(ts, later, u, n)
  PROVE  EndedWell(runs, es, mx, later, n)
<1> USE DEF Leaving
<1> DEFINE closed == ClosedRuns(runs[n])
           done == Ended(es[n], "done")
<1>1. runs[n] \in Seq(NodeRun) /\ es[n] \in Seq(Ends)
  BY DEF Tables, Executions
<1>2. "done" \in Ends /\ DOMAIN runs[n] = 1..Len(runs[n])
  BY <1>1, LenProperties DEF Ends
<1>3. /\ done \in Seq(Ends) /\ Len(done) = Len(es[n]) /\ Len(closed) = Len(runs[n])
      /\ n \notin mx => Paired(closed, done)
      /\ NewestClosed(closed)
  <2>1. done \in Seq(Ends) /\ Len(done) = Len(es[n])
    BY <1>1, <1>2, EndedIs
  <2>2. Len(closed) = Len(runs[n]) /\ NewestClosed(closed)
    BY <1>1, ClosedRunsIs, ClosedNewest
  <2>3. n \notin mx => Paired(closed, done)
    BY <1>1, PairedEnd DEF Timeline
  <2> QED
    BY <2>1, <2>2, <2>3
<1>4. \A i \in DOMAIN runs[n] : closed[i].calls = runs[n][i].calls
  BY <1>1, <1>2, ClosedRunsIs
<1> HIDE DEF closed, done
<1> DEFINE table == [runs EXCEPT ![n] = closed]
           es2 == [es EXCEPT ![n] = done]
<1>5. es2 \in Executions
  BY <1>3 DEF Executions
<1>6. \A m \in Nodes : /\ table[m] = IF m = n THEN closed ELSE runs[m]
                       /\ es2[m] = IF m = n THEN done ELSE es[m]
  BY DEF Tables, Executions
<1>7. KeepsCalls(runs, table)
  BY <1>4, <1>6 DEF KeepsCalls
<1> HIDE DEF table, es2
<1>8. \A m \in Nodes : Len(table[m]) = Len(es2[m])
  BY <1>3, <1>6 DEF Timeline
<1>9. \A m \in Nodes \ mx : Paired(table[m], es2[m])
  BY <1>3, <1>6 DEF Timeline
<1>10. ASSUME NEW t \in Tasks, later[t].at \in Nodes \ mx
       PROVE  /\ ~later[t].over => NewestOpen(table[later[t].at])
              /\ later[t].over => NewestClosed(table[later[t].at])
              /\ \A v \in Tasks : later[v].at = later[t].at => v = t
  <2>1. CASE t = u
    <3>1. later[t].at = n /\ later[t].over
      BY <1>10, <2>1, NoNodeIsNone
    <3>2. \A v \in Tasks : v # u => later[v].at # n
      BY <1>10, <3>1 DEF Timeline
    <3> QED
      BY <1>3, <1>6, <2>1, <3>1, <3>2
  <2>2. CASE t # u
    <3>1. later[t].at = ts[t].at /\ later[t].over = ts[t].over
      BY <2>2
    <3>2. ts[t].at # n
      BY <1>10, <2>2, <3>1 DEF Timeline
    <3>3. \A v \in Tasks : later[v].at = later[t].at => ts[v].at = ts[t].at
      BY <1>10, <3>1, <3>2, NoNodeIsNone
    <3> QED
      BY <1>6, <1>10, <3>1, <3>2, <3>3 DEF Timeline
  <2> QED
    BY <2>1, <2>2
<1>11. Timeline(table, es2, mx, later)
  BY <1>8, <1>9, <1>10 DEF Timeline
<1> QED
  BY <1>5, <1>7, <1>11 DEF closed, done, ClosesRecord, EndsExec, table, es2, EndedWell

(* A completion of n when no execution of it ends: of a node that was        *)
(* skipped, or one that timed out before.                                  *)
LEMMA AgainKeeps ==
  ASSUME NEW runs \in Tables, NEW es \in Executions, NEW mx, NEW ts, NEW later, NEW n \in Nodes,
         NEW more, mx \subseteq more, Timeline(runs, es, mx, ts),
         n \notin more => NewestClosed(runs[n]) /\ \A t \in Tasks : later[t].at # n,
         \A t \in Tasks : \/ later[t].at = NoNode
                          \/ later[t].at = ts[t].at /\ later[t].over = ts[t].over
  PROVE  /\ Timeline(ClosesRecord(runs, n), es, more, later)
         /\ KeepsCalls(runs, ClosesRecord(runs, n))
<1> DEFINE closed == ClosedRuns(runs[n])
<1>1. runs[n] \in Seq(NodeRun) /\ es[n] \in Seq(Ends)
  BY DEF Tables, Executions
<1>2. DOMAIN runs[n] = 1..Len(runs[n])
  BY <1>1, LenProperties
<1>3. n \notin more => Paired(closed, es[n])
  BY <1>1, PairedAgain DEF Timeline
<1>4. /\ Len(closed) = Len(runs[n])
      /\ \A i \in DOMAIN runs[n] : closed[i].calls = runs[n][i].calls
  BY <1>1, <1>2, ClosedRunsIs
<1> HIDE DEF closed
<1> DEFINE table == [runs EXCEPT ![n] = closed]
<1>5. \A m \in Nodes : table[m] = IF m = n THEN closed ELSE runs[m]
  BY DEF Tables
<1>6. KeepsCalls(runs, table)
  BY <1>4, <1>5 DEF KeepsCalls
<1> HIDE DEF table
<1>7. ASSUME NEW t \in Tasks, later[t].at \in Nodes \ more
      PROVE  /\ ~later[t].over => NewestOpen(table[later[t].at])
             /\ later[t].over => NewestClosed(table[later[t].at])
             /\ \A v \in Tasks : later[v].at = later[t].at => v = t
  <2>1. later[t].at = ts[t].at /\ later[t].over = ts[t].over /\ ts[t].at # n
    BY <1>7, NoNodeIsNone
  <2>2. \A v \in Tasks : later[v].at = later[t].at => ts[v].at = ts[t].at
    BY <1>7, <2>1, NoNodeIsNone
  <2> QED
    BY <1>5, <1>7, <2>1, <2>2 DEF Timeline
<1>8. Timeline(table, es, more, later)
  BY <1>3, <1>4, <1>5, <1>7 DEF Timeline
<1> QED
  BY <1>6, <1>8 DEF closed, ClosesRecord, table

(* What is cut was in its node, and its record stays open.                 *)
LEMMA CutKeeps ==
  ASSUME NEW runs \in Tables, NEW es \in Executions, NEW mx, NEW ts, NEW later, NEW off,
         Timeline(runs, es, mx, ts),
         \A n \in off : \E t \in Tasks : ts[t].at = n /\ ~ts[t].over,
         \A t \in Tasks : \/ later[t].at = NoNode
                          \/ later[t].at = ts[t].at /\ later[t].over = ts[t].over
  PROVE  CutsExecs(es, off) \in Executions /\ Timeline(runs, CutsExecs(es, off), mx, later)
<1>1. "cut" \in Ends
  BY DEF Ends
<1>2. \A m \in Nodes : es[m] \in Seq(Ends) /\ runs[m] \in Seq(NodeRun)
  BY DEF Tables, Executions
<1>3. \A m \in Nodes : Ended(es[m], "cut") \in Seq(Ends) /\ Len(Ended(es[m], "cut")) = Len(es[m])
  BY <1>1, <1>2, EndedIs
<1>4. \A m \in Nodes \ mx : m \in off => Paired(runs[m], Ended(es[m], "cut"))
  <2> SUFFICES ASSUME NEW m \in Nodes \ mx, m \in off PROVE Paired(runs[m], Ended(es[m], "cut"))
    OBVIOUS
  <2>1. NewestOpen(runs[m]) /\ Paired(runs[m], es[m])
    BY DEF Timeline
  <2> QED
    BY <1>2, <2>1, PairedCut
<1> DEFINE es2 == CutsExecs(es, off)
<1>5. /\ \A m \in Nodes : es2[m] = IF m \in off THEN Ended(es[m], "cut") ELSE es[m]
  BY DEF CutsExecs
<1>6. es2 \in Executions
  BY <1>2, <1>3 DEF CutsExecs, Executions
<1> HIDE DEF es2
<1>7. ASSUME NEW t \in Tasks, later[t].at \in Nodes \ mx
      PROVE  /\ ~later[t].over => NewestOpen(runs[later[t].at])
             /\ later[t].over => NewestClosed(runs[later[t].at])
             /\ \A v \in Tasks : later[v].at = later[t].at => v = t
  <2>1. later[t].at = ts[t].at /\ later[t].over = ts[t].over
    BY <1>7, NoNodeIsNone
  <2>2. \A v \in Tasks : later[v].at = later[t].at => ts[v].at = ts[t].at
    BY <1>7, <2>1, NoNodeIsNone
  <2> QED
    BY <1>7, <2>1, <2>2 DEF Timeline
<1>8. Timeline(runs, es2, mx, later)
  BY <1>3, <1>4, <1>5, <1>7 DEF Timeline
<1> QED
  BY <1>6, <1>8 DEF es2

LEMMA BookedKeeps ==
  ASSUME NEW runs \in Tables, NEW es \in Executions, NEW mx, NEW ts, NEW n \in Nodes,
         Timeline(runs, es, mx, ts), runs[n] # <<>>, NewestOpen(runs[n])
  PROVE  /\ Timeline(BooksCall(runs, n), es, mx, ts)
         /\ BooksCall(runs, n)[n] # <<>> /\ NewestOpen(BooksCall(runs, n)[n])
         /\ FinalCalls(runs, BooksCall(runs, n))
<1> DEFINE booked == BookedCall(runs[n])
<1>1. runs[n] \in Seq(NodeRun) /\ es[n] \in Seq(Ends)
  BY DEF Tables, Executions
<1>2. n \notin mx => Paired(booked, es[n])
  BY <1>1, PairedBooked DEF Timeline
<1>3. booked # <<>> /\ NewestOpen(booked)
  BY <1>1, BookedNewest
<1>4. /\ Len(booked) = Len(runs[n])
      /\ \A i \in 1..Len(runs[n]) : i # Len(runs[n]) => booked[i].calls = runs[n][i].calls
  BY <1>1, BookedCallIs
<1>5. DOMAIN runs[n] = 1..Len(runs[n])
  BY <1>1, LenProperties
<1> HIDE DEF booked
<1> DEFINE table == [runs EXCEPT ![n] = booked]
<1>6. \A m \in Nodes : table[m] = IF m = n THEN booked ELSE runs[m]
  BY DEF Tables
<1> HIDE DEF table
<1>7. FinalCalls(runs, table)
  BY <1>4, <1>5, <1>6 DEF FinalCalls, NewestOpen
<1>8. ASSUME NEW t \in Tasks, ts[t].at \in Nodes \ mx
      PROVE  /\ ~ts[t].over => NewestOpen(table[ts[t].at])
             /\ ts[t].over => NewestClosed(table[ts[t].at])
             /\ \A v \in Tasks : ts[v].at = ts[t].at => v = t
  <2>1. ts[t].at = n => ~ts[t].over
    BY <1>8 DEF Timeline, NewestOpen, NewestClosed
  <2> QED
    BY <1>3, <1>6, <1>8, <2>1 DEF Timeline
<1>9. Timeline(table, es, mx, ts)
  BY <1>2, <1>4, <1>6, <1>8 DEF Timeline
<1> QED
  BY <1>3, <1>6, <1>7, <1>9 DEF booked, BooksCall, table

(* The newest record of what is current is open.                           *)
CurrentOpen(s) == s.current # NoNode => s.runs[s.current] # <<>> /\ NewestOpen(s.runs[s.current])

(* An engine alone can be behind its time, in a node; a branch is in one.   *)
Placed(ts) ==
  \A t \in Tasks : /\ ts[t].over => ts[t].kind = "engine" /\ ts[t].at # NoNode
                   /\ ts[t].kind = "branch" => ts[t].at # NoNode

(* The aggregator's state has been made when a task is at work, and a call  *)
(* is booked where the newest record is open.                              *)
SeenInv ==
  /\ seen \in RunState /\ execs \in Executions
  /\ CurrentOpen(seen)
  /\ \A t \in Tasks : tasks[t].kind # "none" => seen.status # "none"
  /\ Placed(tasks)
  /\ Timeline(seen.runs, execs, mixed, tasks)

LEMMA EmptyTimeline ==
  ASSUME NEW mx, NEW ts, \A t, u \in Tasks : ts[t].at \in Nodes \ mx /\ ts[u].at = ts[t].at => u = t
  PROVE  /\ [n \in Nodes |-> <<>>] \in Executions
         /\ Timeline([n \in Nodes |-> <<>>], [n \in Nodes |-> <<>>], mx, ts)
<1>1. <<>> \in Seq(Ends) /\ Len(<<>>) = 0 /\ DOMAIN <<>> = {}
  BY EmptySeq
<1> QED
  BY <1>1 DEF Timeline, Paired, NewestOpen, NewestClosed, Executions

LEMMA SeenInit == RunsInit => SeenInv
<1> SUFFICES ASSUME RunsInit PROVE SeenInv
  OBVIOUS
<1>1. /\ seen = NoRun /\ tasks = [t \in Tasks |-> NoTask] /\ mixed = {}
      /\ execs = [n \in Nodes |-> <<>>]
  BY Zenon DEF RunsInit
<1>2. NoRun \in RunState /\ NoRun.runs = [n \in Nodes |-> <<>>] /\ NoRun.current = NoNode
  <2>1. <<>> \in Seq(NodeRun)
    BY EmptySeq
  <2> QED
    BY <2>1 DEF NoRun, RunState
<1>3. \A t \in Tasks : tasks[t].at \notin Nodes
  BY <1>1, NoTaskIs, NoNodeIsNone
<1>4. execs \in Executions /\ Timeline(seen.runs, execs, mixed, tasks)
  BY <1>1, <1>2, <1>3, EmptyTimeline
<1> QED
  BY <1>1, <1>2, <1>4, NoTaskIs DEF SeenInv, CurrentOpen, Placed

(* What a step shows of the timeline, with the tasks it leaves.            *)
SeenGoal == SeenInv' /\ FinalCalls(seen.runs, seen'.runs)

LEMMA SeenFacts ==
  ASSUME SeenInv
  PROVE  /\ seen.runs \in Tables /\ execs \in Executions
         /\ Timeline(seen.runs, execs, mixed, tasks)
         /\ \A t \in Tasks : tasks[t].kind # "none" => Made(seen)
BY DEF SeenInv, RunState, Tables, Made

LEMMA KeptAreFinal ==
  ASSUME NEW runs, NEW later, KeepsCalls(runs, later)
  PROVE  FinalCalls(runs, later)
BY DEF KeepsCalls, FinalCalls

(* A node begins: u is the task that is at it.                             *)
LEMMA BeginsSeen ==
  ASSUME TasksInv, SeenInv, NEW t \in Tasks, tasks[t].kind # "none", NEW n \in Nodes, NEW u \in Tasks,
         seen' = NodeStart(seen, n), Begins(n),
         tasks'[u].at = n, tasks'[u].kind # "none", ~tasks'[u].over,
         \A v \in Tasks : v # u => tasks'[v] = tasks[v]
  PROVE  SeenGoal
<1>1. /\ seen.runs \in Tables /\ execs \in Executions
      /\ Timeline(seen.runs, execs, mixed, tasks) /\ Made(seen)
  BY SeenFacts
<1> DEFINE now == seen'
           table == AddsRecord(seen.runs, n)
<1>2. Made(now) /\ now.current = n /\ now.runs = table
  BY <1>1, NodeStartIs
<1>3. /\ execs' = AddsExec(execs, n)
      /\ mixed' = IF n \in {tasks[v].at : v \in Tasks} THEN mixed \cup {n} ELSE mixed
  BY DEF Begins, AddsExec, Occupied
<1> DEFINE later == tasks'
           more == mixed'
<1>4. /\ AddsExec(execs, n) \in Executions
      /\ Timeline(table, AddsExec(execs, n), more, later)
      /\ KeepsCalls(seen.runs, table)
  <2>1. \A v \in Tasks : v # u => later[v].at = tasks[v].at /\ later[v].over = tasks[v].over
    OBVIOUS
  <2>2. later[u].at = n /\ ~later[u].over
    OBVIOUS
  <2> HIDE DEF later, more
  <2>3. more = IF n \in {tasks[v].at : v \in Tasks} THEN mixed \cup {n} ELSE mixed
    BY <1>3 DEF more
  <2> QED
    BY <1>1, <2>1, <2>2, <2>3, StartKeeps
<1>5. table[n] # <<>> /\ NewestOpen(table[n])
  <2>1. seen.runs[n] \in Seq(NodeRun)
    BY <1>1 DEF Tables
  <2> DEFINE new == [status |-> "running", calls |-> 0]
             longer == Append(seen.runs[n], new)
  <2>2. new \in NodeRun /\ new.status = "running"
    BY DEF NodeRun, RunStatus
  <2>3. table[n] = longer
    BY <1>1 DEF Tables, AddsRecord
  <2> HIDE DEF new
  <2>4. /\ longer \in Seq(NodeRun) /\ Len(longer) = Len(seen.runs[n]) + 1
        /\ longer[Len(seen.runs[n]) + 1] = new /\ Len(seen.runs[n]) \in Nat
    BY <2>1, <2>2, AppendProperties, LenProperties
  <2>5. longer # <<>>
    BY <2>4, EmptySeq
  <2> HIDE DEF longer, table
  <2> QED
    BY <2>2, <2>3, <2>4, <2>5 DEF NewestOpen
<1>6. Placed(tasks')
  BY NoNodeIsNone DEF SeenInv, Placed
<1> HIDE DEF table
<1>7. FinalCalls(seen.runs, seen'.runs)
  BY <1>2, <1>4, KeptAreFinal
<1>8. seen' \in RunState /\ seen'.status # "none" /\ CurrentOpen(seen')
  BY <1>2, <1>5 DEF Made, CurrentOpen
<1>9. execs' \in Executions /\ Timeline(seen'.runs, execs', mixed', tasks')
  BY <1>2, <1>3, <1>4
<1> QED
  BY <1>6, <1>7, <1>8, <1>9 DEF SeenInv, SeenGoal

(* A completion closes a record, whatever of the tasks and executions.      *)
LEMMA CompletesSeen ==
  ASSUME SeenInv, NEW t \in Tasks, tasks[t].kind # "none", NEW n \in Nodes,
         seen' = NodeComplete(seen, n),
         KeepsCalls(seen.runs, ClosesRecord(seen.runs, n)),
         execs' \in Executions, Timeline(ClosesRecord(seen.runs, n), execs', mixed', tasks'),
         Placed(tasks')
  PROVE  SeenGoal
<1>1. Made(seen)
  BY SeenFacts
<1>2. Made(seen') /\ seen'.current = NoNode /\ seen'.runs = ClosesRecord(seen.runs, n)
  BY <1>1, NodeCompleteIs
<1>3. FinalCalls(seen.runs, seen'.runs)
  BY <1>2, KeptAreFinal
<1>4. seen' \in RunState /\ seen'.status # "none" /\ CurrentOpen(seen')
  BY <1>2 DEF Made, CurrentOpen
<1>5. Timeline(seen'.runs, execs', mixed', tasks')
  BY <1>2
<1> QED
  BY <1>3, <1>4, <1>5 DEF SeenInv, SeenGoal

(* What leaves the records alone.                                          *)
LEMMA QuietSeen ==
  ASSUME SeenInv, seen' = seen \/ Quiet(seen, seen'),
         execs' \in Executions, Timeline(seen.runs, execs', mixed', tasks'),
         Placed(tasks'),
         \A v \in Tasks : tasks'[v].kind # "none" => seen'.status # "none"
  PROVE  SeenGoal
<1>1. seen' \in RunState /\ seen'.runs = seen.runs /\ seen'.current = seen.current
  BY DEF SeenInv, Quiet, Made
<1>2. FinalCalls(seen.runs, seen'.runs)
  BY <1>1 DEF FinalCalls
<1>3. CurrentOpen(seen')
  BY <1>1 DEF SeenInv, CurrentOpen
<1> QED
  BY <1>1, <1>2, <1>3 DEF SeenInv, SeenGoal

(* A new state is made, of which no task has a record.                     *)
LEMMA ForgetsSeen ==
  ASSUME SeenInv, Forgets, NEW u \in Tasks, tasks'[u].at = NoNode, tasks'[u].over = FALSE,
         tasks'[u].kind # "branch",
         \A v \in Tasks : v # u => tasks'[v] = tasks[v]
  PROVE  SeenGoal
<1>1. seen' = PipelineStart /\ execs' = [n \in Nodes |-> <<>>] /\ mixed' = mixed
  BY DEF Forgets
<1>2. PipelineStart.runs = [n \in Nodes |-> <<>>]
  BY DEF PipelineStart, NoRun
<1> DEFINE later == tasks'
<1>3. \A t, v \in Tasks : later[t].at \in Nodes \ mixed /\ later[v].at = later[t].at => v = t
  BY NoNodeIsNone DEF SeenInv, Timeline
<1> HIDE DEF later
<1>4. /\ [n \in Nodes |-> <<>>] \in Executions
      /\ Timeline([n \in Nodes |-> <<>>], [n \in Nodes |-> <<>>], mixed, later)
  BY <1>3, EmptyTimeline
<1>5. execs' \in Executions /\ Timeline(seen'.runs, execs', mixed', tasks')
  BY <1>1, <1>2, <1>4 DEF later
<1>6. FinalCalls(seen.runs, seen'.runs)
  BY <1>1, PipelineStartIs DEF FinalCalls
<1>7. seen' \in RunState /\ CurrentOpen(seen') /\ seen'.status # "none"
  BY <1>1, PipelineStartIs DEF Made, CurrentOpen
<1>8. Placed(tasks')
  BY DEF SeenInv, Placed
<1> QED
  BY <1>5, <1>6, <1>7, <1>8 DEF SeenInv, SeenGoal

LEMMA LeftKeeps ==
  ASSUME NEW runs, NEW es, NEW mx, NEW ts, NEW later, Timeline(runs, es, mx, ts),
         \A t \in Tasks : \/ later[t].at = NoNode
                          \/ later[t].at = ts[t].at /\ later[t].over = ts[t].over
  PROVE  Timeline(runs, es, mx, later)
<1> SUFFICES ASSUME NEW t \in Tasks, later[t].at \in Nodes \ mx
             PROVE  /\ ~later[t].over => NewestOpen(runs[later[t].at])
                    /\ later[t].over => NewestClosed(runs[later[t].at])
                    /\ \A v \in Tasks : later[v].at = later[t].at => v = t
  BY DEF Timeline
<1>1. later[t].at = ts[t].at /\ later[t].over = ts[t].over
  BY NoNodeIsNone
<1>2. \A v \in Tasks : later[v].at = later[t].at => ts[v].at = ts[t].at
  BY <1>1, NoNodeIsNone
<1> QED
  BY <1>1, <1>2 DEF Timeline

(* Whatever is cut, the tasks that are not keep their nodes.               *)
LEMMA CutAtKeeps ==
  ASSUME SeenInv, NEW gone \in SUBSET Tasks, NEW later,
         \A t \in Tasks : \/ later[t].at = NoNode
                          \/ later[t].at = tasks[t].at /\ later[t].over = tasks[t].over
  PROVE  CutAt(gone) \in Executions /\ Timeline(seen.runs, CutAt(gone), mixed, later)
<1> DEFINE off == {tasks[u].at : u \in {v \in gone : InNode(v)}}
<1>1. CutAt(gone) = CutsExecs(execs, off)
  BY DEF CutAt, Cuts, CutsExecs
<1>2. \A n \in off : \E t \in Tasks : tasks[t].at = n /\ ~tasks[t].over
  BY DEF InNode
<1> HIDE DEF off
<1>3. /\ seen.runs \in Tables /\ execs \in Executions
      /\ Timeline(seen.runs, execs, mixed, tasks)
  BY SeenFacts
<1> QED
  BY <1>1, <1>2, <1>3, CutKeeps

LEMMA EnterSeen ==
  ASSUME TasksInv, SeenInv, NEW t \in Tasks, NEW n \in Nodes, Enter(t, n)
  PROVE  SeenGoal
<1> DEFINE new == [tasks[t] EXCEPT !.at = n]
<1>1. tasks[t] \in Task /\ tasks[t].kind # "none" /\ tasks[t].at = NoNode
      /\ tasks \in [Tasks -> Task]
  BY DEF Enter, BetweenNodes, TasksInv, Tree
<1>2. ~tasks[t].over
  BY <1>1 DEF SeenInv, Placed
<1>3. new.at = n /\ new.kind = tasks[t].kind /\ new.over = tasks[t].over
  BY <1>1 DEF Task
<1>4. tasks' = [tasks EXCEPT ![t] = new] /\ seen' = NodeStart(seen, n) /\ Begins(n)
  BY DEF Enter
<1> HIDE DEF new
<1>5. tasks'[t] = new /\ \A v \in Tasks : v # t => tasks'[v] = tasks[v]
  BY <1>1, <1>4
<1> QED
  BY <1>1, <1>2, <1>3, <1>4, <1>5, BeginsSeen

LEMMA StartBranchSeen ==
  ASSUME TasksInv, SeenInv, NEW t \in Tasks, NEW u \in Tasks, NEW b \in Nodes, StartBranch(t, u, b)
  PROVE  SeenGoal
<1> DEFINE new == [kind |-> "branch", at |-> b, over |-> FALSE, under |-> tasks[t].under \cup {t},
                   fresh |-> job.backend = "own loop" /\ (tasks[t].fresh \/ client = "none")]
<1>1. tasks[t].kind # "none" /\ tasks \in [Tasks -> Task]
  BY NoTaskIs DEF StartBranch, InNode, TasksInv, Tree
<1>2. new.at = b /\ new.kind # "none" /\ ~new.over
  OBVIOUS
<1>3. tasks' = [tasks EXCEPT ![u] = new] /\ seen' = NodeStart(seen, b) /\ Begins(b)
  BY DEF StartBranch
<1> HIDE DEF new
<1>4. tasks'[u] = new /\ \A v \in Tasks : v # u => tasks'[v] = tasks[v]
  BY <1>1, <1>3
<1> QED
  BY <1>1, <1>2, <1>3, <1>4, BeginsSeen

LEMMA SkipSeen ==
  ASSUME TasksInv, SeenInv, NEW t \in Tasks, NEW n \in Nodes, Skip(t, n)
  PROVE  SeenGoal
<1>1. /\ tasks[t].kind # "none" /\ seen' = NodeComplete(seen, n) /\ UNCHANGED <<tasks, execs>>
      /\ mixed' = IF n \in Occupied \/ (execs[n] # <<>> /\ execs[n][Len(execs[n])] # "done")
                  THEN mixed \cup {n} ELSE mixed
  BY DEF Skip, Engine
<1>2. /\ seen.runs \in Tables /\ execs \in Executions
      /\ Timeline(seen.runs, execs, mixed, tasks)
  BY SeenFacts
<1> DEFINE more == mixed'
<1>3. mixed \subseteq more
  BY <1>1
<1>4. n \notin more => NewestClosed(seen.runs[n]) /\ \A v \in Tasks : tasks[v].at # n
  <2> SUFFICES ASSUME n \notin more
               PROVE  NewestClosed(seen.runs[n]) /\ \A v \in Tasks : tasks[v].at # n
    OBVIOUS
  <2>1. /\ n \notin Occupied /\ n \notin mixed
        /\ execs[n] = <<>> \/ execs[n][Len(execs[n])] = "done"
    BY <1>1
  <2>2. Paired(seen.runs[n], execs[n]) /\ seen.runs[n] \in Seq(NodeRun) /\ execs[n] \in Seq(Ends)
    BY <1>2, <2>1 DEF Timeline, Tables, Executions
  <2>3. Len(seen.runs[n]) = Len(execs[n]) /\ DOMAIN execs[n] = 1..Len(execs[n])
    BY <2>2, LenProperties DEF Paired
  <2>4. seen.runs[n] # <<>> => execs[n] # <<>> /\ Len(execs[n]) \in 1..Len(execs[n])
    BY <2>2, <2>3, EmptySeq, LenProperties
  <2>5. NewestClosed(seen.runs[n])
    BY <2>1, <2>2, <2>3, <2>4 DEF NewestClosed, Paired
  <2> QED
    BY <2>1, <2>5 DEF Occupied
<1> HIDE DEF more
<1>5. /\ Timeline(ClosesRecord(seen.runs, n), execs, more, tasks)
      /\ KeepsCalls(seen.runs, ClosesRecord(seen.runs, n))
  BY <1>2, <1>3, <1>4, AgainKeeps
<1>6. execs' \in Executions /\ Timeline(ClosesRecord(seen.runs, n), execs', mixed', tasks')
  BY <1>1, <1>2, <1>5 DEF more
<1>7. Placed(tasks')
  BY <1>1 DEF SeenInv, Placed
<1> QED
  BY <1>1, <1>5, <1>6, <1>7, CompletesSeen

LEMMA LeaveSeen ==
  ASSUME TasksInv, SeenInv, NEW t \in Tasks, Leave(t)
  PROVE  SeenGoal
<1> DEFINE n == tasks[t].at
           new == [[tasks[t] EXCEPT !.at = NoNode] EXCEPT !.over = FALSE]
<1>1. /\ tasks[t].kind # "none" /\ n \in Nodes /\ tasks \in [Tasks -> Task] /\ tasks[t] \in Task
      /\ seen' = NodeComplete(seen, n) /\ mixed' = mixed
  BY DEF Leave, TasksInv, Tree, Task
<1>2. tasks' = [tasks EXCEPT ![t] = new]
  BY Zenon DEF Leave
<1>3. new.at = NoNode /\ new.over = FALSE /\ new.kind # "branch"
  <2> DEFINE between == [tasks[t] EXCEPT !.at = NoNode]
  <2>1. between \in Task /\ between.at = NoNode /\ between.kind = tasks[t].kind
    BY <1>1 DEF Task
  <2> HIDE DEF between
  <2>2. LET last == [between EXCEPT !.over = FALSE] IN
        last.at = NoNode /\ last.over = FALSE /\ last.kind = between.kind
    BY <2>1 DEF Task
  <2>3. tasks[t].kind # "branch"
    BY DEF Leave
  <2> QED
    BY <2>1, <2>2, <2>3 DEF between
<1>4. /\ seen.runs \in Tables /\ execs \in Executions
      /\ Timeline(seen.runs, execs, mixed, tasks)
  BY SeenFacts
<1> HIDE DEF new
<1> DEFINE later == tasks'
<1>5. later[t] = new /\ \A v \in Tasks : v # t => later[v] = tasks[v]
  BY <1>1, <1>2
<1> HIDE DEF later
<1>6. CASE tasks[t].over
  <2>1. execs' = execs
    BY <1>4, <1>6 DEF Leave, Executions
  <2>2. n \notin mixed => NewestClosed(seen.runs[n]) /\ \A v \in Tasks : later[v].at # n
    BY <1>1, <1>3, <1>4, <1>5, <1>6, NoNodeIsNone DEF Timeline
  <2>3. /\ Timeline(ClosesRecord(seen.runs, n), execs, mixed, later)
        /\ KeepsCalls(seen.runs, ClosesRecord(seen.runs, n))
    BY <1>1, <1>3, <1>4, <1>5, <2>2, AgainKeeps
  <2>4. execs' \in Executions /\ Timeline(ClosesRecord(seen.runs, n), execs', mixed', tasks')
    BY <1>1, <1>4, <2>1, <2>3 DEF later
  <2>5. Placed(tasks')
    BY <1>3, <1>5 DEF SeenInv, Placed, later
  <2> QED
    BY <1>1, <2>3, <2>4, <2>5, CompletesSeen
<1>7. CASE ~tasks[t].over
  <2>1. execs' = EndsExec(execs, n)
    BY <1>4, <1>7 DEF Leave, EndsExec
  <2>2. /\ EndsExec(execs, n) \in Executions
        /\ Timeline(ClosesRecord(seen.runs, n), EndsExec(execs, n), mixed, later)
        /\ KeepsCalls(seen.runs, ClosesRecord(seen.runs, n))
    <3>1. Leaving(tasks, later, t, n)
      BY <1>1, <1>3, <1>5 DEF Leaving
    <3> HIDE DEF n
    <3>2. EndedWell(seen.runs, execs, mixed, later, n)
      BY <1>4, <3>1, EndKeeps
    <3> QED
      BY <3>2 DEF EndedWell
  <2>3. execs' \in Executions /\ Timeline(ClosesRecord(seen.runs, n), execs', mixed', tasks')
    BY <1>1, <2>1, <2>2 DEF later
  <2>4. Placed(tasks')
    BY <1>3, <1>5 DEF SeenInv, Placed, later
  <2> QED
    BY <1>1, <2>2, <2>3, <2>4, CompletesSeen
<1> QED
  BY <1>6, <1>7

LEMMA EndBranchSeen ==
  ASSUME TasksInv, SeenInv, NEW t \in Tasks, EndBranch(t)
  PROVE  SeenGoal
<1> DEFINE n == tasks[t].at
<1>1. /\ tasks[t].kind = "branch" /\ tasks \in [Tasks -> Task] /\ tasks[t] \in Task
      /\ seen' = NodeComplete(seen, n) /\ mixed' = mixed
      /\ tasks' = [tasks EXCEPT ![t] = NoTask] /\ execs' = EndsExec(execs, n)
  BY DEF EndBranch, TasksInv, Tree, Branch, EndsExec
<1>2. n \in Nodes
  BY <1>1 DEF SeenInv, Placed, Task
<1>3. /\ seen.runs \in Tables /\ execs \in Executions
      /\ Timeline(seen.runs, execs, mixed, tasks)
  BY SeenFacts
<1> DEFINE later == tasks'
<1>4. later[t] = NoTask /\ \A v \in Tasks : v # t => later[v] = tasks[v]
  BY <1>1
<1> HIDE DEF later
<1>5. /\ EndsExec(execs, n) \in Executions
      /\ Timeline(ClosesRecord(seen.runs, n), EndsExec(execs, n), mixed, later)
      /\ KeepsCalls(seen.runs, ClosesRecord(seen.runs, n))
  <2>1. Leaving(tasks, later, t, n)
    BY <1>2, <1>4, NoTaskIs DEF Leaving
  <2> HIDE DEF n
  <2>2. EndedWell(seen.runs, execs, mixed, later, n)
    BY <1>3, <2>1, EndKeeps
  <2> QED
    BY <2>2 DEF EndedWell
<1>6. execs' \in Executions /\ Timeline(ClosesRecord(seen.runs, n), execs', mixed', tasks')
  BY <1>1, <1>5 DEF later
<1>7. Placed(tasks')
  BY <1>4, NoTaskIs DEF SeenInv, Placed, later
<1> QED
  BY <1>1, <1>2, <1>5, <1>6, <1>7, CompletesSeen

LEMMA TimesOutSeen ==
  ASSUME TasksInv, SeenInv, NEW t \in Tasks, TimesOut(t)
  PROVE  SeenGoal
<1> DEFINE n == tasks[t].at
<1>1. /\ tasks[t].kind = "engine" /\ n \in Nodes /\ ~tasks[t].over /\ tasks \in [Tasks -> Task]
      /\ seen' = NodeComplete(seen, n) /\ mixed' = mixed
  BY DEF TimesOut, Engine, InNode, TasksInv, Tree, Task
<1>2. PICK left \in Leftovers(Below(t)) :
        /\ tasks' = [Stopped(Below(t) \ left, left) EXCEPT ![t].over = TRUE]
        /\ execs' = [CutAt(Below(t) \ left) EXCEPT ![n] = Ended(@, "done")]
  BY DEF TimesOut
<1> DEFINE gone == Below(t) \ left
           ts == Stopped(gone, left)
           new == [ts[t] EXCEPT !.over = TRUE]
           cutEs == CutAt(gone)
<1>3. StoppedAs(gone, left, ts)
  BY <1>1, StoppedIs
<1>4. gone \in SUBSET Tasks /\ t \notin gone
  BY DEF Below, TasksInv, Tree
<1>5. tasks' = [ts EXCEPT ![t] = new] /\ execs' = EndsExec(cutEs, n)
  BY <1>2, Zenon DEF EndsExec
<1> HIDE DEF ts, gone, cutEs
<1>6. \A v \in Tasks : \/ ts[v].at = NoNode
                       \/ ts[v].at = tasks[v].at /\ ts[v].over = tasks[v].over
  BY <1>3, NoTaskIs DEF StoppedAs
<1>7. cutEs \in Executions /\ Timeline(seen.runs, cutEs, mixed, ts)
  BY <1>4, <1>6, CutAtKeeps DEF cutEs
<1>8. ts[t].at = n /\ ts[t].kind = "engine" /\ ts[t] \in Task /\ ts \in [Tasks -> Task]
  BY <1>1, <1>3, <1>4 DEF StoppedAs
<1>9. new.at = n /\ new.kind = "engine" /\ new.over
  BY <1>8 DEF Task
<1> HIDE DEF new
<1> DEFINE later == tasks'
<1>10. later[t] = new /\ \A v \in Tasks : v # t => later[v] = ts[v]
  BY <1>5, <1>8
<1> HIDE DEF later
<1>11. /\ later[t].at = n /\ later[t].over
       /\ \A v \in Tasks : v # t => later[v].at = ts[v].at /\ later[v].over = ts[v].over
  BY <1>9, <1>10
<1>12. seen.runs \in Tables
  BY SeenFacts
<1>13. /\ EndsExec(cutEs, n) \in Executions
       /\ Timeline(ClosesRecord(seen.runs, n), EndsExec(cutEs, n), mixed, later)
       /\ KeepsCalls(seen.runs, ClosesRecord(seen.runs, n))
  <2>1. Leaving(ts, later, t, n)
    BY <1>1, <1>8, <1>11 DEF Leaving
  <2> HIDE DEF n
  <2>2. EndedWell(seen.runs, cutEs, mixed, later, n)
    BY <1>7, <1>12, <2>1, EndKeeps
  <2> QED
    BY <2>2 DEF EndedWell
<1>14. execs' \in Executions /\ Timeline(ClosesRecord(seen.runs, n), execs', mixed', tasks')
  BY <1>1, <1>5, <1>13 DEF later
<1>15. Placed(tasks')
  <2> SUFFICES ASSUME NEW v \in Tasks, v # t
               PROVE  /\ ts[v].over => ts[v].kind = "engine" /\ ts[v].at # NoNode
                      /\ ts[v].kind = "branch" => ts[v].at # NoNode
    BY <1>1, <1>9, <1>10, NoNodeIsNone DEF Placed, later
  <2>1. CASE v \in gone
    BY <1>3, <2>1, NoTaskIs DEF StoppedAs
  <2>2. CASE v \notin gone
    BY <1>3, <2>2 DEF StoppedAs, SeenInv, Placed
  <2> QED
    BY <2>1, <2>2
<1> QED
  BY <1>1, <1>13, <1>14, <1>15, CompletesSeen

(* A cut without an event.                                                 *)
LEMMA CutSeen ==
  ASSUME TasksInv, SeenInv, seen' = seen, mixed' = mixed,
         NEW gone \in SUBSET Tasks, NEW left,
         tasks' = Stopped(gone, left), execs' = CutAt(gone)
  PROVE  SeenGoal
<1> DEFINE ts == Stopped(gone, left)
<1>1. StoppedAs(gone, left, ts)
  BY StoppedIs DEF TasksInv, Tree
<1> HIDE DEF ts
<1>2. \A v \in Tasks : \/ ts[v].at = NoNode
                       \/ ts[v].at = tasks[v].at /\ ts[v].over = tasks[v].over
  BY <1>1, NoTaskIs DEF StoppedAs
<1>3. CutAt(gone) \in Executions /\ Timeline(seen.runs, CutAt(gone), mixed, ts)
  BY <1>2, CutAtKeeps
<1>4. Placed(ts)
  <2> SUFFICES ASSUME NEW v \in Tasks
               PROVE  /\ ts[v].over => ts[v].kind = "engine" /\ ts[v].at # NoNode
                      /\ ts[v].kind = "branch" => ts[v].at # NoNode
    BY DEF Placed
  <2>1. CASE v \in gone
    BY <1>1, <2>1, NoTaskIs DEF StoppedAs
  <2>2. CASE v \notin gone
    BY <1>1, <2>2 DEF StoppedAs, SeenInv, Placed
  <2> QED
    BY <2>1, <2>2
<1>5. /\ execs' \in Executions /\ Timeline(seen.runs, execs', mixed', tasks')
      /\ Placed(tasks')
  BY <1>3, <1>4 DEF ts
<1>6. \A v \in Tasks : ts[v].kind # "none" => seen.status # "none"
  <2> SUFFICES ASSUME NEW v \in Tasks, ts[v].kind # "none"
               PROVE  tasks[v].kind # "none"
    BY DEF SeenInv
  <2> QED
    BY <1>1, NoTaskIs DEF StoppedAs
<1>7. \A v \in Tasks : tasks'[v].kind # "none" => seen'.status # "none"
  BY <1>6 DEF ts
<1> QED
  BY <1>5, <1>7, QuietSeen

LEMMA CutBranchesSeen ==
  ASSUME TasksInv, SeenInv, NEW t \in Tasks, CutBranches(t)
  PROVE  SeenGoal
<1>1. PICK off \in SUBSET {u \in StartedBy(t) : Branch(u)} :
        \E left \in Leftovers(UNION {Below(u) : u \in off}) :
          /\ tasks' = Stopped(off \cup ((UNION {Below(u) : u \in off}) \ left), left)
          /\ execs' = CutAt(off \cup ((UNION {Below(u) : u \in off}) \ left))
  BY DEF CutBranches
<1> DEFINE below == UNION {Below(u) : u \in off}
<1>2. PICK left \in Leftovers(below) :
        tasks' = Stopped(off \cup (below \ left), left) /\ execs' = CutAt(off \cup (below \ left))
  BY <1>1
<1>3. off \cup (below \ left) \in SUBSET Tasks
  BY DEF StartedBy, Below
<1>4. seen' = seen /\ mixed' = mixed
  BY DEF CutBranches
<1> HIDE DEF below
<1> QED
  BY <1>2, <1>3, <1>4, CutSeen

LEMMA StartChildSeen ==
  ASSUME TasksInv, SeenInv, NEW t \in Tasks, NEW u \in Tasks, NEW kind \in {"engine", "subgraph"},
         StartChild(t, u, kind)
  PROVE  SeenGoal
<1> DEFINE new == [kind |-> kind, at |-> NoNode, over |-> FALSE, under |-> tasks[t].under \cup {t},
                   fresh |-> tasks[t].fresh]
<1>1. new.at = NoNode /\ new.over = FALSE /\ new.kind # "branch"
  OBVIOUS
<1>2. tasks \in [Tasks -> Task] /\ tasks[t].kind # "none"
  BY NoTaskIs DEF StartChild, InNode, TasksInv, Tree
<1>3. tasks' = [tasks EXCEPT ![u] = new]
  BY DEF StartChild
<1> HIDE DEF new
<1> DEFINE later == tasks'
<1>4. later[u] = new /\ \A v \in Tasks : v # u => later[v] = tasks[v]
  BY <1>2, <1>3
<1> HIDE DEF later
<1>5. CASE kind = "engine"
  BY <1>1, <1>4, <1>5, ForgetsSeen DEF StartChild, later
<1>6. CASE kind # "engine"
  <2>1. UNCHANGED <<seen, execs, mixed>>
    BY <1>6 DEF StartChild
  <2>2. Timeline(seen.runs, execs, mixed, later)
    <3>1. \A v \in Tasks : \/ later[v].at = NoNode
                           \/ later[v].at = tasks[v].at /\ later[v].over = tasks[v].over
      BY <1>1, <1>4
    <3> QED
      BY <3>1, SeenFacts, LeftKeeps
  <2>3. Placed(tasks')
    BY <1>1, <1>4 DEF SeenInv, Placed, later
  <2>4. execs' \in Executions /\ Timeline(seen.runs, execs', mixed', tasks') /\ seen'.status # "none"
    BY <1>2, <2>1, <2>2 DEF SeenInv, later
  <2> QED
    BY <2>1, <2>3, <2>4, QuietSeen
<1> QED
  BY <1>5, <1>6

(* The end of a walk with or without an event.                             *)
LEMMA EndsSeen ==
  ASSUME TasksInv, SeenInv, NEW t \in Tasks, tasks[t].kind # "none",
         seen' = seen \/ Quiet(seen, seen'), mixed' = mixed,
         tasks' = [tasks EXCEPT ![t] = NoTask], execs' = CutAt({t})
  PROVE  SeenGoal
<1> DEFINE later == tasks'
<1>1. later[t] = NoTask /\ \A v \in Tasks : v # t => later[v] = tasks[v]
  BY DEF TasksInv, Tree
<1> HIDE DEF later
<1>2. CutAt({t}) \in Executions /\ Timeline(seen.runs, CutAt({t}), mixed, later)
  <2>1. \A v \in Tasks : \/ later[v].at = NoNode
                         \/ later[v].at = tasks[v].at /\ later[v].over = tasks[v].over
    BY <1>1, NoTaskIs
  <2> QED
    BY <2>1, CutAtKeeps
<1>3. execs' \in Executions /\ Timeline(seen.runs, execs', mixed', tasks')
  BY <1>2 DEF later
<1>4. Placed(tasks')
  BY <1>1, NoTaskIs DEF SeenInv, Placed, later
<1>5. seen'.status # "none"
  BY DEF SeenInv, Quiet, Made
<1> QED
  BY <1>3, <1>4, <1>5, QuietSeen

LEMMA FinishesSeen ==
  ASSUME TasksInv, SeenInv, NEW t \in Tasks, NEW status, NEW how, Finishes(t, status, how)
  PROVE  SeenGoal
<1>1. tasks[t].kind # "none" /\ mixed' = mixed
      /\ tasks' = [tasks EXCEPT ![t] = NoTask] /\ execs' = CutAt({t})
  BY DEF Finishes, Engine
<1>2. Made(seen)
  BY <1>1, SeenFacts
<1> DEFINE s == IF how = "no edge" THEN PipelineError(seen) ELSE seen
           said == IF how = "cancel" THEN "cancelled" ELSE status
<1>3. Made(s) /\ s.runs = seen.runs /\ s.current = seen.current
  BY <1>2, QuietHandlers DEF Quiet
<1>4. seen' = PipelineComplete(s, said)
  BY DEF Finishes
<1> HIDE DEF s, said
<1>5. Quiet(s, PipelineComplete(s, said))
  BY <1>3, QuietHandlers
<1>6. Quiet(seen, seen')
  BY <1>3, <1>4, <1>5 DEF Quiet
<1> QED
  BY <1>1, <1>6, EndsSeen

LEMMA CallSeen ==
  ASSUME TasksInv, SeenInv, NEW t \in Tasks, Call(t)
  PROVE  SeenGoal
<1>1. /\ tasks[t].kind # "none" /\ seen' = ProviderResponse(seen)
      /\ UNCHANGED <<tasks, execs, mixed>>
  BY NoTaskIs DEF Call, InNode, TasksInv, Tree
<1>2. /\ seen.runs \in Tables /\ execs \in Executions
      /\ Timeline(seen.runs, execs, mixed, tasks) /\ Made(seen)
  BY <1>1, SeenFacts
<1> DEFINE n == seen.current
<1>3. /\ Made(seen') /\ seen'.current = n
      /\ seen'.runs = IF n = NoNode THEN seen.runs ELSE BooksCall(seen.runs, n)
  BY <1>1, <1>2, ProviderResponseIs
<1>4. CASE n = NoNode
  <2>1. Quiet(seen, seen')
    BY <1>3, <1>4 DEF Quiet
  <2> QED
    BY <1>1, <1>2, <2>1, QuietSeen DEF SeenInv, Quiet, Made
<1>5. CASE n # NoNode
  <2>1. n \in Nodes /\ seen.runs[n] # <<>> /\ NewestOpen(seen.runs[n])
    BY <1>5 DEF SeenInv, CurrentOpen, RunState
  <2> DEFINE table == BooksCall(seen.runs, n)
  <2>2. /\ Timeline(table, execs, mixed, tasks)
        /\ table[n] # <<>> /\ NewestOpen(table[n])
        /\ FinalCalls(seen.runs, table)
    <3> HIDE DEF n
    <3> QED
      BY <1>2, <2>1, BookedKeeps
  <2>3. seen'.runs = table
    BY <1>3, <1>5
  <2> HIDE DEF table
  <2>4. CurrentOpen(seen')
    BY <1>3, <2>2, <2>3 DEF CurrentOpen
  <2>5. Timeline(seen'.runs, execs', mixed', tasks') /\ Placed(tasks') /\ execs' \in Executions
    BY <1>1, <1>2, <2>2, <2>3 DEF SeenInv, Placed
  <2> QED
    BY <1>3, <2>2, <2>3, <2>4, <2>5 DEF SeenInv, SeenGoal, Made
<1> QED
  BY <1>4, <1>5

LEMMA SeenStep ==
  ASSUME TasksInv, SeenInv, [RunsNext]_runVars
  PROVE  SeenGoal
<1>1. CASE StartRun
  <2> DEFINE new == [NoTask EXCEPT !.kind = "engine"]
  <2>1. new.at = NoNode /\ new.over = FALSE /\ new.kind # "branch"
    BY DEF NoTask
  <2>2. tasks' = [tasks EXCEPT ![Top] = new] /\ Forgets
    BY <1>1 DEF StartRun
  <2> HIDE DEF new
  <2>3. Top \in Tasks /\ tasks'[Top] = new /\ \A v \in Tasks : v # Top => tasks'[v] = tasks[v]
    BY <2>2, RolesAssumption DEF TasksInv, Tree
  <2> QED
    BY <2>1, <2>2, <2>3, ForgetsSeen
<1>2. ASSUME NEW t \in Tasks, TaskStep(t) PROVE SeenGoal
  <2>1. CASE \E n \in Nodes : Enter(t, n) \/ Skip(t, n)
    BY <2>1, EnterSeen, SkipSeen
  <2>2. CASE \E u \in Tasks, b \in Nodes : StartBranch(t, u, b)
    BY <2>2, StartBranchSeen
  <2>3. CASE \E u \in Tasks, kind \in {"engine", "subgraph"} : StartChild(t, u, kind)
    BY <2>3, StartChildSeen
  <2>4. CASE Leave(t) \/ TimesOut(t) \/ EndBranch(t) \/ CutBranches(t) \/ Call(t)
    BY <2>4, LeaveSeen, TimesOutSeen, EndBranchSeen, CutBranchesSeen, CallSeen
  <2>5. CASE StageGivenUp(t)
    <3>1. seen' = StageFailed(seen) /\ UNCHANGED <<tasks, execs, mixed>> /\ tasks[t].kind # "none"
      BY <2>5 DEF StageGivenUp, Engine
    <3>2. Made(seen) /\ execs \in Executions /\ Timeline(seen.runs, execs, mixed, tasks)
      BY <3>1, SeenFacts
    <3>3. Quiet(seen, seen')
      BY <3>1, <3>2, QuietHandlers
    <3> QED
      BY <3>1, <3>2, <3>3, QuietSeen DEF SeenInv, Quiet, Made
  <2>6. CASE \E s \in Statuses, how \in Hows : EndChild(t, s, how)
    BY <2>6, FinishesSeen DEF EndChild
  <2>7. CASE ChildBreaks(t)
    BY <2>7, EndsSeen DEF ChildBreaks
  <2> QED
    BY <1>2, <2>1, <2>2, <2>3, <2>4, <2>5, <2>6, <2>7 DEF TaskStep
<1>3. CASE \E s \in Statuses, how \in Hows : FinishWalk(s, how)
  BY <1>3, RolesAssumption, FinishesSeen DEF FinishWalk
<1>4. CASE BreakWalk
  <2>1. PICK left \in Leftovers(Below(Top)) :
          /\ tasks' = Stopped({Top} \cup (Below(Top) \ left), left)
          /\ execs' = CutAt({Top} \cup (Below(Top) \ left))
    BY <1>4 DEF BreakWalk
  <2>2. {Top} \cup (Below(Top) \ left) \in SUBSET Tasks
    BY RolesAssumption DEF Below
  <2>3. seen' = seen /\ mixed' = mixed
    BY <1>4 DEF BreakWalk
  <2> QED
    BY <2>1, <2>2, <2>3, CutSeen
<1>5. CASE Way \/ Out \/ UNCHANGED runVars
  <2>1. UNCHANGED eventVars
    BY <1>5, OtherSteps DEF runVars
  <2>2. UNCHANGED <<seen, tasks, execs, mixed>>
    BY <2>1 DEF eventVars
  <2>3. SeenInv'
    BY <2>2 DEF SeenInv, Placed
  <2>4. FinalCalls(seen.runs, seen'.runs)
    BY <2>2 DEF FinalCalls
  <2> QED
    BY <2>3, <2>4 DEF SeenGoal
<1> QED
  BY <1>1, <1>2, <1>3, <1>4, <1>5 DEF RunsNext, Walk

(* The timeline has one record for every execution since its state was made, *)
(* and of a node that no two walks were at each record is closed exactly when *)
(* its own execution ended, whatever was nested, cut or left running          *)
(* (handle_node_start, handle_node_complete).                              *)
THEOREM RecordsMatchExecutionsHolds == RunsSpec => []RecordsMatchExecutions
<1>1. SeenInv => RecordsMatchExecutions
  <2> SUFFICES ASSUME SeenInv, NEW n \in Nodes
               PROVE  /\ Len(seen.runs[n]) = Len(execs[n])
                      /\ n \notin mixed =>
                           /\ \A i \in DOMAIN execs[n] :
                                (seen.runs[n][i].status = "running") <=> (execs[n][i] # "done")
                           /\ n \in ListedDone(seen) => n \notin Executed
    BY DEF RecordsMatchExecutions
  <2>1. /\ Len(seen.runs[n]) = Len(execs[n])
        /\ n \notin mixed => Paired(seen.runs[n], execs[n])
    BY DEF SeenInv, Timeline
  <2>2. ASSUME n \notin mixed, n \in Executed
        PROVE  NewestOpen(seen.runs[n])
    BY <2>2 DEF Executed, InNode, SeenInv, Timeline
  <2>3. n \notin mixed /\ n \in ListedDone(seen) => n \notin Executed
    BY <2>2 DEF ListedDone, NewestOpen
  <2> QED
    BY <2>1, <2>3 DEF Paired
<1>2. RunsInit => TasksInv /\ SeenInv
  BY TasksInit, SeenInit
<1>3. TasksInv /\ SeenInv /\ [RunsNext]_runVars => (TasksInv /\ SeenInv)'
  BY TasksStep, SeenStep DEF SeenGoal
<1> QED
  BY <1>1, <1>2, <1>3, PTL DEF RunsSpec

(* A provider call is booked on an open record or on none: what a closed     *)
(* record says of its calls is final (handle_provider_response).           *)
THEOREM ClosedRecordsKeepCallsHolds == RunsSpec => ClosedRecordsKeepCalls
<1> DEFINE Final ==
      \A n \in Nodes : \A i \in DOMAIN seen.runs[n] \cap DOMAIN seen.runs'[n] :
        seen.runs[n][i].status # "running" => seen.runs'[n][i].calls = seen.runs[n][i].calls
<1>1. TasksInv /\ SeenInv /\ [RunsNext]_runVars => [Final]_runVars
  BY SeenStep DEF SeenGoal, FinalCalls
<1>2. RunsInit => TasksInv /\ SeenInv
  BY TasksInit, SeenInit
<1>3. TasksInv /\ SeenInv /\ [RunsNext]_runVars => (TasksInv /\ SeenInv)'
  BY TasksStep, SeenStep DEF SeenGoal
<1> QED
  BY <1>1, <1>2, <1>3, PTL DEF RunsSpec, ClosedRecordsKeepCalls

-----------------------------------------------------------------------------
(* The tree a run is started from *)

Bytes == Contents \cup {Damaged}
Fetches == [at : {"idle", "asking", "stored", "done", "failed"}, known : Contents \cup {Absent},
          content : Bytes \cup {Absent}, attempts : Nat]

(* A blob holds what its name says, unless the disk has damaged it.        *)
RemoteTypes ==
  /\ origin \in [Files -> Contents] /\ served \in [Walks -> [Files -> SUBSET Contents]]
  /\ blobs \in [Contents -> Bytes \cup {Absent}] /\ refs \in [Files -> Contents \cup {Absent}]
  /\ \A c \in Contents : blobs[c] \in {c, Damaged, Absent}
  /\ phase \in [Walks -> {"idle", "walking", "ready", "failed", "over"}]
  /\ frontier \in [Walks -> SUBSET Files] /\ depth \in [Walks -> Nat]
  /\ task \in [Walks -> [Files -> Fetches]]
  /\ DOMAIN text = Walks /\ intact \subseteq Walks

Walking(w) == phase[w] \in {"walking", "ready"}

(* What is served now is among what has been since a walk asked; what is    *)
(* pinned never moves, so that its ref is right or lost.                   *)
HostInv ==
  /\ \A w \in Walks : IF Walking(w) THEN \A f \in Files : origin[f] \in served[w][f]
                      ELSE served[w] = Unasked
  /\ \A f \in Immutable : refs[f] \in {origin[f], Absent}

(* c is as promised to walk w of file f.                                   *)
FreshFor(w, f, c) == c \in served[w][f] \/ (f \in Immutable /\ c = Damaged)

TaskInv ==
  \A w \in Walks : \A f \in Files :
    LET t == task[w][f] IN
    /\ phase[w] = "idle" => t = Idle
    /\ t.at = "stored" => /\ t.content \in Contents
                          /\ f \in Immutable => t.content = origin[f]
                          /\ phase[w] = "walking" => t.content \in served[w][f]
    /\ t.at = "done" => /\ t.content \in Bytes
                        /\ phase[w] = "walking" => FreshFor(w, f, t.content)

(* Whatever the files of a view name is in the view or will be.            *)
ViewInv ==
  \A w \in Walks :
    /\ ~Walking(w) => text[w] = <<>>
    /\ Walking(w) =>
         /\ Entry \in DOMAIN text[w] \cup frontier[w] /\ DOMAIN text[w] \subseteq Files
         /\ \A f \in DOMAIN text[w] :
              /\ text[w][f] \in Bytes /\ FreshFor(w, f, text[w][f])
              /\ Names(text[w][f]) \subseteq DOMAIN text[w] \cup frontier[w]
    /\ phase[w] = "ready" => frontier[w] = {}

(* As long as the disk is well, what a walk has read of a branch is there.  *)
HealInv ==
  \A w \in intact :
    /\ phase[w] = "walking" =>
         \A f \in Files \ Immutable :
           task[w][f].at \in {"stored", "done"} => blobs[task[w][f].content] = task[w][f].content
    /\ Walking(w) => \A f \in DOMAIN text[w] \ Immutable : blobs[text[w][f]] = text[w][f]

RemoteInv == RemoteTypes /\ HostInv /\ TaskInv /\ ViewInv

(* The states a call is put into.                                          *)
Asking(k) == [Idle EXCEPT !.at = "asking", !.known = k]
Holding(a, c) == [Idle EXCEPT !.at = a, !.content = c]
Plain(a) == [Idle EXCEPT !.at = a]

LEMMA CallStates ==
  ASSUME NEW a \in {"idle", "asking", "stored", "done", "failed"}
  PROVE  /\ Plain(a) \in Fetches /\ Plain(a).at = a
         /\ \A k \in Contents \cup {Absent} : Asking(k) \in Fetches /\ Asking(k).at = "asking"
         /\ \A c \in Bytes \cup {Absent} :
              Holding(a, c) \in Fetches /\ Holding(a, c).at = a /\ Holding(a, c).content = c
<1>1. Idle \in Fetches
  BY DEF Idle, Fetches
<1>2. \A b \in {"idle", "asking", "stored", "done", "failed"} : Plain(b) \in Fetches /\ Plain(b).at = b
  BY <1>1, Zenon DEF Plain, Fetches
<1>3. ASSUME NEW k \in Contents \cup {Absent}
      PROVE  Asking(k) \in Fetches /\ Asking(k).at = "asking"
  <2> DEFINE s == Plain("asking")
  <2>1. Asking(k) = [s EXCEPT !.known = k]
    BY Zenon DEF Asking, Plain
  <2>2. s \in Fetches /\ s.at = "asking"
    BY <1>2
  <2> HIDE DEF s
  <2>3. [s EXCEPT !.known = k] \in Fetches /\ [s EXCEPT !.known = k].at = "asking"
    BY <2>2, Zenon DEF Fetches
  <2> QED
    BY <2>1, <2>3, Zenon
<1>4. ASSUME NEW c \in Bytes \cup {Absent}
      PROVE  Holding(a, c) \in Fetches /\ Holding(a, c).at = a /\ Holding(a, c).content = c
  <2> DEFINE s == Plain(a)
             t == [s EXCEPT !.content = c]
  <2>1. Holding(a, c) = t
    BY Zenon DEF Holding, Plain
  <2>2. s \in Fetches /\ s.at = a
    BY <1>2
  <2> HIDE DEF s
  <2>3. t \in Fetches /\ t.at = a /\ t.content = c
    BY <2>2, Zenon DEF Fetches
  <2> QED
    BY <2>1, <2>3, Zenon
<1> QED
  BY <1>2, <1>3, <1>4

LEMMA RetriedIs ==
  ASSUME NEW t \in Fetches, t.at = "asking"
  PROVE  Retried(t) \in Fetches /\ Retried(t).at \in {"asking", "failed"}
<1>1. t.attempts + 1 \in Nat
  BY DEF Fetches
<1> DEFINE more == [t EXCEPT !.attempts = t.attempts + 1]
<1>2. more \in Fetches /\ more.at = "asking"
  BY <1>1, Zenon DEF Fetches
<1>3. Plain("failed") \in Fetches /\ Plain("failed").at = "failed"
  BY CallStates
<1>4. Retried(t) = more \/ Retried(t) = Plain("failed")
  BY Zenon DEF Retried, Plain
<1> HIDE DEF more
<1> QED
  BY <1>2, <1>3, <1>4

(* What a get call of file f does in walk w: it may write the blob of what  *)
(* is served, or the ref of what it has stored, and what it hands on is     *)
(* served now, was stored before, or is a damaged copy of a pinned file.    *)
GetEffect(w, f, t) ==
  /\ UNCHANGED <<origin, served, phase, frontier, depth, text, intact>>
  /\ task' = [task EXCEPT ![w] = [@ EXCEPT ![f] = t]]
  /\ phase[w] # "idle"
  /\ t \in Fetches
  /\ t.at = "stored" => t.content = origin[f]
  /\ t.at = "done" => \/ t.content = origin[f]
                      \/ f \in Immutable /\ t.content = Damaged
                      \/ task[w][f].at = "stored" /\ t.content = task[w][f].content
  /\ blobs' = blobs \/ blobs' = [blobs EXCEPT ![origin[f]] = origin[f]]
  /\ \/ refs' = refs
     \/ task[w][f].at = "stored" /\ refs' = [refs EXCEPT ![f] = task[w][f].content]
  /\ f \notin Immutable /\ t.at \in {"stored", "done"} =>
       \/ t.content \in Contents /\ blobs'[t.content] = t.content
       \/ task[w][f].at = "stored" /\ t.content = task[w][f].content

LEMMA GetSteps ==
  ASSUME RemoteInv, NEW w \in Walks, NEW f \in Files, GetStep(w, f)
  PROVE  \E t : GetEffect(w, f, t)
<1> USE DEF hostVars, dirVars, walkVars, diskVars, Becomes, At
<1>0. /\ task[w][f] \in Fetches /\ origin[f] \in Contents
      /\ task[w][f].at # "idle" => phase[w] # "idle"
      /\ blobs \in [Contents -> Bytes \cup {Absent}] /\ refs[f] \in Contents \cup {Absent}
      /\ f \in Immutable => refs[f] \in {origin[f], Absent}
      /\ \A c \in Contents : blobs[c] \in {c, Damaged, Absent}
      /\ phase[w] \in {"idle", "walking", "ready", "failed", "over"}
  BY DEF RemoteInv, RemoteTypes, TaskInv, HostInv, Idle
<1> DEFINE Put(t) == task' = [task EXCEPT ![w] = [@ EXCEPT ![f] = t]]
<1>1. CASE Lookup(w, f)
  <2>1. /\ UNCHANGED <<origin, served, phase, frontier, depth, text, intact, blobs, refs>>
        /\ phase[w] # "idle"
    BY <1>1 DEF Lookup
  <2>2. CASE TakesCached(w, f)
    <3> DEFINE c == blobs[refs[f]]
               t == Holding("done", c)
    <3>1. Put(t)
      BY <1>1, <2>2, Zenon DEF Lookup, Holding
    <3>2. f \in Immutable /\ c \in {origin[f], Damaged}
      BY <1>0, <2>2 DEF TakesCached, Fast
    <3>3. t \in Fetches /\ t.at = "done" /\ t.content = c
      BY <1>0, <3>2, CallStates DEF Bytes
    <3> HIDE DEF t
    <3>4. GetEffect(w, f, t)
      BY <2>1, <3>1, <3>2, <3>3 DEF GetEffect
    <3> QED
      BY <3>4
  <2>3. CASE ~TakesCached(w, f)
    <3> DEFINE t == Asking(refs[f])
    <3>1. Put(t)
      BY <1>1, <2>3, Zenon DEF Lookup, Asking
    <3>2. t \in Fetches /\ t.at = "asking"
      BY <1>0, CallStates
    <3> HIDE DEF t
    <3>3. GetEffect(w, f, t)
      BY <2>1, <3>1, <3>2 DEF GetEffect
    <3> QED
      BY <3>3
  <2> QED
    BY <2>2, <2>3
<1>2. CASE Transient(w, f)
  <2> DEFINE t == Retried(task[w][f])
  <2>1. /\ Put(t)
        /\ UNCHANGED <<origin, served, phase, frontier, depth, text, intact, blobs, refs>>
        /\ task[w][f].at = "asking" /\ phase[w] # "idle"
    BY <1>0, <1>2 DEF Transient
  <2>2. t \in Fetches /\ t.at \in {"asking", "failed"}
    BY <1>0, <2>1, RetriedIs
  <2> HIDE DEF t
  <2>3. GetEffect(w, f, t)
    BY <2>1, <2>2 DEF GetEffect
  <2> QED
    BY <2>3
<1>3. CASE NotModified(w, f)
  <2> DEFINE known == task[w][f].known
             t == IF blobs[known] = known THEN Holding("done", known) ELSE Plain("asking")
  <2>1. Put(t)
    BY <1>3, Zenon DEF NotModified, Holding, Plain
  <2>2. /\ UNCHANGED <<origin, served, phase, frontier, depth, text, intact, blobs, refs>>
        /\ task[w][f].at = "asking" /\ phase[w] # "idle" /\ known = origin[f]
    BY <1>0, <1>3 DEF NotModified
  <2>3. /\ t \in Fetches /\ t.at \in {"asking", "done"}
        /\ t.at = "done" => t.content = origin[f] /\ blobs[origin[f]] = origin[f]
    <3>1. known \in Bytes
      BY <1>0, <2>2 DEF Bytes
    <3>2. /\ Holding("done", known) \in Fetches /\ Holding("done", known).at = "done"
          /\ Holding("done", known).content = known
          /\ Plain("asking") \in Fetches /\ Plain("asking").at = "asking"
      BY <3>1, CallStates
    <3> QED
      BY <2>2, <3>2
  <2> HIDE DEF t
  <2>4. GetEffect(w, f, t)
    BY <1>0, <2>1, <2>2, <2>3 DEF GetEffect
  <2> QED
    BY <2>4
<1>4. CASE Fetched(w, f)
  <2> DEFINE t == Holding("stored", origin[f])
  <2>1. Put(t)
    BY <1>4, Zenon DEF Fetched, Holding
  <2>2. /\ blobs' = [blobs EXCEPT ![origin[f]] = origin[f]]
        /\ UNCHANGED <<origin, served, phase, frontier, depth, text, intact, refs>>
        /\ phase[w] # "idle"
    BY <1>0, <1>4 DEF Fetched, Written
  <2>3. t \in Fetches /\ t.at = "stored" /\ t.content = origin[f]
    BY <1>0, CallStates DEF Bytes
  <2>4. blobs'[origin[f]] = origin[f]
    BY <1>0, <2>2
  <2> HIDE DEF t
  <2>5. GetEffect(w, f, t)
    BY <1>0, <2>1, <2>2, <2>3, <2>4 DEF GetEffect
  <2> QED
    BY <2>5
<1>5. CASE Fails(w, f)
  <2> DEFINE t == Plain("failed")
  <2>1. Put(t)
    BY <1>5, Zenon DEF Fails, Plain
  <2>2. /\ UNCHANGED <<origin, served, phase, frontier, depth, text, intact, blobs, refs>>
        /\ phase[w] # "idle"
    BY <1>0, <1>5 DEF Fails
  <2>3. t \in Fetches /\ t.at = "failed"
    BY CallStates
  <2> HIDE DEF t
  <2>4. GetEffect(w, f, t)
    BY <2>1, <2>2, <2>3 DEF GetEffect
  <2> QED
    BY <2>4
<1>6. CASE StoreRef(w, f)
  <2> DEFINE c == task[w][f].content
             t == IF blobs[c] = Absent THEN Plain("failed") ELSE Holding("done", c)
  <2>1. Put(t)
    BY <1>6, Zenon DEF StoreRef, Holding, Plain
  <2>2. /\ UNCHANGED <<origin, served, phase, frontier, depth, text, intact, blobs>>
        /\ refs' = refs \/ refs' = [refs EXCEPT ![f] = c]
        /\ phase[w] # "idle" /\ task[w][f].at = "stored"
    BY <1>0, <1>6 DEF StoreRef
  <2>3. /\ t \in Fetches /\ t.at \in {"failed", "done"}
        /\ t.at = "done" => t.content = c
    <3>1. c \in Bytes \cup {Absent}
      BY <1>0 DEF Fetches
    <3>2. /\ Holding("done", c) \in Fetches /\ Holding("done", c).at = "done"
          /\ Holding("done", c).content = c
          /\ Plain("failed") \in Fetches /\ Plain("failed").at = "failed"
      BY <3>1, CallStates
    <3> QED
      BY <3>2
  <2> HIDE DEF t
  <2>4. GetEffect(w, f, t)
    BY <2>1, <2>2, <2>3 DEF GetEffect
  <2> QED
    BY <2>4
<1> QED
  BY <1>1, <1>2, <1>3, <1>4, <1>5, <1>6 DEF GetStep

LEMMA GetKeeps ==
  ASSUME RemoteInv, NEW w \in Walks, NEW f \in Files, NEW t, GetEffect(w, f, t)
  PROVE  RemoteInv'
<1>1. /\ task' \in [Walks -> [Files -> Fetches]]
      /\ \A v \in Walks : \A g \in Files :
           task'[v][g] = IF v = w /\ g = f THEN t ELSE task[v][g]
  BY DEF RemoteInv, RemoteTypes, GetEffect
<1>2. UNCHANGED <<origin, served, phase, frontier, depth, text, intact>>
  BY DEF GetEffect
<1>3. origin[f] \in Contents /\ task[w][f] \in Fetches
  BY DEF RemoteInv, RemoteTypes
<1>4. RemoteTypes'
  <2>1. /\ blobs' \in [Contents -> Bytes \cup {Absent}]
        /\ \A c \in Contents : blobs'[c] \in {c, Damaged, Absent}
    <3>1. blobs' = blobs \/ blobs' = [blobs EXCEPT ![origin[f]] = origin[f]]
      BY DEF GetEffect
    <3>2. /\ blobs \in [Contents -> Bytes \cup {Absent}]
          /\ \A c \in Contents : blobs[c] \in {c, Damaged, Absent}
      BY DEF RemoteInv, RemoteTypes
    <3>3. origin[f] \in Bytes \cup {Absent}
      BY <1>3 DEF Bytes
    <3> QED
      BY <1>3, <3>1, <3>2, <3>3
  <2>2. refs' \in [Files -> Contents \cup {Absent}]
    BY <1>3 DEF RemoteInv, RemoteTypes, TaskInv, GetEffect
  <2> QED
    BY <1>1, <1>2, <2>1, <2>2 DEF RemoteInv, RemoteTypes
<1>5. HostInv'
  <2>1. \A g \in Immutable : refs'[g] \in {origin[g], Absent}
    BY <1>3, RemoteAssumption DEF RemoteInv, RemoteTypes, HostInv, TaskInv, GetEffect
  <2> QED
    BY <1>2, <2>1 DEF RemoteInv, HostInv, Walking
<1>6. TaskInv'
  <2> SUFFICES ASSUME NEW v \in Walks, NEW g \in Files
               PROVE  LET u == task'[v][g] IN
                      /\ phase[v] = "idle" => u = Idle
                      /\ u.at = "stored" => /\ u.content \in Contents
                                            /\ g \in Immutable => u.content = origin[g]
                                            /\ phase[v] = "walking" => u.content \in served[v][g]
                      /\ u.at = "done" => /\ u.content \in Bytes
                                          /\ phase[v] = "walking" => FreshFor(v, g, u.content)
    BY <1>2 DEF TaskInv, FreshFor
  <2>1. CASE v = w /\ g = f
    <3>1. phase[w] = "walking" => origin[f] \in served[w][f]
      BY DEF RemoteInv, HostInv, Walking
    <3> QED
      BY <1>1, <1>3, <2>1, <3>1 DEF RemoteInv, TaskInv, GetEffect, FreshFor, Bytes
  <2>2. CASE ~(v = w /\ g = f)
    BY <1>1, <2>2 DEF RemoteInv, TaskInv
  <2> QED
    BY <2>1, <2>2
<1>7. ViewInv'
  BY <1>2 DEF RemoteInv, ViewInv, Walking, FreshFor
<1> QED
  BY <1>4, <1>5, <1>6, <1>7 DEF RemoteInv

LEMMA GetHeals ==
  ASSUME RemoteInv, HealInv, NEW w \in Walks, NEW f \in Files, NEW t, GetEffect(w, f, t)
  PROVE  HealInv'
<1>1. /\ \A v \in Walks : \A g \in Files :
           task'[v][g] = IF v = w /\ g = f THEN t ELSE task[v][g]
      /\ UNCHANGED <<origin, served, phase, frontier, depth, text, intact>>
      /\ origin[f] \in Contents /\ intact \subseteq Walks
  BY DEF RemoteInv, RemoteTypes, GetEffect
<1>2. \A c \in Contents : blobs[c] = c => blobs'[c] = c
  BY <1>1 DEF RemoteInv, RemoteTypes, GetEffect
<1> SUFFICES ASSUME NEW v \in intact
             PROVE  /\ phase[v] = "walking" =>
                         \A g \in Files \ Immutable : task'[v][g].at \in {"stored", "done"} =>
                           blobs'[task'[v][g].content] = task'[v][g].content
                    /\ Walking(v) => \A g \in DOMAIN text[v] \ Immutable : blobs'[text[v][g]] = text[v][g]
  BY <1>1 DEF HealInv, Walking
<1>3. ASSUME Walking(v), NEW g \in DOMAIN text[v] \ Immutable
      PROVE  blobs'[text[v][g]] = text[v][g]
  <2>1. text[v][g] \in served[v][g] /\ g \in Files
    BY <1>1, <1>3 DEF RemoteInv, ViewInv, FreshFor
  <2>2. text[v][g] \in Contents
    BY <1>1, <2>1 DEF RemoteInv, RemoteTypes
  <2> QED
    BY <1>1, <1>2, <1>3, <2>2 DEF HealInv
<1>4. ASSUME phase[v] = "walking", NEW g \in Files \ Immutable, task'[v][g].at \in {"stored", "done"}
      PROVE  blobs'[task'[v][g].content] = task'[v][g].content
  <2>1. task[v][g].at \in {"stored", "done"} =>
          task[v][g].content \in Contents /\ blobs[task[v][g].content] = task[v][g].content
    <3>1. served[v][g] \subseteq Contents
      BY <1>1, <1>4 DEF RemoteInv, RemoteTypes
    <3> QED
      BY <1>1, <1>4, <3>1 DEF RemoteInv, TaskInv, HealInv, FreshFor
  <2>2. CASE v = w /\ g = f
    <3>1. \/ blobs'[t.content] = t.content
          \/ task[v][g].at = "stored" /\ t.content = task[v][g].content
      BY <1>1, <1>4, <2>2 DEF GetEffect
    <3> QED
      BY <1>1, <1>2, <2>1, <2>2, <3>1
  <2>3. CASE ~(v = w /\ g = f)
    BY <1>1, <1>2, <1>4, <2>1, <2>3
  <2> QED
    BY <2>2, <2>3
<1> QED
  BY <1>3, <1>4

(* What the end of a level makes of the view and of the next level.        *)
Got(w) == [f \in frontier[w] |-> task[w][f].content]
Grown(w) == [f \in DOMAIN text[w] \cup frontier[w] |->
               IF f \in frontier[w] THEN Got(w)[f] ELSE text[w][f]]
Leads(w) == {Names(Got(w)[f]) : f \in frontier[w]}
Missing(w) == (UNION Leads(w)) \ DOMAIN Grown(w)

LEMMA LevelEndsIs ==
  ASSUME NEW w \in Walks, LevelEnds(w)
  PROVE  /\ phase[w] = "walking" /\ \A f \in frontier[w] : At(w, f, "done")
         /\ task' = [task EXCEPT ![w] = NoTasks]
         /\ UNCHANGED <<hostVars, dirVars, diskVars>>
         /\ \/ /\ text' = [text EXCEPT ![w] = Grown(w)]
               /\ frontier' = [frontier EXCEPT ![w] = Missing(w)]
               /\ depth' = [depth EXCEPT ![w] = @ + 1]
               /\ phase' = [phase EXCEPT ![w] = IF Missing(w) = {} THEN "ready" ELSE @]
               /\ UNCHANGED served
            \/ GiveUp(w)
BY Zenon DEF LevelEnds, Got, Grown, Leads, Missing

(* A walk loses its view: it fails, its process dies, or its caller is done *)
(* with the tree.                                                          *)
LosesView(w) ==
  /\ UNCHANGED <<origin, blobs, refs, intact>>
  /\ \E p \in {"failed", "over"} : phase' = [phase EXCEPT ![w] = p]
  /\ text' = [text EXCEPT ![w] = <<>>] /\ depth' = [depth EXCEPT ![w] = 0]
  /\ served' = [served EXCEPT ![w] = Unasked]
  /\ frontier' = frontier \/ frontier' = [frontier EXCEPT ![w] = {}]
  /\ task' = task \/ task' = [task EXCEPT ![w] = NoTasks]

LEMMA LosingSteps ==
  ASSUME NEW w \in Walks
  PROVE  TooDeep(w) \/ GetRaised(w) \/ Cleanup(w) \/ Dies(w) => LosesView(w)
BY DEF TooDeep, GetRaised, Cleanup, Dies, GiveUp, LosesView, hostVars, dirVars, diskVars

LEMMA NoTasksType == NoTasks \in [Files -> Fetches] /\ \A f \in Files : NoTasks[f] = Idle
<1>1. Idle \in Fetches
  BY DEF Idle, Fetches
<1> QED
  BY <1>1 DEF NoTasks

LEMMA LosingKeeps ==
  ASSUME RemoteInv, NEW w \in Walks, LosesView(w)
  PROVE  RemoteInv'
<1>1. /\ DOMAIN phase = Walks /\ DOMAIN text = Walks
      /\ served \in [Walks -> [Files -> SUBSET Contents]] /\ depth \in [Walks -> Nat]
      /\ frontier \in [Walks -> SUBSET Files] /\ task \in [Walks -> [Files -> Fetches]]
  BY DEF RemoteInv, RemoteTypes
<1>2. /\ UNCHANGED <<origin, blobs, refs, intact>>
      /\ phase'[w] \in {"failed", "over"} /\ text'[w] = <<>> /\ served'[w] = Unasked
      /\ \A v \in Walks \ {w} : /\ phase'[v] = phase[v] /\ text'[v] = text[v]
                                /\ served'[v] = served[v] /\ frontier'[v] = frontier[v]
                                /\ task'[v] = task[v]
  BY <1>1 DEF LosesView
<1>3. RemoteTypes'
  <2>1. Unasked \in [Files -> SUBSET Contents]
    BY DEF Unasked
  <2>2. phase' \in [Walks -> {"idle", "walking", "ready", "failed", "over"}]
    BY DEF RemoteInv, RemoteTypes, LosesView
  <2>3. /\ served' \in [Walks -> [Files -> SUBSET Contents]] /\ DOMAIN text' = Walks
        /\ depth' \in [Walks -> Nat]
    BY <1>1, <2>1 DEF LosesView
  <2>4. frontier' \in [Walks -> SUBSET Files]
    BY <1>1 DEF LosesView
  <2>5. task' \in [Walks -> [Files -> Fetches]]
    <3>1. NoTasks \in [Files -> Fetches] /\ (task' = task \/ task' = [task EXCEPT ![w] = NoTasks])
      BY NoTasksType DEF LosesView
    <3> QED
      BY <1>1, <3>1
  <2> QED
    BY <1>2, <2>2, <2>3, <2>4, <2>5 DEF RemoteInv, RemoteTypes
<1>4. HostInv'
  BY <1>2 DEF RemoteInv, HostInv, Walking
<1>5. TaskInv'
  <2>1. \A f \in Files : task'[w][f] = task[w][f] \/ task'[w][f] = Idle
    BY <1>1, NoTasksType DEF LosesView
  <2>2. Idle.at = "idle"
    BY DEF Idle
  <2> QED
    BY <1>2, <2>1, <2>2 DEF RemoteInv, TaskInv, FreshFor
<1>6. ViewInv'
  BY <1>2 DEF RemoteInv, ViewInv, Walking, FreshFor
<1> QED
  BY <1>3, <1>4, <1>5, <1>6 DEF RemoteInv

LEMMA LosingHeals ==
  ASSUME RemoteInv, HealInv, NEW w \in Walks, LosesView(w)
  PROVE  HealInv'
<1>1. /\ DOMAIN phase = Walks /\ DOMAIN text = Walks /\ intact \subseteq Walks
      /\ DOMAIN task = Walks
  BY DEF RemoteInv, RemoteTypes
<1>2. /\ UNCHANGED <<blobs, intact>> /\ phase'[w] \in {"failed", "over"}
      /\ \A v \in Walks \ {w} : phase'[v] = phase[v] /\ text'[v] = text[v] /\ task'[v] = task[v]
  BY <1>1 DEF LosesView
<1> QED
  BY <1>1, <1>2 DEF HealInv, Walking

(* The level is taken into the view.                                       *)
LevelTaken(w) ==
  /\ UNCHANGED <<origin, blobs, refs, intact, served>>
  /\ phase[w] = "walking" /\ \A f \in frontier[w] : task[w][f].at = "done"
  /\ task' = [task EXCEPT ![w] = NoTasks]
  /\ text' = [text EXCEPT ![w] = Grown(w)]
  /\ frontier' = [frontier EXCEPT ![w] = Missing(w)]
  /\ depth' = [depth EXCEPT ![w] = @ + 1]
  /\ phase' = [phase EXCEPT ![w] = IF Missing(w) = {} THEN "ready" ELSE @]

LEMMA LevelSteps ==
  ASSUME NEW w \in Walks, LevelEnds(w)
  PROVE  LevelTaken(w) \/ LosesView(w)
BY LevelEndsIs DEF LevelTaken, LosesView, GiveUp, At, hostVars, dirVars, diskVars

(* The view after a level: of its files, fresh, and closed up to the next.  *)
LEMMA GrownIs ==
  ASSUME RemoteInv, NEW w \in Walks, phase[w] = "walking",
         \A f \in frontier[w] : task[w][f].at = "done"
  PROVE  /\ DOMAIN Grown(w) = DOMAIN text[w] \cup frontier[w] /\ DOMAIN Grown(w) \subseteq Files
         /\ Missing(w) \subseteq Files
         /\ Entry \in DOMAIN Grown(w)
         /\ \A f \in DOMAIN Grown(w) :
              /\ Grown(w)[f] = IF f \in frontier[w] THEN task[w][f].content ELSE text[w][f]
              /\ Grown(w)[f] \in Bytes /\ FreshFor(w, f, Grown(w)[f])
              /\ Names(Grown(w)[f]) \subseteq DOMAIN Grown(w) \cup Missing(w)
<1>1. /\ frontier[w] \subseteq Files /\ DOMAIN text[w] \subseteq Files
      /\ Entry \in DOMAIN text[w] \cup frontier[w]
      /\ \A f \in DOMAIN text[w] :
           /\ text[w][f] \in Bytes /\ FreshFor(w, f, text[w][f])
           /\ Names(text[w][f]) \subseteq DOMAIN text[w] \cup frontier[w]
  BY DEF RemoteInv, RemoteTypes, ViewInv, Walking
<1>2. \A f \in frontier[w] : task[w][f].content \in Bytes /\ FreshFor(w, f, task[w][f].content)
  BY <1>1 DEF RemoteInv, TaskInv
<1>3. DOMAIN Grown(w) = DOMAIN text[w] \cup frontier[w]
  BY DEF Grown
<1>4. \A f \in DOMAIN Grown(w) :
        Grown(w)[f] = IF f \in frontier[w] THEN task[w][f].content ELSE text[w][f]
  BY DEF Grown, Got
<1>5. \A f \in frontier[w] : Got(w)[f] = task[w][f].content
  BY DEF Got
<1>6. \A c \in Bytes : Names(c) \subseteq Files
  BY ContentsAssumption DEF Names, Bytes
<1>7. Missing(w) \subseteq Files
  <2>1. \A names \in Leads(w) : names \subseteq Files
    BY <1>2, <1>5, <1>6 DEF Leads
  <2> QED
    BY <2>1 DEF Missing
<1>8. ASSUME NEW f \in frontier[w], NEW n \in Names(task[w][f].content)
      PROVE  n \in DOMAIN Grown(w) \cup Missing(w)
  <2>1. Names(task[w][f].content) \in Leads(w)
    BY <1>5 DEF Leads
  <2> QED
    BY <1>8, <2>1 DEF Missing
<1>9. ASSUME NEW f \in DOMAIN Grown(w)
      PROVE  /\ Grown(w)[f] \in Bytes /\ FreshFor(w, f, Grown(w)[f])
             /\ Names(Grown(w)[f]) \subseteq DOMAIN Grown(w) \cup Missing(w)
  <2>1. CASE f \in frontier[w]
    BY <1>2, <1>4, <1>8, <2>1
  <2>2. CASE f \notin frontier[w]
    BY <1>1, <1>3, <1>4, <2>2
  <2> QED
    BY <2>1, <2>2
<1> QED
  BY <1>1, <1>3, <1>4, <1>7, <1>9

LEMMA LevelKeeps ==
  ASSUME RemoteInv, NEW w \in Walks, LevelTaken(w)
  PROVE  RemoteInv'
<1>1. /\ DOMAIN phase = Walks /\ DOMAIN text = Walks
      /\ depth \in [Walks -> Nat]
      /\ frontier \in [Walks -> SUBSET Files] /\ task \in [Walks -> [Files -> Fetches]]
  BY DEF RemoteInv, RemoteTypes
<1>2. /\ UNCHANGED <<origin, blobs, refs, intact, served>> /\ phase[w] = "walking"
      /\ phase'[w] = IF Missing(w) = {} THEN "ready" ELSE "walking"
      /\ text'[w] = Grown(w) /\ frontier'[w] = Missing(w) /\ task'[w] = NoTasks
      /\ \A v \in Walks \ {w} : /\ phase'[v] = phase[v] /\ text'[v] = text[v]
                                /\ frontier'[v] = frontier[v] /\ task'[v] = task[v]
  BY <1>1 DEF LevelTaken
<1> DEFINE g == Grown(w)
           m == Missing(w)
<1>3. /\ DOMAIN g \subseteq Files /\ m \subseteq Files /\ Entry \in DOMAIN g
      /\ \A f \in DOMAIN g : /\ g[f] \in Bytes /\ FreshFor(w, f, g[f])
                             /\ Names(g[f]) \subseteq DOMAIN g \cup m
  BY GrownIs DEF LevelTaken
<1>4. RemoteTypes'
  <2>1. phase' \in [Walks -> {"idle", "walking", "ready", "failed", "over"}]
    BY DEF RemoteInv, RemoteTypes, LevelTaken
  <2>2. DOMAIN text' = Walks /\ depth' \in [Walks -> Nat]
    BY <1>1 DEF LevelTaken
  <2>3. frontier' \in [Walks -> SUBSET Files]
    BY <1>1, <1>3 DEF LevelTaken
  <2>4. task' \in [Walks -> [Files -> Fetches]]
    BY <1>1, NoTasksType DEF LevelTaken
  <2> QED
    BY <1>2, <2>1, <2>2, <2>3, <2>4 DEF RemoteInv, RemoteTypes
<1>5. HostInv'
  BY <1>2 DEF RemoteInv, HostInv, Walking
<1>6. TaskInv'
  <2>1. \A f \in Files : task'[w][f] = Idle
    BY <1>2, NoTasksType
  <2>2. Idle.at = "idle"
    BY DEF Idle
  <2> QED
    BY <1>2, <2>1, <2>2 DEF RemoteInv, TaskInv, FreshFor
<1> HIDE DEF g, m
<1>7. ViewInv'
  <2>1. /\ text'[w] = g /\ frontier'[w] = m
        /\ phase'[w] = IF m = {} THEN "ready" ELSE "walking"
    BY <1>2 DEF g, m
  <2> QED
    BY <1>2, <1>3, <2>1 DEF RemoteInv, ViewInv, Walking, FreshFor
<1> QED
  BY <1>4, <1>5, <1>6, <1>7 DEF RemoteInv

LEMMA LevelHeals ==
  ASSUME RemoteInv, HealInv, NEW w \in Walks, LevelTaken(w)
  PROVE  HealInv'
<1>1. DOMAIN phase = Walks /\ DOMAIN text = Walks /\ intact \subseteq Walks /\ DOMAIN task = Walks
  BY DEF RemoteInv, RemoteTypes
<1>2. /\ UNCHANGED <<blobs, intact>> /\ phase[w] = "walking"
      /\ text'[w] = Grown(w) /\ task'[w] = NoTasks
      /\ \A v \in Walks \ {w} : phase'[v] = phase[v] /\ text'[v] = text[v] /\ task'[v] = task[v]
  BY <1>1 DEF LevelTaken
<1>3. \A f \in Files : task'[w][f].at = "idle"
  BY <1>2, NoTasksType DEF Idle
<1>4. ASSUME w \in intact, NEW f \in DOMAIN Grown(w) \ Immutable
      PROVE  blobs[Grown(w)[f]] = Grown(w)[f]
  <2>1. /\ f \in Files /\ f \in DOMAIN text[w] \cup frontier[w]
        /\ Grown(w)[f] = IF f \in frontier[w] THEN task[w][f].content ELSE text[w][f]
    BY <1>4, GrownIs DEF LevelTaken
  <2>2. f \in frontier[w] => task[w][f].at = "done"
    BY DEF LevelTaken
  <2> QED
    BY <1>2, <1>4, <2>1, <2>2 DEF HealInv, Walking
<1> QED
  BY <1>1, <1>2, <1>3, <1>4 DEF HealInv, Walking

(* A walk asks: from now on, what the origins publish counts for it.       *)
LEMMA BeginKeeps ==
  ASSUME RemoteInv, NEW w \in Walks, Begin(w)
  PROVE  RemoteInv'
<1>1. /\ DOMAIN phase = Walks /\ DOMAIN text = Walks
      /\ origin \in [Files -> Contents] /\ served \in [Walks -> [Files -> SUBSET Contents]]
      /\ frontier \in [Walks -> SUBSET Files] /\ Entry \in Files
  BY RemoteAssumption DEF RemoteInv, RemoteTypes
<1>2. /\ UNCHANGED <<origin, blobs, refs, depth, text, task>> /\ intact' = intact \cup {w}
      /\ phase[w] = "idle" /\ phase'[w] = "walking"
      /\ frontier'[w] = {Entry} /\ served'[w] = [f \in Files |-> {origin[f]}]
      /\ \A v \in Walks \ {w} : /\ phase'[v] = phase[v] /\ frontier'[v] = frontier[v]
                                /\ served'[v] = served[v]
  BY <1>1 DEF Begin, dirVars
<1>3. RemoteTypes'
  <2>1. phase' \in [Walks -> {"idle", "walking", "ready", "failed", "over"}]
    BY DEF RemoteInv, RemoteTypes, Begin
  <2>2. [f \in Files |-> {origin[f]}] \in [Files -> SUBSET Contents]
    BY <1>1
  <2>3. served' \in [Walks -> [Files -> SUBSET Contents]]
    BY <1>1, <2>2 DEF Begin
  <2>4. frontier' \in [Walks -> SUBSET Files]
    BY <1>1 DEF Begin
  <2> QED
    BY <1>2, <2>1, <2>3, <2>4 DEF RemoteInv, RemoteTypes
<1>4. HostInv'
  BY <1>2 DEF RemoteInv, HostInv, Walking
<1>5. TaskInv'
  <2>1. \A f \in Files : task[w][f] = Idle
    BY <1>2 DEF RemoteInv, TaskInv
  <2>2. Idle.at = "idle"
    BY DEF Idle
  <2> QED
    BY <1>2, <2>1, <2>2 DEF RemoteInv, TaskInv, FreshFor
<1>6. ViewInv'
  <2>1. text[w] = <<>>
    BY <1>2 DEF RemoteInv, ViewInv, Walking
  <2> QED
    BY <1>2, <2>1 DEF RemoteInv, ViewInv, Walking, FreshFor
<1> QED
  BY <1>3, <1>4, <1>5, <1>6 DEF RemoteInv

LEMMA BeginHeals ==
  ASSUME RemoteInv, HealInv, NEW w \in Walks, Begin(w)
  PROVE  HealInv'
<1>1. /\ UNCHANGED <<blobs, text, task>> /\ intact' = intact \cup {w} /\ phase[w] = "idle"
      /\ \A v \in Walks \ {w} : phase'[v] = phase[v]
      /\ intact \subseteq Walks
  BY DEF RemoteInv, RemoteTypes, Begin, dirVars
<1>2. text[w] = <<>> /\ \A f \in Files : task[w][f].at = "idle"
  BY <1>1 DEF RemoteInv, ViewInv, Walking, TaskInv, Idle
<1> QED
  BY <1>1, <1>2 DEF HealInv, Walking

(* The host moves a branch, for every walk that has asked.                 *)
LEMMA PushKeeps ==
  ASSUME RemoteInv, NEW f \in Files, NEW c \in Versions[f], Push(f, c)
  PROVE  /\ RemoteInv'
         /\ \A w \in Walks : (served[w] = Unasked) <=> ~Walking(w)
<1>1. /\ origin \in [Files -> Contents] /\ served \in [Walks -> [Files -> SUBSET Contents]]
      /\ Entry \in Files /\ c \in Contents
  BY RemoteAssumption DEF RemoteInv, RemoteTypes, Contents
<1>2. ASSUME NEW w \in Walks
      PROVE  (served[w] = Unasked) <=> ~Walking(w)
  BY <1>1 DEF RemoteInv, HostInv, Unasked
<1>3. /\ UNCHANGED <<blobs, refs, phase, frontier, depth, text, task, intact>>
      /\ f \notin Immutable /\ origin' = [origin EXCEPT ![f] = c]
      /\ served' = [w \in Walks |-> IF served[w] = Unasked THEN Unasked
                                    ELSE [served[w] EXCEPT ![f] = @ \cup {c}]]
  BY DEF Push, dirVars, diskVars
<1>4. ASSUME NEW w \in Walks
      PROVE  /\ served'[w] \in [Files -> SUBSET Contents]
             /\ \A g \in Files : served[w][g] \subseteq served'[w][g]
             /\ ~Walking(w) => served'[w] = Unasked
             /\ Walking(w) => \A g \in Files : origin'[g] \in served'[w][g]
  <2>1. CASE Walking(w)
    <3>1. served'[w] = [served[w] EXCEPT ![f] = served[w][f] \cup {c}]
      BY <1>2, <1>3, <2>1
    <3>2. \A g \in Files : origin[g] \in served[w][g]
      BY <2>1 DEF RemoteInv, HostInv
    <3> QED
      BY <1>1, <1>3, <2>1, <3>1, <3>2
  <2>2. CASE ~Walking(w)
    <3>1. served[w] = Unasked /\ served'[w] = Unasked
      BY <1>2, <1>3, <2>2
    <3> QED
      BY <1>1, <2>2, <3>1
  <2> QED
    BY <2>1, <2>2
<1>5. RemoteTypes'
  <2>1. origin' \in [Files -> Contents]
    BY <1>1, <1>3
  <2>2. served' \in [Walks -> [Files -> SUBSET Contents]]
    BY <1>3, <1>4
  <2> QED
    BY <1>3, <2>1, <2>2 DEF RemoteInv, RemoteTypes
<1>6. HostInv'
  <2>1. \A w \in Walks : IF Walking(w) THEN \A g \in Files : origin'[g] \in served'[w][g]
                         ELSE served'[w] = Unasked
    BY <1>4
  <2>2. \A g \in Immutable : origin'[g] = origin[g]
    BY <1>1, <1>3
  <2> QED
    BY <1>3, <2>1, <2>2 DEF RemoteInv, HostInv, Walking
<1>7. TaskInv'
  <2>1. \A g \in Immutable : origin'[g] = origin[g]
    BY <1>1, <1>3
  <2> QED
    BY <1>3, <1>4, <2>1 DEF RemoteInv, TaskInv, FreshFor
<1>8. ViewInv'
  BY <1>3, <1>4 DEF RemoteInv, ViewInv, FreshFor, Walking
<1> QED
  BY <1>2, <1>5, <1>6, <1>7, <1>8 DEF RemoteInv

LEMMA FaultKeeps ==
  ASSUME RemoteInv, DiskFault
  PROVE  RemoteInv'
<1>1. UNCHANGED <<origin, served, phase, frontier, depth, text, task>> /\ intact' = {}
  BY DEF DiskFault, hostVars, walkVars
<1>2. RemoteTypes'
  <2>1. /\ blobs' \in [Contents -> Bytes \cup {Absent}]
        /\ \A c \in Contents : blobs'[c] \in {c, Damaged, Absent}
    BY DEF RemoteInv, RemoteTypes, DiskFault, Bytes
  <2>2. refs' \in [Files -> Contents \cup {Absent}]
    BY DEF RemoteInv, RemoteTypes, DiskFault
  <2> QED
    BY <1>1, <2>1, <2>2 DEF RemoteInv, RemoteTypes
<1>3. HostInv'
  <2>1. \A g \in Immutable : refs'[g] \in {origin[g], Absent}
    BY RemoteAssumption DEF RemoteInv, RemoteTypes, HostInv, DiskFault
  <2> QED
    BY <1>1, <2>1 DEF RemoteInv, HostInv, Walking
<1>4. TaskInv' /\ ViewInv'
  BY <1>1 DEF RemoteInv, TaskInv, ViewInv, Walking, FreshFor
<1> QED
  BY <1>2, <1>3, <1>4 DEF RemoteInv

LEMMA RefusalKeeps ==
  ASSUME RemoteInv, NEW w \in Walks, Refuses(w)
  PROVE  RemoteInv' /\ (HealInv => HealInv')
<1>1. /\ UNCHANGED <<origin, blobs, refs, served, frontier, depth, text, task, intact>>
      /\ phase' \in [Walks -> {"idle", "walking", "ready", "failed", "over"}]
      /\ phase[w] = "idle" /\ phase'[w] = "over"
      /\ \A v \in Walks \ {w} : phase'[v] = phase[v]
      /\ intact \subseteq Walks
  BY DEF RemoteInv, RemoteTypes, Refuses, hostVars, dirVars, diskVars
<1>2. RemoteTypes' /\ HostInv' /\ ViewInv'
  <2>1. RemoteTypes'
    BY <1>1 DEF RemoteInv, RemoteTypes
  <2>2. HostInv'
    BY <1>1 DEF RemoteInv, HostInv, Walking
  <2>3. ViewInv'
    BY <1>1 DEF RemoteInv, ViewInv, Walking, FreshFor
  <2> QED
    BY <2>1, <2>2, <2>3
<1>3. TaskInv'
  BY <1>1 DEF RemoteInv, TaskInv, FreshFor
<1>4. HealInv => HealInv'
  BY <1>1 DEF HealInv, Walking
<1> QED
  BY <1>2, <1>3, <1>4 DEF RemoteInv

LEMMA RemoteStart ==
  ASSUME Init
  PROVE  RemoteInv /\ HealInv
<1>1. RemoteTypes
  <2>1. origin \in [Files -> Contents]
    BY HeadsAssumption DEF Init
  <2>2. Unasked \in [Files -> SUBSET Contents]
    BY DEF Unasked
  <2> QED
    BY <2>1, <2>2, NoTasksType DEF Init, RemoteTypes
<1>2. HostInv
  BY RemoteAssumption DEF Init, HostInv, Walking
<1>3. TaskInv
  <2>1. \A w \in Walks : \A f \in Files : task[w][f] = Idle
    BY NoTasksType DEF Init
  <2>2. Idle.at = "idle"
    BY DEF Idle
  <2> QED
    BY <2>1, <2>2 DEF TaskInv
<1>4. ViewInv
  BY DEF Init, ViewInv, Walking
<1> QED
  BY <1>1, <1>2, <1>3, <1>4 DEF RemoteInv, Init, HealInv

(* The steps, by what they do to a view.                                   *)
LEMMA RemoteStepsAre ==
  ASSUME Next
  PROVE  \/ \E w \in Walks : \E f \in Files : GetStep(w, f)
         \/ \E w \in Walks : LevelTaken(w) \/ LosesView(w) \/ Refuses(w) \/ Begin(w)
         \/ \E f \in Files : \E c \in Versions[f] : Push(f, c)
         \/ DiskFault
BY LosingSteps, LevelSteps DEF Next, WalkStep

(* The inductive invariant, of every step.                                 *)
LEMMA RemoteStep ==
  ASSUME RemoteInv, [Next]_vars
  PROVE  RemoteInv' /\ (HealInv => HealInv')
<1>1. ASSUME NEW w \in Walks, NEW f \in Files, GetStep(w, f)
      PROVE  RemoteInv' /\ (HealInv => HealInv')
  <2>1. PICK t : GetEffect(w, f, t)
    BY <1>1, GetSteps
  <2> QED
    BY <2>1, GetKeeps, GetHeals
<1>2. ASSUME NEW w \in Walks, LevelTaken(w)
      PROVE  RemoteInv' /\ (HealInv => HealInv')
  BY <1>2, LevelKeeps, LevelHeals
<1>3. ASSUME NEW w \in Walks, LosesView(w)
      PROVE  RemoteInv' /\ (HealInv => HealInv')
  BY <1>3, LosingKeeps, LosingHeals
<1>4. ASSUME NEW w \in Walks, Refuses(w)
      PROVE  RemoteInv' /\ (HealInv => HealInv')
  BY <1>4, RefusalKeeps
<1>5. ASSUME NEW w \in Walks, Begin(w)
      PROVE  RemoteInv' /\ (HealInv => HealInv')
  BY <1>5, BeginKeeps, BeginHeals
<1>6. ASSUME NEW f \in Files, NEW c \in Versions[f], Push(f, c)
      PROVE  RemoteInv' /\ (HealInv => HealInv')
  <2>1. UNCHANGED <<blobs, phase, text, task, intact>>
    BY <1>6 DEF Push, dirVars, diskVars
  <2> QED
    BY <1>6, <2>1, PushKeeps DEF HealInv, Walking
<1>7. ASSUME DiskFault
      PROVE  RemoteInv' /\ (HealInv => HealInv')
  <2>1. intact' = {}
    BY <1>7 DEF DiskFault
  <2> QED
    BY <1>7, <2>1, FaultKeeps DEF HealInv
<1>8. CASE UNCHANGED vars
  <2>1. UNCHANGED <<origin, served, blobs, refs, phase, frontier, depth, text, task, intact>>
    BY <1>8 DEF vars, hostVars, dirVars, walkVars, diskVars
  <2> QED
    BY <2>1 DEF RemoteInv, RemoteTypes, HostInv, TaskInv, ViewInv, HealInv, Walking, FreshFor
<1> QED
  BY <1>1, <1>2, <1>3, <1>4, <1>5, <1>6, <1>7, <1>8, RemoteStepsAre

(* Unless the disk has failed since a walk began, what the walk returns of  *)
(* a branch can be read back from the shared directory: BlobCache.get       *)
(* replaces a damaged blob and writes the blob before the ref, and no walk  *)
(* undoes what another has stored.                                         *)
THEOREM CacheHealsHolds == Spec => []CacheHeals
<1>1. Init => RemoteInv /\ HealInv
  BY RemoteStart
<1>2. RemoteInv /\ HealInv /\ [Next]_vars => (RemoteInv /\ HealInv)'
  BY RemoteStep
<1>3. HealInv => CacheHeals
  BY DEF HealInv, CacheHeals, Walking
<1> QED
  BY <1>1, <1>2, <1>3, PTL DEF Spec

LEMMA PromisedStart ==
  ASSUME Init
  PROVE  Promise!TreesInit
<1>1. origin \in [Files -> Contents] /\ \A f \in Files : origin[f] \in Versions[f]
  BY HeadsAssumption DEF Init
<1>2. phase = [w \in Walks |-> "idle"]
  BY DEF Init
<1> QED
  BY <1>1, <1>2 DEF Init, Contents, Unasked, Promise!TreesInit, Promise!Nothing, Promise!NoTree

(* A level that leaves nothing missing is the delivery of a whole, fresh   *)
(* tree; any other is no step of the promise.                              *)
LEMMA LevelDelivers ==
  ASSUME RemoteInv, NEW w \in Walks, LevelTaken(w)
  PROVE  Promise!Deliver(w) \/ UNCHANGED Promise!treeVars
<1> DEFINE trees == [v \in Walks |-> IF phase[v] = "ready" THEN text[v] ELSE <<>>]
<1>1. /\ DOMAIN phase = Walks /\ DOMAIN text = Walks
      /\ UNCHANGED <<origin, served>> /\ phase[w] = "walking"
      /\ text'[w] = Grown(w)
      /\ phase'[w] = IF Missing(w) = {} THEN "ready" ELSE "walking"
      /\ \A v \in Walks \ {w} : phase'[v] = phase[v] /\ text'[v] = text[v]
  BY DEF RemoteInv, RemoteTypes, LevelTaken
<1>2. CASE Missing(w) = {}
  <2> DEFINE g == Grown(w)
  <2>1. trees[w] = <<>> /\ trees'[w] = g /\ \A v \in Walks \ {w} : trees'[v] = trees[v]
    BY <1>1, <1>2
  <2>2. /\ DOMAIN g \subseteq Files /\ Entry \in DOMAIN g
        /\ \A f \in DOMAIN g : FreshFor(w, f, g[f]) /\ Names(g[f]) \subseteq DOMAIN g
    BY <1>2, GrownIs DEF LevelTaken
  <2>3. served[w] # Unasked
    <3>1. Entry \in Files /\ origin[Entry] \in served[w][Entry]
      BY <1>1, RemoteAssumption DEF RemoteInv, HostInv, Walking
    <3> QED
      BY <3>1 DEF Unasked
  <2> HIDE DEF g
  <2>4. Promise!Whole(g)
    BY <2>2 DEF Promise!Whole, Promise!Named, Names
  <2>5. Promise!Fresh(w, g)
    BY <2>2 DEF Promise!Fresh, FreshFor
  <2> QED
    BY <1>1, <2>1, <2>2, <2>3, <2>4, <2>5
       DEF Promise!Deliver, Promise!Nothing, Promise!NoTree, Unasked
<1>3. CASE Missing(w) # {}
  <2>1. trees' = trees
    BY <1>1, <1>3
  <2> QED
    BY <1>1, <2>1 DEF Promise!treeVars
<1> QED
  BY <1>2, <1>3

(* Every step of the walks, the host and the disk is a step of the promise  *)
(* or none.                                                                *)
LEMMA PromisedStep ==
  ASSUME RemoteInv, [Next]_vars
  PROVE  [Promise!TreesNext]_(Promise!treeVars)
<1> DEFINE trees == [v \in Walks |-> IF phase[v] = "ready" THEN text[v] ELSE <<>>]
<1>1. DOMAIN phase = Walks /\ DOMAIN text = Walks /\ DOMAIN served = Walks
  BY DEF RemoteInv, RemoteTypes
<1>2. ASSUME NEW w \in Walks, NEW f \in Files, GetStep(w, f)
      PROVE  UNCHANGED Promise!treeVars
  <2>1. PICK t : GetEffect(w, f, t)
    BY <1>2, GetSteps
  <2> QED
    BY <2>1 DEF GetEffect, Promise!treeVars
<1>3. ASSUME NEW w \in Walks, LosesView(w)
      PROVE  Promise!Release(w)
  <2>1. UNCHANGED origin /\ served' = [served EXCEPT ![w] = Unasked]
    BY <1>3 DEF LosesView
  <2>2. /\ phase'[w] # "ready"
        /\ \A v \in Walks \ {w} : phase'[v] = phase[v] /\ text'[v] = text[v]
    BY <1>1, <1>3 DEF LosesView
  <2>3. trees' = [trees EXCEPT ![w] = <<>>]
    BY <2>2
  <2> QED
    BY <2>1, <2>3 DEF Promise!Release, Promise!NoTree, Promise!Nothing, Unasked
<1>4. ASSUME NEW w \in Walks, Refuses(w)
      PROVE  UNCHANGED Promise!treeVars
  <2>1. UNCHANGED <<origin, served, text>> /\ phase[w] = "idle" /\ phase'[w] = "over"
        /\ \A v \in Walks \ {w} : phase'[v] = phase[v]
    BY <1>1, <1>4 DEF Refuses, hostVars
  <2>2. trees' = trees
    BY <2>1
  <2> QED
    BY <2>1, <2>2 DEF Promise!treeVars
<1>5. ASSUME NEW w \in Walks, Begin(w)
      PROVE  Promise!Asks(w)
  <2>1. /\ UNCHANGED <<origin, text>> /\ phase[w] = "idle" /\ phase'[w] = "walking"
        /\ served' = [served EXCEPT ![w] = [f \in Files |-> {origin[f]}]]
        /\ \A v \in Walks \ {w} : phase'[v] = phase[v]
    BY <1>1, <1>5 DEF Begin
  <2>2. trees' = trees
    BY <2>1
  <2>3. served[w] = Unasked
    BY <2>1 DEF RemoteInv, HostInv, Walking
  <2> QED
    BY <2>1, <2>2, <2>3 DEF Promise!Asks, Promise!Nothing, Unasked
<1>6. ASSUME NEW f \in Files, NEW c \in Versions[f], Push(f, c)
      PROVE  Promise!Published(f, c)
  <2>1. trees' = trees
    BY <1>6 DEF Push
  <2> QED
    BY <1>6, <2>1 DEF Push, Promise!Published, Promise!Nothing, Unasked
<1>7. ASSUME DiskFault
      PROVE  UNCHANGED Promise!treeVars
  BY <1>7 DEF DiskFault, hostVars, walkVars, Promise!treeVars
<1>8. CASE UNCHANGED vars
  BY <1>8 DEF vars, hostVars, walkVars, Promise!treeVars
<1>9. ASSUME NEW w \in Walks, LevelTaken(w)
      PROVE  Promise!Deliver(w) \/ UNCHANGED Promise!treeVars
  BY <1>9, LevelDelivers
<1> QED
  BY <1>2, <1>3, <1>4, <1>5, <1>6, <1>7, <1>8, <1>9, RemoteStepsAre DEF Promise!TreesNext

(* Whatever other walks do to the shared cache, whoever dies there, and     *)
(* whatever the disk loses, the caller of materialize_remote_dot gets a     *)
(* whole tree of files, each as fresh as a fetch made after it asked, or    *)
(* nothing: the walks implement PublishedTrees.                            *)
THEOREM PromiseKeptHolds == Spec => PromiseKept
<1>1. Init => RemoteInv /\ Promise!TreesInit
  BY RemoteStart, PromisedStart
<1>2. RemoteInv /\ [Next]_vars => RemoteInv' /\ [Promise!TreesNext]_(Promise!treeVars)
  BY RemoteStep, PromisedStep
<1> QED
  BY <1>1, <1>2, PTL DEF Spec, PromiseKept, Promise!TreesSpec

=============================================================================
