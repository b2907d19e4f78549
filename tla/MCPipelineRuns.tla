------------------------- MODULE MCPipelineRuns -------------------------
(* Three nodes, a fan-out, a folder and one that calls the model, which the *)
(* pipeline and its child pipelines share, started in each of the four ways *)
(* with up to four walks at once.  The tasks but the first differ only in   *)
(* their names.                                                             *)
EXTENDS PipelineRuns, TLC

CONSTANTS top, t1, t2, t3

MCTasks == {top, t1, t2, t3}
TaskSymmetry == Permutations({t1, t2, t3})
MCNodes == {"work", "fan", "folder"}
MCFans == {"fan"}
MCFolders == {"folder"}
MCFullWalks == {j \in Jobs : /\ j.entry = "mounted" /\ j.backend = "own loop"
                             /\ ~j.remote /\ j.checked /\ j.env = "none"
                             /\ j.flaw = "none" /\ j.supply = "served"}
=============================================================================
