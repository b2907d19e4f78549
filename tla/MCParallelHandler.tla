-------------------------- MODULE MCParallelHandler --------------------------
(***************************************************************************)
(* Three branches under every pair of policies, with the thresholds that    *)
(* three branches can meet, just meet and never meet.                      *)
(***************************************************************************)
EXTENDS ParallelHandler

CONSTANTS b1, b2, b3

MCBranches == {b1, b2, b3}

Attributes(error, join, k, n, d, parallel, backend) ==
  [error |-> error, join |-> join, minSuccess |-> k, numerator |-> n, denominator |-> d,
   maxParallel |-> parallel, backend |-> backend]

MCConfigs ==
  {Attributes(e, j, 1, 1, 2, 2, FALSE) :
     e \in {"continue", "fail_fast", "ignore"}, j \in {"wait_all", "first_success", "quorum"}}
    \cup {Attributes(e, "k_of_n", k, 1, 2, p, FALSE) :
            e \in {"continue", "fail_fast"}, k \in {0, 2, 4}, p \in {1, 3}}
    \cup {Attributes("ignore", "k_of_n", 2, 1, 2, 3, TRUE)}

=============================================================================
