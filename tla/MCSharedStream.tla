--------------------------- MODULE MCSharedStream ---------------------------
(* Branches by the heights they fork at, as in MCIndexCycle. Quiet blocks   *)
(* carry no logs.                                                           *)
EXTENDS SharedStream

CONSTANT Forks

MCHash == SUBSET Forks
MCBranches == {[n \in Height |-> F \cap (1 .. n)] : F \in SUBSET Forks}
MCQuiet == {<<2, {}>>, <<3, {2}>>}
MCLogBearing == {b \in Block : b.num > 0 /\ <<b.num, b.hash>> \notin MCQuiet}

Deployment(senders, height, deliver, budgets, feedBatch, minRise, reorg, crash, fault) ==
    [senders |-> senders, height |-> height, deliver |-> deliver, budgets |-> budgets,
     feedBatch |-> feedBatch, minRise |-> minRise, reorgs |-> reorg, crashes |-> crash, faults |-> fault]

CONSTANTS s1, s2

(* Deltas and whole chunks; chunks alone, budgeted and failing; two senders *)
(* whose receives overlap, with no fold in the way; and, on a short chain,  *)
(* with folds that are offered a block twice.                               *)
MCDeployments ==
    {Deployment({s1}, 4, TRUE, {9}, 2, 0, 2, 0, 0),
     Deployment({s1}, 4, FALSE, {1, 2}, 1, 1, 2, 1, 1),
     Deployment({s1, s2}, 3, FALSE, {}, 2, 0, 0, 0, 0),
     Deployment({s1, s2}, 2, TRUE, {}, 2, 0, 0, 0, 0)}
MCLiveDeployments ==
    {Deployment({s1}, 3, FALSE, {1}, 1, 1, 1, 0, 1),
     Deployment({s1}, 3, TRUE, {9}, 2, 0, 1, 0, 0)}
=============================================================================
