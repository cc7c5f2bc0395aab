---------------------------- MODULE MCIndexCycle ----------------------------
(* Branches by the heights they fork at: the hash of a block is the set of  *)
(* forks at or below it, so two branches share a block exactly when they    *)
(* share its ancestors. Quiet blocks carry no logs.                         *)
EXTENDS IndexCycle

CONSTANT Forks

MCHash == SUBSET Forks
MCBranches == {[n \in Height |-> F \cap (1 .. n)] : F \in SUBSET Forks}
MCQuiet == {<<2, {}>>, <<3, {2}>>, <<3, {3}>>, <<5, {4}>>}
MCLogBearing == {b \in Block : b.num > 0 /\ <<b.num, b.hash>> \notin MCQuiet}

(* Every block but the first carries logs: a reorg replaces logs by logs.   *)
MCDense == {b \in Block : b.num > 0}

MCPlans == {[crashes |-> 2, faults |-> 0, wipes |-> 0], [crashes |-> 0, faults |-> 1, wipes |-> 1]}
MCFaultPlan == {[crashes |-> 0, faults |-> 1, wipes |-> 0]}
=============================================================================
