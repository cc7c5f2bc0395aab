--------------------------- MODULE MCChainFollower ---------------------------
(* Branches that leave the trunk (tag 0) at each height of Forks: tag k is  *)
(* the branch that forks at k. Quiet blocks carry no logs, so windows are   *)
(* sparse and a reorg can remove logs without replacing them.               *)
EXTENDS ChainFollower

CONSTANTS Forks, Quiet

MCHash == {0} \cup Forks
MCBranches == {[n \in Height |-> IF n < k THEN 0 ELSE k] : k \in MCHash}
MCLogBearing == {b \in Block : <<b.num, b.hash>> \notin Quiet}

MCQuiet == {<<0, 0>>, <<2, 0>>, <<5, 0>>, <<3, 2>>, <<5, 4>>, <<6, 4>>, <<6, 5>>, <<7, 6>>}
=============================================================================
