--------------------------- MODULE MCRetainedReorg ---------------------------
(* The chain of MCChainFollower under a store that prunes.                  *)
EXTENDS RetainedReorg

CONSTANT Forks

MCHash == {0} \cup Forks
MCBranches == {[n \in Height |-> IF n < k THEN 0 ELSE k] : k \in MCHash}
MCLogBearing == {b \in Block : b.num > 0}
=============================================================================
