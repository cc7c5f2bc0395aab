-------------------------------- MODULE Chain --------------------------------
(***************************************************************************)
(* The chain as the node serves it: `branch` is one of Branches, as a      *)
(* function from height to hash, and `tip` is eth_blockNumber. Two         *)
(* branches that share a block share everything below it, because a hash   *)
(* covers its parent. Which blocks carry logs of the indexed contracts is  *)
(* LogBearing.                                                             *)
(***************************************************************************)
EXTENDS ReorgWindow

CONSTANTS
    Branches,       \* the chains that may come to be
    LogBearing,     \* the blocks that carry logs of ours
    MaxRegress      \* how far the reported tip may fall back

ASSUME BranchesAssumption ==
    /\ Branches \subseteq [Height -> Hash]
    /\ \A a, b \in Branches : \A n \in Height :
            a[n] = b[n] => \A m \in 0 .. n : a[m] = b[m]

ASSUME ChainAssumption ==
    /\ LogBearing \subseteq Block
    /\ MaxRegress \in Nat

VARIABLES
    branch,     \* the chain the node serves
    tip         \* its height, eth_blockNumber

chainVars == <<branch, tip>>

(* eth_getLogs over a range of a chain.                                     *)
LogsOf(b, from, to) ==
    {x \in LogBearing : x.num \in from .. to /\ x.hash = b[x.num]}

ChainInit ==
    /\ branch \in Branches
    /\ tip = 0

NewBlock ==
    /\ tip < MaxHeight
    /\ tip' = tip + 1
    /\ UNCHANGED branch

(* Another branch wins. Blocks deeper than Finality below the tip stay, and *)
(* the tip the node reports falls back by at most MaxRegress.               *)
SwitchTo(b, t) ==
    /\ \A n \in Height : n < tip - Finality => b[n] = branch[n]
    /\ t >= tip - MaxRegress
    /\ branch' = b
    /\ tip' = t
=============================================================================
