---------------------------- MODULE RetainedReorg ----------------------------
(***************************************************************************)
(* The follower over a store that prunes between cycles, to the depth the  *)
(* deployment declares, which is the stream's own finality (the CLI passes *)
(* streamConfig.finality as the store's finalityDepth). `floor` is what a  *)
(* revert may no longer go below: versions closed at or below it are gone. *)
(***************************************************************************)
EXTENDS ChainFollower

VARIABLE floor      \* the highest floor a prune has deleted at

(* The store's tip is its highest recorded block, and a revert-only store,  *)
(* or a window of the least size allowed, prunes at tip - finalityDepth.    *)
PruneFloor(b) == Larger(0, b.num - Finality)

PruneStore ==
    /\ \E b \in applied :
        /\ \A a \in applied : a.num <= b.num
        /\ floor' = Larger(floor, PruneFloor(b))
    /\ UNCHANGED vars

RetainedInit == Init /\ floor = 0

RetainedNext == \/ Next /\ UNCHANGED floor
                \/ PruneStore

RetainedSpec == RetainedInit /\ [][RetainedNext]_<<vars, floor>>

(* A revert never goes below what the store has pruned to: the versions it  *)
(* has to reopen are the ones closed above the fork.                        *)
RevertsWithinRetention ==
    \A latest, to \in Height :
        Fetchable(latest, to) =>
            \A r \in Delta(latest, to).retract : r.num - 1 >= floor
=============================================================================
