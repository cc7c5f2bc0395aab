---------------------------- MODULE ChainFollower ----------------------------
(***************************************************************************)
(* The contract of the engine, one step per indexing cycle: a chain that   *)
(* grows and reorganises, and a follower that re-fetches the reorg window, *)
(* derives what to retract and what to apply, and moves its cursor.        *)
(***************************************************************************)
EXTENDS Chain

CONSTANTS
    MinSpan,        \* the narrowest range a fetch answers before it stops short
    MaxSpan         \* the widest range a fetch asks for

ASSUME SpanAssumption ==
    /\ MinSpan \in Nat \ {0}
    /\ MaxSpan \in Nat /\ MaxSpan >= MinSpan

VARIABLES
    applied,    \* the blocks whose logs are in the state
    sync        \* the follower's cursor (LastSync)

vars == <<branch, tip, applied, sync>>

Init ==
    /\ ChainInit
    /\ applied = {}
    /\ sync = FreshSync

-----------------------------------------------------------------------------

Mine == NewBlock /\ UNCHANGED <<applied, sync>>

Reorg(b, t) == SwitchTo(b, t) /\ UNCHANGED <<applied, sync>>

Delta(latest, to) ==
    LET from == getFromBlock(sync)
    IN generateStreamToAppend(sync, LogsOf(branch, from, to), from, to, latest)

(* The ranges a fetch may answer. The tip was read before the logs were, so *)
(* `latest` may lag; the fetcher's span adapts between MinSpan and MaxSpan  *)
(* blocks. A range with no block in it is not fetched.                      *)
Fetchable(latest, to) ==
    LET from == getFromBlock(sync)
    IN /\ latest \in Smaller(sync.latestBlock, tip) .. tip
       /\ to \in from .. latest
       /\ to >= Smaller(latest, from + MinSpan - 1)
       /\ to <= from + MaxSpan - 1

(* One indexing cycle: fetch, derive the stream, revert to the fork, apply  *)
(* the blocks and move the cursor.                                          *)
Cycle(latest, to) ==
    LET delta == Delta(latest, to)
        kept == KeptBelow(applied, delta.retract)
    IN /\ Fetchable(latest, to)
       /\ \A b \in delta.apply : Accepts(kept, b)
       /\ applied' = kept \cup delta.apply
       /\ sync' = delta.sync
       /\ UNCHANGED chainVars

Next ==
    \/ Mine
    \/ \E b \in Branches, t \in Height : Reorg(b, t)
    \/ \E latest, to \in Height : Cycle(latest, to)

Spec == Init /\ [][Next]_vars

CatchUp == \E to \in Height : Cycle(tip, to)

(* The indexing loop reschedules itself after every cycle, and reads the    *)
(* tip afresh each time.                                                    *)
FairSpec == Spec /\ WF_vars(CatchUp)

-----------------------------------------------------------------------------

(* Every variable has its type.                                             *)
TypeOK ==
    /\ branch \in Branches
    /\ tip \in Height
    /\ applied \subseteq Block
    /\ sync \in LastSync

(* Window membership decides what is new (generateStreamToAppend), so the   *)
(* window holds every applied block a later fetch can return, and nothing   *)
(* that was not applied.                                                    *)
WindowComplete ==
    /\ sync.window \subseteq applied
    /\ \A b \in applied : b.num >= getFromBlock(sync) => b \in sync.window

(* Below the block the next fetch starts at, the state already is the chain *)
(* and stays so whatever the chain does next: nothing there is looked at    *)
(* again.                                                                   *)
SettledMatchesChain ==
    {b \in applied : b.num < getFromBlock(sync)} =
        LogsOf(branch, StartBlock, getFromBlock(sync) - 1)

(* Whatever range the next fetch returns, no block of it is handed to the   *)
(* processor while the state still holds it: a re-applied block is a        *)
(* refusal on every later cycle too, or a silent double count.              *)
NothingDeliveredTwice ==
    \A latest, to \in Height :
        Fetchable(latest, to) =>
            KeptBelow(applied, Delta(latest, to).retract) \cap Delta(latest, to).apply = {}

(* Whatever range the next fetch returns, the store accepts every block of  *)
(* it once the fork is reverted: each lands above what is still recorded,   *)
(* although the window is sparse and newness is membership, not height.     *)
StoreAccepts ==
    \A latest, to \in Height :
        Fetchable(latest, to) =>
            \A b \in Delta(latest, to).apply :
                Accepts(KeptBelow(applied, Delta(latest, to).retract), b)

(* A revert to the fork point takes back exactly what the stream retracts:  *)
(* no applied block above the fork is lost without being retracted, so none *)
(* is missing from the state and thought to be in it.                       *)
RevertIsExact ==
    \A latest, to \in Height :
        Fetchable(latest, to) =>
            applied \ KeptBelow(applied, Delta(latest, to).retract) = Delta(latest, to).retract

(* A cycle leaves the state equal to the chain over everything its cursor   *)
(* claims to have covered.                                                  *)
CycleMatchesChain ==
    [][sync' # sync => {b \in applied' : b.num <= sync'.lastToBlock}
                           = LogsOf(branch, StartBlock, sync'.lastToBlock)]_vars

(* Once the chain holds still the state becomes the chain: a fetch that is  *)
(* never narrower than the reorg window cannot re-fetch one range for ever. *)
CatchesUp ==
    <>[][FALSE]_chainVars => <>[](applied = LogsOf(branch, StartBlock, tip))
=============================================================================
