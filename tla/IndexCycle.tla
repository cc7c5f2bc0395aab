------------------------------ MODULE IndexCycle ------------------------------
(***************************************************************************)
(* One indexing cycle as it really runs. The engine derives a stream from  *)
(* its in-memory cursor, the processor reverts once and then applies block *)
(* by block, each block with the cursor that describes it, and only then   *)
(* does the in-memory cursor move. Every store call is atomic; between two *)
(* of them the process may die, the call may fail, the chain may move, or  *)
(* a reconfigure may cancel the cycle and wipe the store.                  *)
(*                                                                         *)
(* Cancelling rejects the caller and cannot stop the work: a cancelled     *)
(* call keeps running beside whatever starts next.                         *)
(***************************************************************************)
EXTENDS Chain

CONSTANTS
    Nothing,        \* no cursor, no call: undefined
    MayReturn,      \* the chain may go back to a block it abandoned
    RaceWipe,       \* a reconfigure may come while a cycle is in flight
    Plans           \* what may go wrong in one behaviour, and how often

ASSUME FaultsAssumption ==
    /\ MayReturn \in BOOLEAN /\ RaceWipe \in BOOLEAN
    /\ Plans \subseteq [crashes : Nat, faults : Nat, wipes : Nat]

VARIABLES
    applied,    \* store: the blocks whose logs are in the state
    cursor,     \* store: the cursor written with them
    lastSync,   \* memory: the engine's cursor, Nothing until loaded
    latest,     \* memory: the tip the cycle has read and not yet fetched up to
    calls,      \* memory: the processor calls in flight
    wipe,       \* memory: how far a reconfigure has got
    abandoned,  \* chain: blocks a reorg took away
    plan,       \* the plan of this behaviour: it never changes
    crashes,    \* process deaths
    faults,     \* transient failures of a handler or a store write
    wipes       \* reconfigures

storeVars == <<applied, cursor>>
budgetVars == <<plan, crashes, faults, wipes>>
vars == <<branch, tip, applied, cursor, lastSync, latest, calls, wipe, abandoned, budgetVars>>

(* The call the engine waits for, and one it has cancelled.                 *)
Slots == {"live", "cancelled"}

(* What a call still has to do: revert for `retract` if it is not empty,    *)
(* apply `todo`, leave `sync`. `chain` is what the node served it.          *)
Call == [retract : SUBSET Block, todo : SUBSET Block, sync : LastSync, chain : SUBSET Block]

ASSUME NothingAssumption == Nothing \notin Height /\ Nothing \notin LastSync /\ Nothing \notin Call

NoCalls == [w \in Slots |-> Nothing]

Init ==
    /\ ChainInit
    /\ applied = {} /\ cursor = Nothing
    /\ lastSync = Nothing /\ latest = Nothing
    /\ calls = NoCalls
    /\ wipe = "none"
    /\ abandoned = {}
    /\ plan \in Plans
    /\ crashes = 0 /\ faults = 0 /\ wipes = 0

-----------------------------------------------------------------------------
(* The chain.                                                               *)

Mine ==
    /\ NewBlock
    /\ UNCHANGED <<storeVars, lastSync, calls, latest, wipe, abandoned, budgetVars>>

Reorg(b, t) ==
    /\ b # branch
    /\ SwitchTo(b, t)
    /\ MayReturn \/ \A x \in abandoned : b[x.num] # x.hash
    /\ abandoned' = IF MayReturn THEN {}
                    ELSE abandoned \cup {x \in LogsOf(branch, 0, tip) : b[x.num] # x.hash}
    /\ UNCHANGED <<storeVars, lastSync, latest, calls, wipe, budgetVars>>

-----------------------------------------------------------------------------
(* The engine.                                                              *)

(* promiseToLoad: resume from the stored cursor, or start over without one. *)
Loaded == IF cursor = Nothing THEN FreshSync ELSE cursor

Load ==
    /\ lastSync = Nothing
    /\ lastSync' = Loaded
    /\ UNCHANGED <<chainVars, storeVars, calls, latest, wipe, abandoned, budgetVars>>

(* promiseToIndex: the tip is read first. One cycle runs at a time, and     *)
(* none while a reconfigure blocks the loop.                                *)
ReadTip ==
    /\ lastSync # Nothing
    /\ calls["live"] = Nothing
    /\ wipe = "none"
    /\ latest = Nothing
    /\ latest' = tip
    /\ UNCHANGED <<chainVars, storeVars, lastSync, calls, wipe, abandoned, budgetVars>>

(* The fetch, up to the tip that was read or as far as the span reaches,    *)
(* and the stream it becomes.                                               *)
Fetch(to) ==
    LET from == getFromBlock(lastSync)
        delta == generateStreamToAppend(lastSync, LogsOf(branch, from, to), from, to, latest)
    IN /\ latest # Nothing
       /\ to \in from .. latest
       /\ to >= Smaller(latest, from + Finality)
       /\ calls' = [calls EXCEPT !["live"] =
                        [retract |-> delta.retract, todo |-> delta.apply, sync |-> delta.sync,
                         chain |-> LogsOf(branch, StartBlock, to)]]
       /\ latest' = Nothing
       /\ UNCHANGED <<chainVars, storeVars, lastSync, wipe, abandoned, budgetVars>>

(* Nothing to fetch: an empty stream under the cursor there already is.     *)
FetchNothing ==
    /\ latest # Nothing
    /\ getFromBlock(lastSync) > latest
    /\ calls' = [calls EXCEPT !["live"] =
                    [retract |-> {}, todo |-> {}, sync |-> lastSync,
                     chain |-> LogsOf(branch, StartBlock, lastSync.lastToBlock)]]
    /\ latest' = Nothing
    /\ UNCHANGED <<chainVars, storeVars, lastSync, wipe, abandoned, budgetVars>>

-----------------------------------------------------------------------------
(* The processor: applyEventStream, for the call in slot w.                 *)

Lowest(S) == CHOOSE b \in S : \A x \in S : b.num <= x.num

(* A revert for every retracted block but the lowest.                       *)
RevertAboveLowest(w) ==
    /\ calls[w] # Nothing
    /\ calls[w].retract # {}
    /\ applied' = KeptThrough(applied, calls[w].retract)
    /\ calls' = [calls EXCEPT ![w].retract = {}]
    /\ UNCHANGED <<chainVars, cursor, lastSync, latest, wipe, abandoned, budgetVars>>

(* Revert once, below the lowest retracted block, before anything applies.  *)
(* The cursor stays as it is.                                               *)
Revert(w) ==
    /\ calls[w] # Nothing
    /\ calls[w].retract # {}
    /\ applied' = KeptBelow(applied, calls[w].retract)
    /\ calls' = [calls EXCEPT ![w].retract = {}]
    /\ UNCHANGED <<chainVars, cursor, lastSync, latest, wipe, abandoned, budgetVars>>

Applying(w) == calls[w] # Nothing /\ calls[w].retract = {} /\ calls[w].todo # {}

NextBlock(w) == Lowest(calls[w].todo)

(* A block that carries the cursor of the end of the stream.                *)
ApplyWithFinalCursor(w) ==
    /\ Applying(w)
    /\ calls[w].todo # {NextBlock(w)}
    /\ Accepts(applied, NextBlock(w))
    /\ applied' = applied \cup {NextBlock(w)}
    /\ cursor' = calls[w].sync
    /\ calls' = [calls EXCEPT ![w].todo = @ \ {NextBlock(w)}]
    /\ UNCHANGED <<chainVars, lastSync, latest, wipe, abandoned, budgetVars>>

(* One block with its mutations, and the cursor that describes it.          *)
Apply(w) ==
    /\ Applying(w)
    /\ calls[w].todo # {NextBlock(w)}
    /\ Accepts(applied, NextBlock(w))
    /\ applied' = applied \cup {NextBlock(w)}
    /\ cursor' = cursorSyncedThrough(calls[w].sync, NextBlock(w).num)
    /\ calls' = [calls EXCEPT ![w].todo = @ \ {NextBlock(w)}]
    /\ UNCHANGED <<chainVars, lastSync, latest, wipe, abandoned, budgetVars>>

(* The last store call of a stream writes the cursor it ends at, and the    *)
(* engine's own cursor moves as the call returns. A cancelled call moves it *)
(* too: what landed is recorded before the cancellation is honoured.        *)
Return(w) ==
    /\ cursor' = calls[w].sync
    /\ lastSync' = calls[w].sync
    /\ calls' = [calls EXCEPT ![w] = Nothing]
    /\ UNCHANGED <<chainVars, latest, wipe, abandoned, budgetVars>>

ApplyLast(w) ==
    /\ Applying(w)
    /\ calls[w].todo = {NextBlock(w)}
    /\ Accepts(applied, NextBlock(w))
    /\ applied' = applied \cup {NextBlock(w)}
    /\ Return(w)

(* A stream that applies nothing still moves the cursor.                    *)
WriteCursorOnly(w) ==
    /\ calls[w] # Nothing
    /\ calls[w].retract = {} /\ calls[w].todo = {}
    /\ applied' = applied
    /\ Return(w)

(* The store refuses the block: the call throws, the engine's cursor stays. *)
Refuse(w) ==
    /\ Applying(w)
    /\ ~Accepts(applied, NextBlock(w))
    /\ calls' = [calls EXCEPT ![w] = Nothing]
    /\ UNCHANGED <<chainVars, storeVars, lastSync, latest, wipe, abandoned, budgetVars>>

(* A handler or a store write fails for a reason that will pass.            *)
Fault(w) ==
    /\ calls[w] # Nothing
    /\ faults < plan.faults
    /\ faults' = faults + 1
    /\ calls' = [calls EXCEPT ![w] = Nothing]
    /\ UNCHANGED <<chainVars, storeVars, lastSync, latest, wipe, abandoned, crashes, wipes, plan>>

-----------------------------------------------------------------------------
(* Death, and a reconfigure that discards the state.                        *)

Crash ==
    /\ crashes < plan.crashes
    /\ crashes' = crashes + 1
    /\ lastSync' = Nothing /\ latest' = Nothing
    /\ calls' = NoCalls
    /\ wipe' = "none"
    /\ UNCHANGED <<chainVars, storeVars, abandoned, faults, wipes, plan>>

(* updateProcessor: block the loop, cancel what is in flight, then clear.   *)
Reconfigure ==
    /\ wipes < plan.wipes
    /\ wipe = "none"
    /\ lastSync # Nothing
    /\ calls["cancelled"] = Nothing
    /\ RaceWipe \/ calls["live"] = Nothing
    /\ wipes' = wipes + 1
    /\ wipe' = "state"
    /\ calls' = [live |-> Nothing, cancelled |-> calls["live"]]
    /\ latest' = Nothing
    /\ UNCHANGED <<chainVars, storeVars, lastSync, abandoned, crashes, faults, plan>>

(* EntityEventProcessor.reset: revertTo(-1), then the cursor.               *)
WipeState ==
    /\ wipe = "state"
    /\ wipe' = "cursor"
    /\ applied' = {}
    /\ UNCHANGED <<chainVars, cursor, lastSync, latest, calls, abandoned, budgetVars>>

WipeCursor ==
    /\ wipe = "cursor"
    /\ wipe' = "load"
    /\ cursor' = Nothing
    /\ UNCHANGED <<chainVars, applied, lastSync, latest, calls, abandoned, budgetVars>>

(* The load at the end of it, and the loop is unblocked.                    *)
Reload ==
    /\ wipe = "load"
    /\ wipe' = "none"
    /\ lastSync' = Loaded
    /\ UNCHANGED <<chainVars, storeVars, latest, calls, abandoned, budgetVars>>

-----------------------------------------------------------------------------

ProcessorStep(w) ==
    \/ Revert(w)
    \/ Apply(w)
    \/ ApplyLast(w)
    \/ WriteCursorOnly(w)
    \/ Refuse(w)

Next ==
    \/ Mine
    \/ \E b \in Branches, t \in Height : Reorg(b, t)
    \/ Load
    \/ ReadTip
    \/ \E to \in Height : Fetch(to)
    \/ FetchNothing
    \/ \E w \in Slots : ProcessorStep(w) \/ Fault(w)
    \/ Crash
    \/ Reconfigure \/ WipeState \/ WipeCursor \/ Reload

Spec == Init /\ [][Next]_vars

(* The host loop re-arms itself after a cycle and after a failure, and      *)
(* reads the tip afresh; a store call that is asked for answers.            *)
FairSpec ==
    /\ Spec
    /\ WF_vars(Load)
    /\ WF_vars(ReadTip)
    /\ WF_vars(FetchNothing \/ \E to \in Height : Fetch(to))
    /\ \A w \in Slots : WF_vars(ProcessorStep(w))
    /\ WF_vars(WipeState \/ WipeCursor \/ Reload)

-----------------------------------------------------------------------------

(* Every variable has its type.                                             *)
TypeOK ==
    /\ branch \in Branches /\ tip \in Height
    /\ applied \subseteq Block
    /\ cursor \in LastSync \cup {Nothing}
    /\ lastSync \in LastSync \cup {Nothing}
    /\ latest \in Height \cup {Nothing}
    /\ \A w \in Slots : calls[w] = Nothing \/ calls[w] \in Call
    /\ wipe \in {"none", "state", "cursor", "load"}
    /\ abandoned \subseteq Block
    /\ plan \in Plans
    /\ crashes \in 0 .. plan.crashes /\ faults \in 0 .. plan.faults /\ wipes \in 0 .. plan.wipes

(* Wherever the process dies, what is on disk can be resumed from: below    *)
(* the block the stored cursor resumes at the state is the chain, and above *)
(* it the state holds nothing the cursor does not know of. A block applied  *)
(* ahead of its cursor is refused on every restart; a cursor ahead of its   *)
(* block skips the block for ever (syncedThrough). A call that failed in    *)
(* mid-stream is another matter: see Refuse.                                *)
RestartSafe ==
    faults = 0 /\ wipe = "none" =>
        IF cursor = Nothing
        THEN applied = {}
        ELSE LET from == getFromBlock(cursor) IN
             /\ {b \in applied : b.num < from} = LogsOf(branch, StartBlock, from - 1)
             /\ \A b \in applied : b.num >= from => b \in cursor.window

(* What is in memory has its type, and what is on disk can be resumed from. *)
CycleSound == TypeOK /\ RestartSafe

(* What applyBlock promises of the cursor it writes with a block: a death   *)
(* never leaves the cursor ahead of the state, which would skip a block for *)
(* ever. Everything the chain carries below the block that the stored       *)
(* cursor resumes at is in the state, after a call that failed too. Until   *)
(* the first fault RestartSafe implies it; after one it is false: the retry *)
(* retracts again from the old cursor in memory, and revertTo takes back    *)
(* blocks that the stored cursor counts (run fault_skips).                  *)
NothingSkipped ==
    wipe = "none" /\ cursor # Nothing =>
        LogsOf(branch, StartBlock, getFromBlock(cursor) - 1) \subseteq applied

(* No block is handed to the store while the store already holds it or a    *)
(* later one: a refusal is permanent, because the next cycle derives the    *)
(* same block again.                                                        *)
NeverRefused == faults = 0 => \A w \in Slots : Applying(w) => Accepts(applied, NextBlock(w))

(* A cycle that returns leaves the state equal to the chain it fetched, up  *)
(* to the end of the range, whatever died or was wiped before it.           *)
CycleEndsOnChain ==
    [][\A w \in Slots :
        faults = 0 /\ (ApplyLast(w) \/ WriteCursorOnly(w)) =>
            {b \in applied' : b.num <= lastSync'.lastToBlock} = calls[w].chain]_vars

(* Once the chain holds still, and unless a call has failed in mid-stream,  *)
(* the state becomes the chain: deaths and wipes are recovered from. After  *)
(* a failure the retry may be refused for good.                             *)
CatchesUp ==
    <>[][FALSE]_chainVars /\ [](faults = 0) => <>[](applied = LogsOf(branch, StartBlock, tip))
=============================================================================
