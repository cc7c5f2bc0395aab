----------------------------- MODULE ReorgWindow -----------------------------
(***************************************************************************)
(* The pure half of the engine: which block a fetch starts at, what a      *)
(* fetched range becomes (retractions, then blocks to apply), and the      *)
(* cursor it leaves behind (packages/core/src/internal/engine/utils.ts).   *)
(*                                                                         *)
(* A block that carries logs of the indexed contracts is [num, hash]; its  *)
(* logs travel with it. A payload holds at most one block per height and   *)
(* ascends (assertAscendingByBlock), and so does the window of unconfirmed *)
(* blocks, so both are sets here and "ascending" is the order of num. A    *)
(* stream is the pair of what it retracts and what it then applies.        *)
(***************************************************************************)
EXTENDS Integers

CONSTANTS
    Hash,           \* block hashes
    MaxHeight,      \* bound on block numbers
    Finality,       \* the stream's finality
    StartBlock      \* defaultFromBlock: the first block the source indexes

Height == 0 .. MaxHeight

ASSUME FinalityAssumption == Finality \in Nat
ASSUME HeightAssumption == MaxHeight \in Nat /\ StartBlock \in Height

Block == [num : Height, hash : Hash]

LastSync == [latestBlock : Height, lastToBlock : Height, window : SUBSET Block]

(* freshLastSync                                                            *)
FreshSync == [latestBlock |-> 0, lastToBlock |-> 0, window |-> {}]

Larger(a, b) == IF a >= b THEN a ELSE b
Smaller(a, b) == IF a <= b THEN a ELSE b

(* A resume that forgets the reorg window: the block above the last one.    *)
getFromBlockNoRewind(sync) ==
    IF sync.latestBlock = 0 THEN StartBlock ELSE Larger(sync.lastToBlock + 1, StartBlock)

(* A resume that rewinds from the tip whatever was covered: it skips what a *)
(* short fetch left behind.                                                 *)
getFromBlockFromTip(sync) ==
    IF sync.latestBlock = 0 THEN StartBlock ELSE Larger(sync.latestBlock - Finality, StartBlock)

(* Resume above what was covered, but never above the bottom of the window  *)
(* a reorg can still reach, and never below the source.                     *)
getFromBlock(sync) ==
    IF sync.latestBlock = 0
    THEN StartBlock
    ELSE Larger(Smaller(sync.lastToBlock + 1, sync.latestBlock - Finality), StartBlock)

(* A per-block cursor whose window still holds the blocks not yet applied.  *)
cursorSyncedThroughWholeWindow(sync, n) == [sync EXCEPT !.lastToBlock = n]

(* The cursor as it stood when only the blocks up to n had been applied.    *)
cursorSyncedThrough(sync, n) ==
    [sync EXCEPT !.lastToBlock = n, !.window = {b \in sync.window : b.num <= n}]

(* A window block the fetched range covers and does not carry: replaced     *)
(* (contradiction) or gone (absence). Outside the range nothing is proved.  *)
Contradicted(sync, payload, from, to) ==
    {b \in sync.window : b.num \in from .. to /\ b \notin payload}

(* The reorg starts at the lowest contradicted block, and takes every       *)
(* window block from there up with it.                                      *)
Retracted(sync, payload, from, to) ==
    {b \in sync.window : \E c \in Contradicted(sync, payload, from, to) : c.num <= b.num}

(* Newness by height: only what is above the window it arrived with is new. *)
StreamByHeight(sync, payload, from, to, latest) ==
    LET retract == Retracted(sync, payload, from, to)
        retained == sync.window \ retract
        apply == {p \in payload : \A w \in sync.window : w.num < p.num}
    IN [retract |-> retract,
        apply |-> apply,
        sync |-> [latestBlock |-> latest,
                  lastToBlock |-> to,
                  window |-> {b \in retained : to - b.num <= Finality}
                             \cup {b \in apply : latest - b.num <= Finality}]]

(* No membership test: every fetched block is new.                          *)
StreamWithoutMembership(sync, payload, from, to, latest) ==
    LET retract == Retracted(sync, payload, from, to)
        retained == sync.window \ retract
    IN [retract |-> retract,
        apply |-> payload,
        sync |-> [latestBlock |-> latest,
                  lastToBlock |-> to,
                  window |-> {b \in retained : to - b.num <= Finality}
                             \cup {b \in payload : latest - b.num <= Finality}]]

(* A window one block too short.                                            *)
StreamShortWindow(sync, payload, from, to, latest) ==
    LET retract == Retracted(sync, payload, from, to)
        retained == sync.window \ retract
        apply == payload \ retained
    IN [retract |-> retract,
        apply |-> apply,
        sync |-> [latestBlock |-> latest,
                  lastToBlock |-> to,
                  window |-> {b \in retained : to - b.num < Finality}
                             \cup {b \in apply : latest - b.num < Finality}]]

(* A cursor one past the range it covered.                                  *)
StreamCursorPastRange(sync, payload, from, to, latest) ==
    LET retract == Retracted(sync, payload, from, to)
        retained == sync.window \ retract
        apply == payload \ retained
    IN [retract |-> retract,
        apply |-> apply,
        sync |-> [latestBlock |-> latest,
                  lastToBlock |-> to + 1,
                  window |-> {b \in retained : to - b.num <= Finality}
                             \cup {b \in apply : latest - b.num <= Finality}]]

(* What a fetched range becomes: the retractions, the blocks the retained   *)
(* window does not hold, and the cursor at the end of the range.            *)
generateStreamToAppend(sync, payload, from, to, latest) ==
    LET retract == Retracted(sync, payload, from, to)
        retained == sync.window \ retract
        apply == payload \ retained
    IN [retract |-> retract,
        apply |-> apply,
        sync |-> [latestBlock |-> latest,
                  lastToBlock |-> to,
                  window |-> {b \in retained : to - b.num <= Finality}
                             \cup {b \in apply : latest - b.num <= Finality}]]

(* A fork point that is the lowest retracted block instead of one below it. *)
KeptThrough(applied, retract) ==
    {b \in applied : \A r \in retract : b.num <= r.num}

(* What a processor keeps of the blocks it has applied when a stream        *)
(* retracts: it reverts once, one below the lowest retracted block.         *)
KeptBelow(applied, retract) ==
    {b \in applied : \A r \in retract : b.num < r.num}

(* applyBlock refuses a height that is not above everything it records.     *)
Accepts(applied, b) == \A a \in applied : a.num < b.num
=============================================================================
