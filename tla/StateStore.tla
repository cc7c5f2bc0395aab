------------------------------ MODULE StateStore ------------------------------
(***************************************************************************)
(* The versioned state store behind the storage seam, as the reference     *)
(* backend MemoryStateStore implements it: rows of closed and live         *)
(* versions, the recorded blocks, the cursor that rides with a block, and  *)
(* the retention floor that `prune` deletes at.                            *)
(*                                                                         *)
(* A business key's value is opaque; the mutations of one block are        *)
(* already coalesced per key (createMutationContext), so a block carries a *)
(* function from keys to "untouched", "deleted" or a new value.            *)
(*                                                                         *)
(* A refused call throws before it writes, so it is a step that changes    *)
(* nothing and has no action of its own.                                   *)
(***************************************************************************)
EXTENDS Integers, FiniteSets

CONSTANTS
    Keys,           \* business keys of the declared entities
    Values,         \* encoded field values of an upsert
    Hashes,         \* normalized block hashes
    Cursors,        \* serialized sync cursors: opaque strings to the store
    NoValue,        \* what a read answers where no version matches
    NoCursor,       \* nothing stored under the cursor key
    Untouched,      \* a block's mutations leave the key alone
    MaxBlock,       \* bound on block numbers
    Retentions,     \* the kinds a store is opened with: "unbounded", "window", "revert-only"
    WindowBlocks,   \* blocks of a "window" retention
    FinalityDepth,  \* the declared reorg depth, or Null when none is stated
    RevertReach,    \* how far below the highest applied block a caller reverts
    PruneBudgets    \* the maxVersions a host prunes with

Null == -1          \* undefined / null: no tip, no upper bound, no floor

Heights == 0 .. MaxBlock

(* resolveRetention refuses a window with no depth, or one below it; and    *)
(* assertFinalityDepth refuses a malformed depth.                           *)
ASSUME BoundsAssumption ==
    /\ MaxBlock \in Nat
    /\ RevertReach \in Nat
    /\ PruneBudgets \subseteq Nat \ {0}
    /\ WindowBlocks \in Nat
    /\ FinalityDepth \in Nat \cup {Null}

ASSUME RetentionAssumption ==
    /\ Retentions \subseteq {"unbounded", "window", "revert-only"}
    /\ "window" \in Retentions => /\ FinalityDepth # Null
                                  /\ WindowBlocks >= FinalityDepth

(* A caller reverts within the depth the store was opened for.              *)
ASSUME ReachAssumption ==
    /\ "window" \in Retentions => RevertReach <= WindowBlocks
    /\ "revert-only" \in Retentions /\ FinalityDepth # Null => RevertReach <= FinalityDepth

ASSUME ValuesAssumption ==
    /\ NoValue \notin Values
    /\ Untouched \notin Values \cup {NoValue}
    /\ NoCursor \notin Cursors

VARIABLES
    retention,  \* the kind this store was opened with
    rows,       \* [Keys -> set of versions]: the row of a key, empty if it has none
    blocks,     \* recorded blocks: a function from their numbers to their hashes
    hashes,     \* the inverse index, from hash to number
    tip,        \* highest recorded block, Null when there is none
    cursor,     \* the value under the sync cursor key
    prunedTo,   \* the floor in the retentionEnforcement record, Null before any prune
    highest,    \* history: highest block applied since the last reset
    lowWater    \* history: highest floor any prune has deleted at since the last reset

vars == <<retention, rows, blocks, hashes, tip, cursor, prunedTo, highest, lowWater>>

Version == [val : Values, lower : Heights, upper : Heights \cup {Null}]

IsLive(v) == v.upper = Null

(* The version predicate of a historical read.                              *)
Covers(v, at) == v.lower <= at /\ (IsLive(v) \/ at < v.upper)

(* `versions.find(matches)` and the value it answers.                       *)
ValueOf(matching) ==
    IF matching = {} THEN NoValue ELSE (CHOOSE v \in matching : TRUE).val

AsOf(k, at) == ValueOf({v \in rows[k] : Covers(v, at)})

Bigger(a, b) == IF a >= b THEN a ELSE b

(* The block at or below which a closed version is deleted.                 *)
retentionFloor(t) ==
    CASE retention = "unbounded" -> Null
      [] retention = "window" -> Bigger(0, t - WindowBlocks)
      [] retention = "revert-only" ->
            IF FinalityDepth = Null THEN Null ELSE Bigger(0, t - FinalityDepth)

(* assertRetained: the historical reads the store answers at all.           *)
Retained(at) ==
    \/ retention = "unbounded"
    \/ retention = "window" /\ (tip = Null \/ at >= retentionFloor(tip))

-----------------------------------------------------------------------------

Init ==
    /\ retention \in Retentions
    /\ rows = [k \in Keys |-> {}]
    /\ blocks = [n \in {} |-> NoValue]
    /\ hashes = [h \in {} |-> Null]
    /\ tip = Null
    /\ cursor = NoCursor
    /\ prunedTo = Null
    /\ highest = Null
    /\ lowWater = 0

Mutations == [Keys -> Values \cup {NoValue, Untouched}]

(* Close the live version of a touched key and, for an upsert, open the     *)
(* next one.                                                                *)
Superseded(versions, n, m) ==
    IF m = Untouched
    THEN versions
    ELSE {IF IsLive(v) THEN [v EXCEPT !.upper = n] ELSE v : v \in versions}
         \cup {[val |-> x, lower |-> n, upper |-> Null] : x \in {m} \ {NoValue}}

(* applyBlock: the block, its mutations and its cursor in one atomic unit.  *)
(* A recorded number, a recorded hash and a height not above the tip are    *)
(* each refused. `c` is NoCursor when the caller passed no cursor.          *)
ApplyBlock(n, h, m, c) ==
    /\ n \notin DOMAIN blocks
    /\ h \notin DOMAIN hashes
    /\ tip = Null \/ n > tip
    /\ blocks' = [i \in DOMAIN blocks \cup {n} |-> IF i = n THEN h ELSE blocks[i]]
    /\ hashes' = [g \in DOMAIN hashes \cup {h} |-> IF g = h THEN n ELSE hashes[g]]
    /\ tip' = n
    /\ rows' = [k \in Keys |-> Superseded(rows[k], n, m[k])]
    /\ cursor' = IF c = NoCursor THEN cursor ELSE c
    /\ highest' = Bigger(highest, n)
    /\ UNCHANGED <<retention, prunedTo, lowWater>>

(* What a revert leaves of a row: versions opened above the fork are gone,  *)
(* versions closed above it are live again.                                 *)
Reopened(versions, keepUpTo) ==
    {IF ~IsLive(v) /\ v.upper > keepUpTo THEN [v EXCEPT !.upper = Null] ELSE v :
        v \in {w \in versions : w.lower <= keepUpTo}}

IsHighest(t, S) ==
    IF S = {} THEN t = Null ELSE t \in S /\ \A n \in S : n <= t

(* A revert that leaves the hashes of the reverted blocks recorded.         *)
RevertKeepsHashes(keepUpTo) ==
    LET kept == {n \in DOMAIN blocks : n <= keepUpTo} IN
    /\ rows' = [k \in Keys |-> Reopened(rows[k], keepUpTo)]
    /\ blocks' = [n \in kept |-> blocks[n]]
    /\ hashes' = hashes
    /\ \E t \in kept \cup {Null} : IsHighest(t, kept) /\ tip' = t
    /\ UNCHANGED <<retention, cursor, prunedTo>>

(* revertTo(keepUpTo). The cursor and the prune record are left alone.      *)
RevertTo(keepUpTo) ==
    LET kept == {n \in DOMAIN blocks : n <= keepUpTo} IN
    /\ rows' = [k \in Keys |-> Reopened(rows[k], keepUpTo)]
    /\ blocks' = [n \in kept |-> blocks[n]]
    /\ hashes' = [h \in DOMAIN hashes \ {blocks[n] : n \in DOMAIN blocks \ kept} |-> hashes[h]]
    /\ \E t \in kept \cup {Null} : IsHighest(t, kept) /\ tip' = t
    /\ UNCHANGED <<retention, cursor, prunedTo>>

(* A reorg revert, from a caller that keeps to the declared depth.          *)
ReorgRevert(keepUpTo) ==
    /\ keepUpTo >= highest - RevertReach
    /\ RevertTo(keepUpTo)
    /\ UNCHANGED <<highest, lowWater>>

(* EntityEventProcessor.reset, first half: revertTo(-1) wipes the state.    *)
ResetState ==
    /\ RevertTo(-1)
    /\ highest' = Null
    /\ lowWater' = 0

(* writeCursor and clearCursor: a cursor moved with no block.               *)
WriteCursor(c) ==
    /\ cursor' = c
    /\ UNCHANGED <<retention, rows, blocks, hashes, tip, prunedTo, highest, lowWater>>

(* A prune by age: it takes live versions too.                              *)
UnreachableByAge(floor) ==
    {p \in UNION {{k} \X rows[k] : k \in Keys} : p[2].lower < floor /\ p[2].upper <= floor}

(* The closed versions at or below the floor: no legal read reaches them.   *)
Unreachable(floor) ==
    {p \in UNION {{k} \X rows[k] : k \in Keys} :
        ~IsLive(p[2]) /\ p[2].upper <= floor}

(* prune({maxVersions}): the unreachable versions oldest first, as many as  *)
(* the budget allows. A store with no floor, or no tip, does nothing.       *)
Prune(budget) ==
    LET floor == retentionFloor(tip) IN
    /\ tip # Null
    /\ floor # Null
    /\ \E doomed \in SUBSET Unreachable(floor) :
        /\ \/ doomed = Unreachable(floor) /\ Cardinality(doomed) <= budget
           \/ Cardinality(doomed) = budget
        /\ \A d \in doomed, u \in Unreachable(floor) \ doomed : d[2].upper <= u[2].upper
        /\ rows' = [k \in Keys |-> {v \in rows[k] : <<k, v>> \notin doomed}]
    /\ prunedTo' = floor
    /\ lowWater' = Bigger(lowWater, floor)
    /\ UNCHANGED <<retention, blocks, hashes, tip, cursor, highest>>

Next ==
    \/ \E n \in Heights, h \in Hashes, m \in Mutations, c \in Cursors \cup {NoCursor} :
            ApplyBlock(n, h, m, c)
    \/ \E keepUpTo \in Heights : ReorgRevert(keepUpTo)
    \/ ResetState
    \/ \E c \in Cursors \cup {NoCursor} : WriteCursor(c)
    \/ \E budget \in PruneBudgets : Prune(budget)

Spec == Init /\ [][Next]_vars

-----------------------------------------------------------------------------
(* Properties.                                                              *)

(* Every variable has its type; a version's bounds are block numbers.       *)
TypeOK ==
    /\ retention \in Retentions
    /\ rows \in [Keys -> SUBSET Version]
    /\ DOMAIN blocks \subseteq Heights
    /\ \A n \in DOMAIN blocks : blocks[n] \in Hashes
    /\ DOMAIN hashes \subseteq Hashes
    /\ \A h \in DOMAIN hashes : hashes[h] \in Heights
    /\ tip \in Heights \cup {Null}
    /\ cursor \in Cursors \cup {NoCursor}
    /\ prunedTo \in Heights \cup {Null}
    /\ highest \in Heights \cup {Null}
    /\ lowWater \in Heights

(* The hash index, the recorded blocks and the tip are three spellings of   *)
(* one fact through every apply and every revert: applyBlock's three        *)
(* refusals read all three, so one that drifts either admits a block twice  *)
(* or refuses the branch that replaces a reorged one.                       *)
BlockIndexConsistent ==
    /\ IsHighest(tip, DOMAIN blocks)
    /\ \A n \in DOMAIN blocks : blocks[n] \in DOMAIN hashes /\ hashes[blocks[n]] = n
    /\ \A h \in DOMAIN hashes : hashes[h] \in DOMAIN blocks /\ blocks[hashes[h]] = h

Disjoint(v, w) ==
    \/ ~IsLive(v) /\ v.upper <= w.lower
    \/ ~IsLive(w) /\ w.upper <= v.lower

(* At every block at most one version of a key is the answer: reads take    *)
(* the first version that matches, so two would make the answer depend on   *)
(* the order the rows happen to be in. Through supersession, revert and     *)
(* prune, every bound stays a recorded block and no version is empty.       *)
VersionsDisjoint ==
    \A k \in Keys : \A v \in rows[k] :
        /\ v.lower \in DOMAIN blocks
        /\ ~IsLive(v) => v.upper \in DOMAIN blocks /\ v.lower < v.upper
        /\ \A w \in rows[k] : v = w \/ Disjoint(v, w)

(* The store's own books are in order in every reachable state.             *)
StoreSound == TypeOK /\ BlockIndexConsistent /\ VersionsDisjoint

(* What the store promises its readers: a history of states, one per block  *)
(* at or above the highest floor it has pruned at, which blocks extend, a   *)
(* revert truncates and a prune shortens from below.                        *)
View == [at \in lowWater .. MaxBlock |-> [k \in Keys |-> AsOf(k, at)]]

History == INSTANCE StateHistory WITH view <- View, floor <- lowWater

ImplementsHistory == History!Spec
=============================================================================
