-------------------------- MODULE StateStoreProofs --------------------------
(***************************************************************************)
(* The store's books, for every set of keys, values and hashes, every      *)
(* retention and every budget: the block index agrees with itself and the  *)
(* versions of a key never overlap. StoreSound is inductive as it stands.  *)
(*                                                                         *)
(* And the store implements the abstract history. A read finds at most one *)
(* version, because versions do not overlap; so each operation can be      *)
(* compared with the history a key and a height at a time. A revert stays  *)
(* above what was ever pruned, because both are measured from the highest  *)
(* block.                                                                  *)
(***************************************************************************)
EXTENDS StateStore, TLAPS

-----------------------------------------------------------------------------
(* Rows: what an operation leaves of the versions of one key.               *)

(* One row is in order: its bounds are recorded blocks, and of two versions *)
(* one ends before the other begins.                                        *)
RowSound(row, recorded) ==
    \A v \in row :
        /\ v.lower \in recorded
        /\ ~IsLive(v) => v.upper \in recorded /\ v.lower < v.upper
        /\ \A w \in row : v = w \/ Disjoint(v, w)

(* A block above every recorded one supersedes the live version.            *)
LEMMA SupersededSound ==
    ASSUME NEW row \in SUBSET Version, NEW recorded \in SUBSET Heights, RowSound(row, recorded),
           NEW n \in Heights, \A i \in recorded : i < n,
           NEW m \in Values \cup {NoValue, Untouched}
    PROVE  /\ Superseded(row, n, m) \in SUBSET Version
           /\ RowSound(Superseded(row, n, m), recorded \cup {n})
<1> DEFINE Close(v) == IF IsLive(v) THEN [v EXCEPT !.upper = n] ELSE v
           closed == {Close(v) : v \in row}
           new == {[val |-> x, lower |-> n, upper |-> Null] : x \in {m} \ {NoValue}}
<1>0. Heights \subseteq Nat /\ Null \notin Heights
  BY BoundsAssumption DEF Heights, Null
<1>1. CASE m = Untouched
  BY <1>1 DEF Superseded, RowSound
<1>2. CASE m # Untouched
  <2>1. Superseded(row, n, m) = closed \cup new
    BY <1>2 DEF Superseded
  <2>2. \A v \in row : /\ Close(v) \in Version /\ Close(v).lower = v.lower /\ ~IsLive(Close(v))
                       /\ (IsLive(v) => Close(v).upper = n) /\ (~IsLive(v) => Close(v) = v)
    BY <1>0 DEF Version, IsLive
  <2>3. \A w \in new : w \in Version /\ w.lower = n /\ IsLive(w)
    BY <1>2 DEF Version, IsLive
  <2>4. \A w, x \in new : w = x
    OBVIOUS
  <2> HIDE DEF new
  <2>5. ASSUME NEW c \in closed
        PROVE  /\ c.lower \in recorded /\ c.upper \in recorded \cup {n} /\ ~IsLive(c) /\ c.lower < c.upper
               /\ \A d \in closed : c = d \/ Disjoint(c, d)
    <3>1. PICK v \in row : c = Close(v)
      OBVIOUS
    <3>2. /\ c.lower \in recorded /\ c.upper \in recorded \cup {n} /\ ~IsLive(c) /\ c.lower < c.upper
      BY <2>2, <3>1 DEF RowSound
    <3>3. ASSUME NEW d \in closed
          PROVE  c = d \/ Disjoint(c, d)
      <4>1. PICK w \in row : d = Close(w)
        OBVIOUS
      <4>2. v = w \/ Disjoint(v, w)
        BY DEF RowSound
      <4> HIDE DEF Close
      <4> QED
        BY <2>2, <3>1, <4>1, <4>2 DEF Disjoint
    <3> QED
      BY <3>2, <3>3
  <2> HIDE DEF closed
  <2>6. \A c \in closed : c.upper <= n
    <3>1. \A i \in recorded \cup {n} : i <= n
      BY <1>0
    <3> QED
      BY <2>5, <3>1
  <2>7. \A c \in closed, w \in new : Disjoint(c, w) /\ Disjoint(w, c)
    BY <2>3, <2>5, <2>6 DEF Disjoint
  <2>8. closed \subseteq Version
    BY <2>2 DEF closed
  <2> QED
    BY <2>1, <2>3, <2>4, <2>5, <2>7, <2>8 DEF RowSound
<1> QED
  BY <1>1, <1>2

(* A revert re-opens what was closed above the fork, and only that.         *)
LEMMA ReopenedSound ==
    ASSUME NEW row \in SUBSET Version, NEW recorded \in SUBSET Heights, RowSound(row, recorded),
           NEW keepUpTo \in Int
    PROVE  /\ Reopened(row, keepUpTo) \in SUBSET Version
           /\ RowSound(Reopened(row, keepUpTo), {n \in recorded : n <= keepUpTo})
<1> DEFINE Open(v) == IF ~IsLive(v) /\ v.upper > keepUpTo THEN [v EXCEPT !.upper = Null] ELSE v
           kept == {v \in row : v.lower <= keepUpTo}
<1>0. Heights \subseteq Nat /\ Null \notin Heights
  BY BoundsAssumption DEF Heights, Null
<1>1. \A o \in Reopened(row, keepUpTo) : \E v \in kept : o = Open(v)
  BY DEF Reopened
<1>2. \A v \in kept : /\ Open(v) \in Version /\ Open(v).lower = v.lower
                      /\ IsLive(Open(v)) \/ (Open(v) = v /\ v.upper <= keepUpTo)
                      /\ ~IsLive(v) /\ v.upper <= keepUpTo => Open(v) = v
  BY <1>0 DEF Version, IsLive
<1> HIDE DEF Open
<1>3. ASSUME NEW o \in Reopened(row, keepUpTo)
      PROVE  /\ o \in Version /\ o.lower \in recorded /\ o.lower <= keepUpTo
             /\ ~IsLive(o) => o.upper \in recorded /\ o.upper <= keepUpTo /\ o.lower < o.upper
             /\ \A p \in Reopened(row, keepUpTo) : o = p \/ Disjoint(o, p)
  <2>1. PICK v \in kept : o = Open(v)
    BY <1>1
  <2>2. /\ o \in Version /\ o.lower \in recorded /\ o.lower <= keepUpTo
        /\ ~IsLive(o) => o.upper \in recorded /\ o.upper <= keepUpTo /\ o.lower < o.upper
    BY <1>2, <2>1 DEF RowSound
  <2>3. ASSUME NEW p \in Reopened(row, keepUpTo)
        PROVE  o = p \/ Disjoint(o, p)
    <3>1. PICK w \in kept : p = Open(w)
      BY <1>1
    <3>2. v = w \/ Disjoint(v, w)
      BY DEF RowSound
    <3>3. /\ v.lower \in Nat /\ v.lower <= keepUpTo /\ (~IsLive(v) => v.upper \in Nat)
          /\ w.lower \in Nat /\ w.lower <= keepUpTo /\ (~IsLive(w) => w.upper \in Nat)
      BY <1>0 DEF Version, IsLive
    <3> QED
      BY <1>2, <2>1, <3>1, <3>2, <3>3 DEF Disjoint
  <2> QED
    BY <2>2, <2>3
<1> QED
  BY <1>3 DEF RowSound
-----------------------------------------------------------------------------
(* Steps.                                                                   *)

(* VersionsDisjoint, a row at a time.                                       *)
LEMMA DisjointByRow ==
    VersionsDisjoint <=> \A k \in Keys : RowSound(rows[k], DOMAIN blocks)
BY DEF VersionsDisjoint, RowSound

(* A block that is accepted is above everything recorded.                   *)
LEMMA AcceptedAbove ==
    ASSUME StoreSound, NEW n \in Heights, NEW h, NEW m, NEW c, ApplyBlock(n, h, m, c)
    PROVE  \A i \in DOMAIN blocks : i < n
<1>1. CASE DOMAIN blocks = {}
  BY <1>1
<1>2. CASE DOMAIN blocks # {}
  <2>1. tip \in DOMAIN blocks /\ \A i \in DOMAIN blocks : i <= tip
    BY <1>2 DEF StoreSound, BlockIndexConsistent, IsHighest
  <2>2. DOMAIN blocks \subseteq Heights /\ Heights \subseteq Int /\ Null \notin Heights
    BY BoundsAssumption DEF StoreSound, TypeOK, Heights, Null
  <2>3. tip \in Int /\ n \in Int /\ tip # Null /\ \A i \in DOMAIN blocks : i \in Int
    BY <2>1, <2>2
  <2>4. tip < n
    BY <2>3 DEF ApplyBlock
  <2> QED
    BY <2>1, <2>3, <2>4
<1> QED
  BY <1>1, <1>2

(* It extends both sides of the index.                                      *)
LEMMA ApplySound ==
    ASSUME StoreSound, NEW n \in Heights, NEW h \in Hashes, NEW m \in Mutations,
           NEW c \in Cursors \cup {NoCursor}, ApplyBlock(n, h, m, c)
    PROVE  StoreSound'
<1>0. Heights \subseteq Nat /\ Null \notin Heights /\ Null \in Int
  BY BoundsAssumption DEF Heights, Null
<1>1. \A i \in DOMAIN blocks : i < n
  BY AcceptedAbove
<1>2. /\ DOMAIN blocks' = DOMAIN blocks \cup {n} /\ blocks'[n] = h
      /\ \A i \in DOMAIN blocks : blocks'[i] = blocks[i]
  BY <1>0, <1>1 DEF ApplyBlock
<1>3. /\ DOMAIN hashes' = DOMAIN hashes \cup {h} /\ hashes'[h] = n
      /\ \A g \in DOMAIN hashes : hashes'[g] = hashes[g]
  BY DEF ApplyBlock
<1>4. ASSUME NEW k \in Keys
      PROVE  rows'[k] \in SUBSET Version /\ RowSound(rows'[k], DOMAIN blocks')
  <2>1. rows[k] \in SUBSET Version /\ DOMAIN blocks \in SUBSET Heights /\ RowSound(rows[k], DOMAIN blocks)
    BY DisjointByRow DEF StoreSound, TypeOK
  <2>2. rows'[k] = Superseded(rows[k], n, m[k]) /\ m[k] \in Values \cup {NoValue, Untouched}
    BY DEF ApplyBlock, Mutations
  <2>3. /\ Superseded(rows[k], n, m[k]) \in SUBSET Version
        /\ RowSound(Superseded(rows[k], n, m[k]), DOMAIN blocks \cup {n})
    BY <1>1, <2>1, <2>2, SupersededSound
  <2> QED
    BY <1>2, <2>2, <2>3
<1>5. VersionsDisjoint'
  BY <1>4 DEF VersionsDisjoint, RowSound
<1>6. BlockIndexConsistent'
  <2>1. tip' = n /\ h \notin DOMAIN hashes /\ n \notin DOMAIN blocks
    BY DEF ApplyBlock
  <2>2. \A i \in DOMAIN blocks' : i <= n
    <3>1. DOMAIN blocks \subseteq Heights
      BY DEF StoreSound, TypeOK
    <3>2. Heights \subseteq Int
      BY BoundsAssumption DEF Heights
    <3>3. n \in Int /\ \A i \in DOMAIN blocks : i \in Int
      BY <3>1, <3>2
    <3> QED
      BY <1>1, <1>2, <3>3
  <2>3. IsHighest(tip', DOMAIN blocks')
    BY <1>2, <2>1, <2>2 DEF IsHighest
  <2> QED
    BY <1>2, <1>3, <2>1, <2>3 DEF StoreSound, BlockIndexConsistent, IsHighest
<1>7. TypeOK'
  <2>1. rows' \in [Keys -> SUBSET Version]
    BY <1>4 DEF ApplyBlock
  <2>2. highest' \in Heights \cup {Null}
    BY <1>0 DEF ApplyBlock, Bigger, StoreSound, TypeOK
  <2> QED
    BY <1>2, <1>3, <2>1, <2>2 DEF ApplyBlock, StoreSound, TypeOK
<1> QED
  BY <1>5, <1>6, <1>7 DEF StoreSound

(* A revert takes the same blocks out of both sides of the index, and every *)
(* version with them.                                                       *)
LEMMA RevertSound ==
    ASSUME StoreSound, NEW keepUpTo \in Int, RevertTo(keepUpTo),
           highest' \in Heights \cup {Null}, lowWater' \in Heights
    PROVE  StoreSound'
<1> DEFINE kept == {n \in DOMAIN blocks : n <= keepUpTo}
<1>0. Heights \subseteq Nat /\ Null \notin Heights
  BY BoundsAssumption DEF Heights, Null
<1>1. DOMAIN blocks' = kept /\ \A n \in kept : blocks'[n] = blocks[n]
  BY DEF RevertTo
<1>2. /\ DOMAIN hashes' = DOMAIN hashes \ {blocks[n] : n \in DOMAIN blocks \ kept}
      /\ \A h \in DOMAIN hashes' : hashes'[h] = hashes[h]
  BY DEF RevertTo
<1>3. IsHighest(tip', kept) /\ tip' \in kept \cup {Null}
  BY DEF RevertTo
<1>4. ASSUME NEW k \in Keys
      PROVE  rows'[k] \in SUBSET Version /\ RowSound(rows'[k], DOMAIN blocks')
  <2>1. rows[k] \in SUBSET Version /\ DOMAIN blocks \in SUBSET Heights /\ RowSound(rows[k], DOMAIN blocks)
    BY DisjointByRow DEF StoreSound, TypeOK
  <2>2. rows'[k] = Reopened(rows[k], keepUpTo)
    BY DEF RevertTo
  <2> QED
    BY <1>1, <2>1, <2>2, ReopenedSound
<1>5. VersionsDisjoint'
  BY <1>4 DEF VersionsDisjoint, RowSound
<1>6. BlockIndexConsistent'
  <2>1. /\ \A n \in DOMAIN blocks : blocks[n] \in DOMAIN hashes /\ hashes[blocks[n]] = n
        /\ \A h \in DOMAIN hashes : hashes[h] \in DOMAIN blocks /\ blocks[hashes[h]] = h
    BY DEF StoreSound, BlockIndexConsistent
  <2>2. \A n \in kept : blocks[n] \in DOMAIN hashes'
    BY <1>2, <2>1
  <2>3. \A h \in DOMAIN hashes' : hashes[h] \in kept
    BY <1>2, <2>1
  <2> QED
    BY <1>1, <1>2, <1>3, <2>1, <2>2, <2>3 DEF BlockIndexConsistent, IsHighest
<1>7. TypeOK'
  <2>1. rows' \in [Keys -> SUBSET Version]
    BY <1>4 DEF RevertTo
  <2> QED
    BY <1>1, <1>2, <1>3, <2>1 DEF RevertTo, StoreSound, TypeOK
<1> QED
  BY <1>5, <1>6, <1>7 DEF StoreSound
(* The floor a prune deletes at is a block at or below the tip.             *)
LEMMA FloorIsBlock ==
    ASSUME NEW t \in Heights, retention \in Retentions, retentionFloor(t) # Null
    PROVE  retentionFloor(t) \in Heights /\ retentionFloor(t) <= t
<1>1. MaxBlock \in Nat /\ WindowBlocks \in Nat /\ FinalityDepth \in Nat \cup {Null} /\ t \in 0 .. MaxBlock
  BY BoundsAssumption DEF Heights
<1>2. retention \in {"unbounded", "window", "revert-only"}
  BY RetentionAssumption
<1>3. \A d \in Nat : Bigger(0, t - d) \in 0 .. MaxBlock /\ Bigger(0, t - d) <= t
  BY <1>1 DEF Bigger
<1> QED
  BY <1>1, <1>2, <1>3 DEF retentionFloor, Heights

(* A prune takes versions out of rows, and leaves the index alone.          *)
LEMMA PruneSound ==
    ASSUME StoreSound, NEW budget \in PruneBudgets, Prune(budget)
    PROVE  StoreSound'
<1> DEFINE floor == retentionFloor(tip)
<1>0. Heights \subseteq Nat
  BY BoundsAssumption DEF Heights
<1>1. tip \in Heights /\ floor \in Heights
  BY FloorIsBlock DEF Prune, StoreSound, TypeOK
<1>2. \A k \in Keys : rows'[k] \subseteq rows[k]
  BY DEF Prune
<1>3. rows' \in [Keys -> SUBSET Version]
  BY DEF Prune, StoreSound, TypeOK
<1>4. blocks' = blocks /\ hashes' = hashes /\ tip' = tip
  BY DEF Prune
<1>5. VersionsDisjoint'
  BY <1>2, <1>4 DEF StoreSound, VersionsDisjoint
<1>6. BlockIndexConsistent'
  BY <1>4 DEF StoreSound, BlockIndexConsistent, IsHighest
<1>7. prunedTo' \in Heights \cup {Null} /\ lowWater' \in Heights
  BY <1>0, <1>1 DEF Prune, Bigger, StoreSound, TypeOK
<1>8. TypeOK'
  BY <1>3, <1>4, <1>7 DEF Prune, StoreSound, TypeOK
<1> QED
  BY <1>5, <1>6, <1>8 DEF StoreSound

(* A new store's books are in order.                                        *)
LEMMA SoundInit ==
    ASSUME Init
    PROVE  StoreSound
<1>1. 0 \in Heights
  BY BoundsAssumption DEF Heights
<1> QED
  BY <1>1 DEF Init, StoreSound, TypeOK, BlockIndexConsistent, VersionsDisjoint, IsHighest

(* One step of the store.                                                   *)
LEMMA SoundStep ==
    ASSUME StoreSound, [Next]_vars
    PROVE  StoreSound'
<1>0. Heights \subseteq Int /\ -1 \in Int /\ 0 \in Heights
  BY BoundsAssumption DEF Heights
<1>1. CASE \E n \in Heights, h \in Hashes, m \in Mutations, c \in Cursors \cup {NoCursor} :
             ApplyBlock(n, h, m, c)
  BY <1>1, ApplySound
<1>2. CASE \E keepUpTo \in Heights : ReorgRevert(keepUpTo)
  BY <1>0, <1>2, RevertSound DEF ReorgRevert, StoreSound, TypeOK
<1>3. CASE ResetState
  BY <1>0, <1>3, RevertSound DEF ResetState
<1>4. CASE \E c \in Cursors \cup {NoCursor} : WriteCursor(c)
  BY <1>4 DEF WriteCursor, StoreSound, TypeOK, BlockIndexConsistent, VersionsDisjoint, IsHighest
<1>5. CASE \E budget \in PruneBudgets : Prune(budget)
  BY <1>5, PruneSound
<1>6. CASE UNCHANGED vars
  BY <1>6 DEF vars, StoreSound, TypeOK, BlockIndexConsistent, VersionsDisjoint, IsHighest
<1> QED
  BY <1>1, <1>2, <1>3, <1>4, <1>5, <1>6 DEF Next

(* Through any sequence of applies, reverts, resets and prunes, the block   *)
(* index agrees with the tip and itself, and no two versions of a key       *)
(* answer for the same block (memory.ts: applyBlock, revertTo, prune).      *)
THEOREM BooksInOrder == Spec => []StoreSound
<1>1. Init => StoreSound
  BY SoundInit
<1>2. StoreSound /\ [Next]_vars => StoreSound'
  BY SoundStep
<1> QED
  BY <1>1, <1>2, PTL DEF Spec
-----------------------------------------------------------------------------
(* Reads.                                                                   *)

RowAsOf(row, at) == ValueOf({v \in row : Covers(v, at)})

(* A read answers with the version that covers the height, wherever that    *)
(* is in the row.                                                           *)
LEMMA ReadsTheVersion ==
    ASSUME NEW row \in SUBSET Version, NEW recorded, RowSound(row, recorded),
           NEW at \in Int, NEW v \in row, Covers(v, at)
    PROVE  RowAsOf(row, at) = v.val
<1> DEFINE matching == {w \in row : Covers(w, at)}
<1>1. ASSUME NEW w \in matching
      PROVE  w = v
  <2>0. Heights \subseteq Int
    BY BoundsAssumption DEF Heights
  <2>1. /\ v.lower \in Int /\ w.lower \in Int
        /\ (IsLive(v) \/ v.upper \in Int) /\ (IsLive(w) \/ w.upper \in Int)
    BY <2>0 DEF Version, IsLive
  <2>2. w = v \/ Disjoint(w, v)
    BY DEF RowSound
  <2> QED
    BY <2>1, <2>2 DEF Disjoint, Covers
<1>2. matching = {v}
  BY <1>1
<1>3. ValueOf({v}) = v.val
  BY DEF ValueOf
<1> QED
  BY <1>2, <1>3 DEF RowAsOf

(* Where no version covers the height there is nothing.                     *)
LEMMA ReadsNothing ==
    ASSUME NEW row, NEW at, \A v \in row : ~Covers(v, at)
    PROVE  RowAsOf(row, at) = NoValue
BY DEF RowAsOf, ValueOf

(* A block changes what is read at its height and above, and nothing below. *)
LEMMA SupersededReads ==
    ASSUME NEW row \in SUBSET Version, NEW recorded \in SUBSET Heights, RowSound(row, recorded),
           NEW n \in Heights, \A i \in recorded : i < n,
           NEW m \in Values \cup {NoValue, Untouched}, NEW at \in Heights
    PROVE  RowAsOf(Superseded(row, n, m), at) =
               IF at < n THEN RowAsOf(row, at)
               ELSE IF m = Untouched THEN RowAsOf(row, MaxBlock) ELSE m
<1> DEFINE next == Superseded(row, n, m)
<1>0. Heights \subseteq Int /\ MaxBlock \in Heights /\ Null \notin Heights /\ at <= MaxBlock /\ Null \in Int
  BY BoundsAssumption DEF Heights, Null
<1>1. next \in SUBSET Version /\ RowSound(next, recorded \cup {n})
  BY SupersededSound
<1>2. \A v \in row : /\ v.lower \in Int /\ v.lower < n
                     /\ IsLive(v) \/ (v.upper \in Int /\ v.upper < n)
  BY <1>0 DEF RowSound
<1>3. CASE m = Untouched
  <2>1. next = row
    BY <1>3 DEF Superseded
  <2>2. ASSUME ~(at < n)
        PROVE  \A v \in row : Covers(v, at) <=> Covers(v, MaxBlock)
    BY <1>0, <1>2, <2>2 DEF Covers
  <2>3. ASSUME ~(at < n)
        PROVE  RowAsOf(row, at) = RowAsOf(row, MaxBlock)
    BY <2>2, <2>3 DEF RowAsOf
  <2> QED
    BY <1>3, <2>1, <2>3
<1>4. CASE m # Untouched
  <2> DEFINE Close(v) == IF IsLive(v) THEN [v EXCEPT !.upper = n] ELSE v
             new == [val |-> m, lower |-> n, upper |-> Null]
  <2>1. next = {Close(v) : v \in row} \cup {[val |-> x, lower |-> n, upper |-> Null] : x \in {m} \ {NoValue}}
    BY <1>4 DEF Superseded
  <2>2. \A v \in row : /\ Close(v).val = v.val /\ Close(v).lower = v.lower /\ ~IsLive(Close(v))
                       /\ (IsLive(v) => Close(v).upper = n) /\ (~IsLive(v) => Close(v) = v)
    BY <1>0 DEF Version, IsLive
  <2>3. /\ m # NoValue => new \in next /\ new.val = m /\ new.lower = n /\ IsLive(new)
        /\ \A w \in next : w = new \/ \E v \in row : w = Close(v)
        /\ m = NoValue => \A w \in next : \E v \in row : w = Close(v)
        /\ \A v \in row : Close(v) \in next
    BY <2>1 DEF IsLive
  <2> HIDE DEF next, new, Close
  <2>4. \A v \in row : /\ at < n => (Covers(Close(v), at) <=> Covers(v, at))
                       /\ ~(at < n) => ~Covers(Close(v), at)
    BY <1>0, <1>2, <2>2 DEF Covers
  <2>5. CASE at < n
    <3>1. CASE \E v \in row : Covers(v, at)
      <4>1. PICK v \in row : Covers(v, at)
        BY <3>1
      <4>2. RowAsOf(row, at) = v.val
        BY <1>0, <4>1, ReadsTheVersion
      <4>3. Close(v) \in next /\ Covers(Close(v), at) /\ Close(v).val = v.val
        BY <2>2, <2>3, <2>4, <2>5, <4>1
      <4>4. RowAsOf(next, at) = v.val
        BY <1>0, <1>1, <4>3, ReadsTheVersion
      <4> QED
        BY <2>5, <4>2, <4>4 DEF next
    <3>2. CASE ~\E v \in row : Covers(v, at)
      <4>1. new.lower = n
        BY DEF new
      <4>2. \A w \in next : ~Covers(w, at)
        BY <1>0, <2>3, <2>4, <2>5, <3>2, <4>1 DEF Covers
      <4> QED
        BY <2>5, <3>2, <4>2, ReadsNothing DEF next
    <3> QED
      BY <3>1, <3>2
  <2>6. CASE ~(at < n)
    <3>1. CASE m = NoValue
      <4>1. \A w \in next : ~Covers(w, at)
        BY <2>3, <2>4, <2>6, <3>1
      <4> QED
        BY <1>4, <2>6, <3>1, <4>1, ReadsNothing DEF next
    <3>2. CASE m # NoValue
      <4>1. new \in next /\ Covers(new, at) /\ new.val = m
        BY <1>0, <2>3, <2>6, <3>2 DEF Covers
      <4>2. RowAsOf(next, at) = m
        BY <1>0, <1>1, <4>1, ReadsTheVersion
      <4> QED
        BY <1>4, <2>6, <4>2 DEF next
    <3> QED
      BY <3>1, <3>2
  <2> QED
    BY <2>5, <2>6
<1> QED
  BY <1>3, <1>4
(* After a revert every height above the fork reads what the fork reads.    *)
LEMMA ReopenedReads ==
    ASSUME NEW row \in SUBSET Version, NEW recorded \in SUBSET Heights, RowSound(row, recorded),
           NEW keepUpTo \in Heights, NEW at \in Heights
    PROVE  RowAsOf(Reopened(row, keepUpTo), at) =
               IF at <= keepUpTo THEN RowAsOf(row, at) ELSE RowAsOf(row, keepUpTo)
<1> DEFINE next == Reopened(row, keepUpTo)
           as == IF at <= keepUpTo THEN at ELSE keepUpTo
           Open(v) == IF ~IsLive(v) /\ v.upper > keepUpTo THEN [v EXCEPT !.upper = Null] ELSE v
<1>0. Heights \subseteq Int /\ Null \notin Heights
  BY BoundsAssumption DEF Heights, Null
<1>1. next \in SUBSET Version /\ RowSound(next, {n \in recorded : n <= keepUpTo})
  BY <1>0, ReopenedSound
<1>2. \A v \in row : /\ v.lower \in Int /\ (IsLive(v) \/ v.upper \in Int)
                     /\ Open(v).val = v.val /\ Open(v).lower = v.lower
                     /\ (IsLive(v) => Open(v) = v)
                     /\ (~IsLive(v) /\ v.upper > keepUpTo => IsLive(Open(v)))
                     /\ (~IsLive(v) /\ ~(v.upper > keepUpTo) => Open(v) = v)
  BY <1>0 DEF Version, IsLive
<1>3. /\ \A w \in next : \E v \in row : v.lower <= keepUpTo /\ w = Open(v)
      /\ \A v \in row : v.lower <= keepUpTo => Open(v) \in next
  BY DEF Reopened
<1> HIDE DEF next, Open
<1>4. as \in Int /\ as <= keepUpTo /\ as <= at
  BY <1>0
<1>5. \A v \in row : v.lower <= keepUpTo => (Covers(Open(v), at) <=> Covers(v, as))
  <2>1. at \in Int /\ keepUpTo \in Int
    BY <1>0
  <2> QED
    BY <1>2, <2>1 DEF Covers
<1>6. CASE \E v \in row : Covers(v, as)
  <2>1. PICK v \in row : Covers(v, as)
    BY <1>6
  <2>2. v.lower <= keepUpTo
    BY <1>0, <1>2, <1>4, <2>1 DEF Covers
  <2>3. Open(v) \in next /\ Covers(Open(v), at) /\ Open(v).val = v.val
    BY <1>2, <1>3, <1>5, <2>1, <2>2
  <2>4. RowAsOf(row, as) = v.val
    BY <1>4, <2>1, ReadsTheVersion
  <2>5. RowAsOf(next, at) = v.val
    BY <1>0, <1>1, <2>3, ReadsTheVersion
  <2> QED
    BY <2>4, <2>5 DEF next
<1>7. CASE ~\E v \in row : Covers(v, as)
  <2>1. \A w \in next : ~Covers(w, at)
    BY <1>3, <1>5, <1>7
  <2>2. RowAsOf(next, at) = NoValue /\ RowAsOf(row, as) = NoValue
    BY <1>7, <2>1, ReadsNothing
  <2> QED
    BY <2>2 DEF next
<1> QED
  BY <1>6, <1>7

-----------------------------------------------------------------------------
(* The refinement.                                                          *)

(* The tip is not above the highest block applied, and no prune deleted     *)
(* above what a revert may go back to.                                      *)
WithinReach ==
    /\ tip <= highest
    /\ lowWater = 0 \/ (highest # Null /\ lowWater <= highest - RevertReach)

LEMMA ReachStep ==
    ASSUME StoreSound, WithinReach, [Next]_vars
    PROVE  WithinReach'
<1>0. Heights \subseteq Nat /\ Null \notin Heights /\ Null \in Int /\ \A n \in Heights : Null < n
  BY BoundsAssumption DEF Heights, Null
<1>1. /\ tip \in Heights \cup {Null} /\ highest \in Heights \cup {Null}
      /\ lowWater \in Heights /\ RevertReach \in Nat
  BY BoundsAssumption DEF StoreSound, TypeOK
<1>2. ASSUME NEW n \in Heights, NEW h, NEW m, NEW c, ApplyBlock(n, h, m, c)
      PROVE  WithinReach'
  <2>1. tip' = n /\ highest' = Bigger(highest, n) /\ lowWater' = lowWater
    BY <1>2 DEF ApplyBlock
  <2>2. n \in Int /\ highest \in Int /\ lowWater \in Int
    BY <1>0, <1>1
  <2> QED
    BY <1>0, <1>1, <2>1, <2>2 DEF WithinReach, Bigger
<1>3. ASSUME NEW keepUpTo \in Heights, ReorgRevert(keepUpTo)
      PROVE  WithinReach'
  <2>1. highest' = highest /\ lowWater' = lowWater
    BY <1>3 DEF ReorgRevert
  <2>2. tip' \in DOMAIN blocks \cup {Null}
    BY <1>3 DEF ReorgRevert, RevertTo
  <2>3. \A n \in DOMAIN blocks : n \in Heights /\ n <= tip /\ tip \in Heights
    BY DEF StoreSound, BlockIndexConsistent, IsHighest, TypeOK
  <2>4. tip' <= highest
    <3>1. CASE tip' = Null
      BY <1>0, <1>1, <3>1
    <3>2. CASE tip' \in DOMAIN blocks
      <4>1. tip' \in Heights /\ tip \in Heights /\ tip' <= tip /\ tip <= highest
        BY <2>3, <3>2 DEF WithinReach
      <4>2. tip' \in Int /\ tip \in Int /\ highest \in Int
        BY <1>0, <1>1, <4>1
      <4> QED
        BY <4>1, <4>2
    <3> QED
      BY <2>2, <3>1, <3>2
  <2> QED
    BY <2>1, <2>4 DEF WithinReach
<1>4. CASE ResetState
  <2>1. highest' = Null /\ lowWater' = 0
    BY <1>4 DEF ResetState
  <2>2. tip' = Null
    <3>1. DOMAIN blocks \subseteq Heights
      BY DEF StoreSound, TypeOK
    <3>2. \A n \in Heights : ~(n <= -1)
      BY BoundsAssumption DEF Heights
    <3>3. {n \in DOMAIN blocks : n <= -1} = {}
      BY <3>1, <3>2
    <3> QED
      BY <1>4, <3>3 DEF ResetState, RevertTo
  <2> QED
    BY <1>0, <2>1, <2>2 DEF WithinReach
<1>5. ASSUME NEW budget \in PruneBudgets, Prune(budget)
      PROVE  WithinReach'
  <2> DEFINE floor == retentionFloor(tip)
  <2>1. /\ tip' = tip /\ highest' = highest /\ lowWater' = Bigger(lowWater, floor)
        /\ tip # Null /\ floor # Null
    BY <1>5 DEF Prune
  <2>2. tip \in Int /\ highest \in Int /\ lowWater \in Int /\ highest # Null /\ tip <= highest
    BY <1>0, <1>1, <2>1 DEF WithinReach
  <2>3. floor \in Int /\ (floor = 0 \/ floor <= tip - RevertReach)
    <3>1. retention \in Retentions /\ retention \in {"unbounded", "window", "revert-only"}
      BY RetentionAssumption DEF StoreSound, TypeOK
    <3>2. CASE retention = "window"
      BY <1>1, <2>1, <2>2, <3>1, <3>2, ReachAssumption, BoundsAssumption DEF retentionFloor, Bigger
    <3>3. CASE retention = "revert-only"
      BY <1>1, <2>1, <2>2, <3>1, <3>3, ReachAssumption, BoundsAssumption DEF retentionFloor, Bigger
    <3> QED
      BY <2>1, <3>1, <3>2, <3>3 DEF retentionFloor
  <2> HIDE DEF floor
  <2> QED
    BY <1>1, <2>1, <2>2, <2>3 DEF WithinReach, Bigger
<1>6. CASE UNCHANGED <<tip, highest, lowWater>>
  BY <1>6 DEF WithinReach
<1> QED
  BY <1>2, <1>3, <1>4, <1>5, <1>6 DEF Next, WriteCursor, vars
(* What the view is made of, before and after a step.                       *)
LEMMA ViewByRow ==
    /\ View = [at \in lowWater .. MaxBlock |-> [k \in Keys |-> RowAsOf(rows[k], at)]]
    /\ View' = [at \in lowWater' .. MaxBlock |-> [k \in Keys |-> RowAsOf(rows'[k], at)]]
BY DEF View, AsOf, RowAsOf, ValueOf, Covers, IsLive

(* Every step of the store is a step of the history, or leaves it alone.    *)
LEMMA HistoryStep ==
    ASSUME StoreSound, WithinReach, [Next]_vars
    PROVE  [History!Next]_<<View, lowWater>>
<1> DEFINE Old(at) == [k \in Keys |-> RowAsOf(rows[k], at)]
<1>0. /\ Heights \subseteq Int /\ lowWater \in Heights /\ Heights = 0 .. MaxBlock /\ MaxBlock \in Heights
      /\ \A at \in lowWater .. MaxBlock : at \in Heights
      /\ MaxBlock \in lowWater .. MaxBlock
  BY BoundsAssumption DEF Heights, StoreSound, TypeOK
<1>1. \A k \in Keys : /\ rows[k] \in SUBSET Version /\ DOMAIN blocks \in SUBSET Heights
                      /\ RowSound(rows[k], DOMAIN blocks)
  BY DisjointByRow DEF StoreSound, TypeOK
<1>2. ASSUME NEW n \in Heights, NEW h \in Hashes, NEW m \in Mutations,
             NEW c \in Cursors \cup {NoCursor}, ApplyBlock(n, h, m, c)
      PROVE  History!Next
  <2>1. rows' = [k \in Keys |-> Superseded(rows[k], n, m[k])] /\ lowWater' = lowWater
    BY <1>2 DEF ApplyBlock
  <2>2. \A i \in DOMAIN blocks : i < n
    BY <1>2, AcceptedAbove
  <2>3. \A k \in Keys : m[k] \in Values \cup {NoValue, Untouched}
    BY DEF Mutations
  <2>4. \A k \in Keys, at \in Heights :
          RowAsOf(rows'[k], at) = IF at < n THEN RowAsOf(rows[k], at)
                                  ELSE IF m[k] = Untouched THEN RowAsOf(rows[k], MaxBlock) ELSE m[k]
    BY <1>1, <2>1, <2>2, <2>3, SupersededReads
  <2>5. View' = [at \in lowWater .. MaxBlock |->
                    IF at < n THEN View[at]
                    ELSE [k \in Keys |-> IF m[k] = Untouched THEN View[MaxBlock][k] ELSE m[k]]]
    BY <1>0, <2>1, <2>4, ViewByRow
  <2>6. History!Extend(n, m)
    BY <2>1, <2>5 DEF History!Extend
  <2> QED
    BY <1>0, <2>6 DEF History!Next, Mutations
<1>3. ASSUME NEW keepUpTo \in Heights, ReorgRevert(keepUpTo)
      PROVE  History!Next
  <2>1. rows' = [k \in Keys |-> Reopened(rows[k], keepUpTo)] /\ lowWater' = lowWater
    BY <1>3 DEF ReorgRevert, RevertTo
  <2>2. keepUpTo \in lowWater .. MaxBlock
    <3>1. keepUpTo >= highest - RevertReach
      BY <1>3 DEF ReorgRevert
    <3>2. highest \in Int /\ RevertReach \in Int
      BY <1>0, BoundsAssumption DEF StoreSound, TypeOK, Null
    <3> QED
      BY <1>0, <3>1, <3>2 DEF WithinReach
  <2>3. \A k \in Keys, at \in Heights :
          RowAsOf(rows'[k], at) = IF at <= keepUpTo THEN RowAsOf(rows[k], at) ELSE RowAsOf(rows[k], keepUpTo)
    BY <1>1, <2>1, ReopenedReads
  <2>4. View' = [at \in lowWater .. MaxBlock |-> IF at <= keepUpTo THEN View[at] ELSE View[keepUpTo]]
    BY <1>0, <2>1, <2>2, <2>3, ViewByRow
  <2>5. History!Truncate(keepUpTo)
    BY <2>1, <2>4 DEF History!Truncate
  <2> QED
    BY <2>2, <2>5 DEF History!Next
<1>4. CASE ResetState
  <2>1. rows' = [k \in Keys |-> Reopened(rows[k], -1)] /\ lowWater' = 0
    BY <1>4 DEF ResetState, RevertTo
  <2>2. \A v \in Version : ~(v.lower <= -1)
    BY BoundsAssumption DEF Version, Heights
  <2>3. \A k \in Keys : rows'[k] = {}
    BY <1>1, <2>1, <2>2 DEF Reopened
  <2>4. \A k \in Keys, at \in Heights : RowAsOf(rows'[k], at) = NoValue
    BY <2>3, ReadsNothing
  <2>5. View' = [at \in 0 .. MaxBlock |-> [k \in Keys |-> NoValue]]
    BY <1>0, <2>1, <2>4, ViewByRow
  <2>6. History!Wipe
    BY <2>1, <2>5 DEF History!Wipe, History!Empty
  <2> QED
    BY <2>6 DEF History!Next
<1>5. ASSUME NEW budget \in PruneBudgets, Prune(budget)
      PROVE  History!Next
  <2> DEFINE floor == retentionFloor(tip)
             f == lowWater'
  <2>1. floor \in Heights /\ f = Bigger(lowWater, floor)
    BY <1>5, FloorIsBlock DEF Prune, StoreSound, TypeOK
  <2>2. f \in lowWater .. MaxBlock /\ floor <= f /\ f .. MaxBlock \subseteq lowWater .. MaxBlock
    BY <1>0, <2>1 DEF Bigger
  <2>3. ASSUME NEW k \in Keys
        PROVE  /\ rows'[k] \subseteq rows[k]
               /\ \A v \in rows[k] \ rows'[k] : ~IsLive(v) /\ v.upper <= floor
    <3>1. PICK doomed \in SUBSET Unreachable(floor) :
            rows' = [i \in Keys |-> {v \in rows[i] : <<i, v>> \notin doomed}]
      BY <1>5 DEF Prune
    <3> QED
      BY <3>1 DEF Unreachable
  <2>4. ASSUME NEW k \in Keys, NEW at \in f .. MaxBlock
        PROVE  RowAsOf(rows'[k], at) = RowAsOf(rows[k], at)
    <3>1. \A v \in rows[k] \ rows'[k] : ~Covers(v, at)
      <4>1. \A v \in rows[k] : IsLive(v) \/ v.upper \in Int
        BY <1>0, <1>1 DEF Version, IsLive
      <4>2. at \in Int /\ floor \in Int /\ f \in Int /\ floor <= f /\ f <= at
        BY <1>0, <2>1, <2>2
      <4> QED
        BY <2>3, <4>1, <4>2 DEF Covers
    <3>2. {v \in rows'[k] : Covers(v, at)} = {v \in rows[k] : Covers(v, at)}
      BY <2>3, <3>1
    <3> QED
      BY <3>2 DEF RowAsOf
  <2>5. View' = [at \in f .. MaxBlock |-> View[at]]
    BY <2>2, <2>4, ViewByRow
  <2>6. History!Forget(f)
    BY <2>5 DEF History!Forget
  <2> QED
    BY <2>2, <2>6 DEF History!Next
<1>6. CASE UNCHANGED <<rows, lowWater>>
  BY <1>6, ViewByRow
<1> QED
  BY <1>2, <1>3, <1>4, <1>5, <1>6 DEF Next, WriteCursor, vars

(* A store of any retention implements the history of whole states: a       *)
(* caller that reverts within the declared depth never meets a version that *)
(* was pruned (memory.ts: getAsOf, revertTo, prune).                        *)
THEOREM StoreImplementsHistory == Spec => ImplementsHistory
<1>1. Init => WithinReach /\ History!Init
  <2> SUFFICES ASSUME Init PROVE WithinReach /\ History!Init
    OBVIOUS
  <2>1. WithinReach
    BY DEF Init, WithinReach, Null
  <2>2. \A k \in Keys, at \in 0 .. MaxBlock : RowAsOf(rows[k], at) = NoValue
    BY ReadsNothing DEF Init
  <2>3. History!Init
    BY <2>2, ViewByRow DEF Init, History!Init, History!Empty
  <2> QED
    BY <2>1, <2>3
<1>2. StoreSound /\ WithinReach /\ [Next]_vars => WithinReach'
  BY ReachStep
<1>3. StoreSound /\ WithinReach /\ [Next]_vars => [History!Next]_<<View, lowWater>>
  BY HistoryStep
<1> QED
  BY <1>1, <1>2, <1>3, BooksInOrder, PTL DEF Spec, ImplementsHistory, History!Spec
=============================================================================
