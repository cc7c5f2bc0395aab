----------------------------- MODULE ChainProofs -----------------------------
(***************************************************************************)
(* What the proofs about the follower and about the cycle share: where a   *)
(* fetch starts, and what the stream of a fetched range leaves of a state  *)
(* that its cursor describes.                                              *)
(***************************************************************************)
EXTENDS Chain, WellFoundedInduction, TLAPS

(* The order of heights, as a relation.                                     *)
Under == {pair \in Nat \X Nat : pair[1] < pair[2]}

(* Heights have a lowest: what groupByBlock's ascending order rests on.     *)
LEMMA LowestExists ==
    ASSUME NEW N, N \subseteq Nat, N # {}
    PROVE  \E n \in N : \A m \in N : n <= m
<1>1. IsWellFoundedOn(Under, Nat)
  BY NatLessThanWellFounded, Zenon DEF OpToRel, Under
<1>2. PICK n \in N : \A m \in N : ~(<<m, n>> \in Under)
  BY <1>1, WFMin, Zenon
<1>3. \A m \in N : ~(m < n)
  BY <1>2 DEF Under
<1> QED
  BY <1>3

(* Where a fetch starts, as bounds: the cases of getFromBlock.              *)
LEMMA FromBlockBounds ==
    ASSUME NEW s \in LastSync
    PROVE  /\ getFromBlock(s) \in Nat
           /\ getFromBlock(s) >= StartBlock
           /\ \/ getFromBlock(s) = StartBlock
              \/ /\ s.latestBlock # 0
                 /\ getFromBlock(s) <= s.lastToBlock + 1
                 /\ getFromBlock(s) <= s.latestBlock - Finality
                 /\ \/ getFromBlock(s) = s.lastToBlock + 1
                    \/ getFromBlock(s) = s.latestBlock - Finality
           /\ s.latestBlock # 0 =>
                \/ getFromBlock(s) >= s.lastToBlock + 1
                \/ getFromBlock(s) >= s.latestBlock - Finality
<1>1. /\ s.latestBlock \in Nat
      /\ s.lastToBlock \in Nat
  BY HeightAssumption DEF LastSync, Height
<1>2. StartBlock \in Nat /\ Finality \in Nat
  BY HeightAssumption, FinalityAssumption DEF Height
<1> QED
  BY <1>1, <1>2 DEF getFromBlock, Larger, Smaller

(* The state never mixes branches: below a block it holds, it is the chain  *)
(* of that block.                                                           *)
Unmixed(applied) ==
    \A a \in applied : \A c \in Branches :
        c[a.num] = a.hash => {b \in applied : b.num <= a.num} = LogsOf(c, StartBlock, a.num)

(* The state as its cursor describes it, under the chain that is served: it *)
(* is the chain below the resume block, and in the window above it. What    *)
(* the window has and the state lacks, a retraction will reach.             *)
Described(sync, applied, served) ==
    LET from == getFromBlock(sync) IN
    /\ applied \subseteq Block
    /\ \A b \in applied : b.num <= sync.lastToBlock
    /\ {b \in applied : b.num < from} = LogsOf(served, StartBlock, from - 1)
    /\ \A b \in applied : b.num >= from => b \in sync.window
    /\ \A w \in sync.window : w.num <= sync.lastToBlock
    /\ \A w \in sync.window \ applied :
        \E x \in sync.window : x.num >= from /\ x.num <= w.num /\ served[x.num] # x.hash

(* A stream turns a state that the cursor describes into the chain served:  *)
(* the revert takes back what is retracted and nothing else, and what is    *)
(* applied lands above what is kept, although newness is membership in a    *)
(* sparse window (generateStreamToAppend, forkPoint).                       *)
LEMMA StreamMakesChain ==
    ASSUME NEW sync \in LastSync, NEW applied, NEW served \in Branches,
           NEW latest \in Height, NEW to \in Height,
           to >= getFromBlock(sync), to >= sync.lastToBlock,
           Described(sync, applied, served), Unmixed(applied),
           NEW from, from = getFromBlock(sync),
           NEW delta, delta = generateStreamToAppend(sync, LogsOf(served, from, to), from, to, latest),
           NEW kept, kept = KeptBelow(applied, delta.retract)
    PROVE  /\ kept = applied \ delta.retract
           /\ delta.apply \subseteq LogsOf(served, from, to)
           /\ sync.window \ delta.retract \subseteq kept
           /\ \A b \in kept : b.num >= from => b \in sync.window \ delta.retract
           /\ \A a \in kept, b \in delta.apply : a.num < b.num
           /\ kept \cup delta.apply = LogsOf(served, StartBlock, to)
           /\ \A r \in delta.retract :
                /\ r \in sync.window /\ r.num >= from
                /\ \E x \in sync.window : x.num >= from /\ x.num <= r.num /\ x \notin LogsOf(served, from, to)
                                          /\ x.num <= to
<1> DEFINE payload == LogsOf(served, from, to)
           retract == Retracted(sync, payload, from, to)
           contra == Contradicted(sync, payload, from, to)
           retained == sync.window \ retract
<1>1. delta.retract = retract /\ delta.apply = payload \ retained
  BY DEF generateStreamToAppend
<1>2. /\ from \in Nat /\ to \in Nat /\ StartBlock \in Nat /\ StartBlock <= from
      /\ sync.lastToBlock \in Nat
  BY FromBlockBounds, HeightAssumption DEF Height, LastSync
<1>3. /\ applied \subseteq Block /\ sync.window \subseteq Block
      /\ \A b \in applied : b.num \in Nat
      /\ \A b \in sync.window : b.num \in Nat
      /\ \A b \in LogBearing : b.num \in Nat
  BY HeightAssumption, ChainAssumption DEF Block, Height, LastSync, Described
<1>4. /\ \A b \in applied : b.num >= from => b \in sync.window
      /\ \A b \in applied : b.num <= to
      /\ \A w \in sync.window : w.num <= to
      /\ {b \in applied : b.num < from} = LogsOf(served, StartBlock, from - 1)
  BY <1>2, <1>3 DEF Described
<1>5. \A b \in payload : b.num \in Nat /\ b.num >= from /\ b.num <= to /\ b.hash = served[b.num]
                         /\ b \in LogBearing
  BY <1>2, <1>3 DEF LogsOf
<1>6. \A c \in contra : c \in sync.window /\ c \notin payload /\ c.num >= from /\ c.num <= to
  BY <1>2, <1>3 DEF Contradicted
<1>7. \A b \in sync.window : b \in retract <=> \E c \in contra : c.num <= b.num
  BY DEF Retracted
<1>8. retract \subseteq sync.window
  BY DEF Retracted
<1>9. \A w \in sync.window : w.num >= from /\ w \notin payload => w \in contra
  BY <1>2, <1>3, <1>4 DEF Contradicted
<1> HIDE DEF payload, retract, contra
<1>10. kept = applied \ retract
  <2>1. ASSUME NEW b \in applied, NEW r \in retract, ~(b.num < r.num)
        PROVE  b \in retract
    <3>1. PICK c \in contra : c.num <= r.num
      BY <1>7, <1>8
    <3>2. c.num \in Nat /\ c.num >= from /\ r.num \in Nat /\ b.num \in Nat
      BY <1>3, <1>6, <1>8
    <3>3. c.num <= b.num /\ b.num >= from
      BY <1>2, <2>1, <3>1, <3>2
    <3> QED
      BY <1>4, <1>7, <3>3
  <2>2. \A r \in retract : r \in applied => ~(r.num < r.num)
    BY <1>3
  <2> QED
    BY <1>1, <2>1, <2>2 DEF KeptBelow
<1>11. retained \subseteq kept
  <2> SUFFICES ASSUME NEW w \in retained, w \notin applied
               PROVE  FALSE
    BY <1>10
  <2>1. PICK x \in sync.window : x.num >= from /\ x.num <= w.num /\ served[x.num] # x.hash
    BY DEF Described
  <2>2. x \in contra
    BY <1>5, <1>9, <2>1
  <2> QED
    BY <1>7, <2>1, <2>2
<1>12. \A b \in kept : b.num >= from => b \in retained
  BY <1>4, <1>10
<1>13. \A b \in kept : b.num >= from => b \in payload
  <2> SUFFICES ASSUME NEW b \in kept, b.num >= from, b \notin payload
               PROVE  FALSE
    OBVIOUS
  <2>1. b \in retained /\ b \in contra
    BY <1>9, <1>12
  <2>2. b.num <= b.num
    BY <1>3, <1>10
  <2> QED
    BY <1>7, <2>1, <2>2
<1>14. \A a \in kept, b \in payload \ retained : a.num < b.num
  <2> SUFFICES ASSUME NEW a \in kept, NEW b \in payload \ retained, ~(a.num < b.num)
               PROVE  FALSE
    OBVIOUS
  <2>1. a.num \in Nat /\ b.num \in Nat /\ b.num >= from /\ b.num <= a.num
    BY <1>3, <1>5, <1>10
  <2>2. a \in payload /\ a \in applied /\ a \in retained
    BY <1>2, <1>10, <1>12, <1>13, <2>1
  <2>3. b \in LogsOf(served, StartBlock, a.num)
    BY <1>2, <1>5, <2>1 DEF LogsOf
  <2>4. b \in applied
    BY <1>5, <2>2, <2>3 DEF Unmixed
  <2>5. b \in retract
    BY <1>4, <2>1, <2>4
  <2>6. PICK c \in contra : c.num <= b.num
    BY <1>7, <1>8, <2>5
  <2>7. c.num <= a.num
    BY <1>3, <1>6, <2>1, <2>6
  <2> QED
    BY <1>7, <2>2, <2>7
<1>15. kept \subseteq LogsOf(served, StartBlock, to)
  <2> SUFFICES ASSUME NEW b \in kept
               PROVE  b \in LogsOf(served, StartBlock, to)
    OBVIOUS
  <2>1. b.num \in Nat /\ b \in applied
    BY <1>3, <1>10
  <2>2. CASE b.num >= from
    BY <1>2, <1>5, <1>13, <2>1, <2>2 DEF LogsOf
  <2>3. CASE b.num < from
    <3>1. b \in LogsOf(served, StartBlock, from - 1)
      BY <1>4, <2>1, <2>3
    <3> QED
      BY <1>2, <1>3, <2>1, <3>1 DEF LogsOf
  <2> QED
    BY <1>2, <2>1, <2>2, <2>3
<1>16. ASSUME NEW b \in LogsOf(served, StartBlock, to)
       PROVE  b \in kept \cup (payload \ retained)
  <2>1. b \in LogBearing /\ b.num \in Nat /\ b.num >= StartBlock /\ b.num <= to /\ b.hash = served[b.num]
    BY <1>2, <1>3 DEF LogsOf
  <2>2. CASE b.num < from
    <3>1. b \in LogsOf(served, StartBlock, from - 1)
      BY <1>2, <2>1, <2>2 DEF LogsOf
    <3>2. b \in applied
      BY <1>4, <3>1
    <3>3. b \notin retract
      BY <1>2, <1>3, <1>6, <1>7, <1>8, <2>1, <2>2
    <3> QED
      BY <1>10, <3>2, <3>3
  <2>3. CASE b.num >= from
    <3>1. b \in payload
      BY <1>2, <2>1, <2>3 DEF LogsOf, payload
    <3> QED
      BY <1>11, <3>1
  <2> QED
    BY <1>2, <2>1, <2>2, <2>3
<1>17. payload \subseteq LogsOf(served, StartBlock, to)
  BY <1>2, <1>3, <1>5 DEF LogsOf
<1>18. ASSUME NEW r \in retract
       PROVE  /\ r \in sync.window /\ r.num >= from
              /\ \E x \in sync.window : x.num >= from /\ x.num <= r.num /\ x \notin payload /\ x.num <= to
  <2>1. PICK c \in contra : c.num <= r.num
    BY <1>7, <1>8
  <2>2. r.num \in Nat /\ c.num \in Nat
    BY <1>3, <1>6, <1>8
  <2> QED
    BY <1>2, <1>6, <1>8, <2>1, <2>2
<1> QED
  <2>1. kept \cup delta.apply = LogsOf(served, StartBlock, to)
    BY <1>1, <1>15, <1>16, <1>17
  <2> QED
    BY <1>1, <1>10, <1>11, <1>12, <1>14, <1>18, <2>1 DEF payload
=============================================================================
