------------------------- MODULE ChainFollowerProofs -------------------------
(***************************************************************************)
(* The safety of the follower, for every chain, finality, source and span. *)
(* The two hypotheses are what the engine relies on: the reported tip does *)
(* not fall back, and a fetch is wider than the reorg window.              *)
(***************************************************************************)
EXTENDS ChainFollower, ChainProofs

(* The cursor's heights are in order, and the state holds nothing outside   *)
(* what the cursor covers.                                                  *)
CursorOrdered ==
    /\ sync.latestBlock <= tip
    /\ sync.lastToBlock <= sync.latestBlock
    /\ \A b \in applied : StartBlock <= b.num /\ b.num <= sync.lastToBlock

(* The inductive invariant. WindowComplete and SettledMatchesChain are not  *)
(* inductive alone: Unmixed is what makes a block delivered below a         *)
(* retained one impossible, and CursorOrdered what makes the window reach *)
(* everything above the next fetch's first block.                           *)
IInv ==
    /\ TypeOK
    /\ CursorOrdered
    /\ WindowComplete
    /\ SettledMatchesChain
    /\ Unmixed(applied)

-----------------------------------------------------------------------------

(* With tips that never fall back and spans wider than the window, a fetch  *)
(* always reaches at least as far as the cursor already did.                *)
LEMMA FetchReachesCursor ==
    ASSUME TypeOK, CursorOrdered, MaxRegress = 0, MinSpan > Finality,
           NEW latest \in Height, NEW to \in Height, Fetchable(latest, to)
    PROVE  /\ to >= sync.lastToBlock
           /\ latest >= sync.latestBlock
           /\ latest <= tip
           /\ to <= latest
           /\ to >= getFromBlock(sync)
<1>1. sync \in LastSync /\ sync.latestBlock \in Nat /\ sync.lastToBlock \in Nat /\ tip \in Nat
  BY HeightAssumption DEF TypeOK, LastSync, Height
<1>2. MinSpan \in Nat /\ Finality \in Nat /\ StartBlock \in Nat /\ latest \in Nat /\ to \in Nat
  BY HeightAssumption, FinalityAssumption, ChainAssumption, SpanAssumption DEF Height
<1>3. getFromBlock(sync) \in Nat
  BY <1>1, FromBlockBounds
<1>4. /\ latest >= sync.latestBlock
      /\ latest <= tip
      /\ to <= latest
      /\ to >= getFromBlock(sync)
      /\ to >= latest \/ to >= getFromBlock(sync) + MinSpan - 1
  BY <1>1, <1>2, <1>3 DEF Fetchable, Smaller, CursorOrdered
<1>5. to >= sync.lastToBlock
  BY <1>1, <1>2, <1>3, <1>4, FromBlockBounds DEF CursorOrdered
<1> QED
  BY <1>4, <1>5

(* What a cycle leaves of the range it fetched, and below it: the facts     *)
(* every conjunct of the invariant rests on.                                *)
LEMMA CycleState ==
    ASSUME IInv, NEW latest \in Height, NEW to \in Height,
           to >= sync.lastToBlock, to >= getFromBlock(sync),
           NEW delta, delta = Delta(latest, to),
           NEW kept, kept = KeptBelow(applied, delta.retract)
    PROVE  /\ delta.apply \subseteq LogsOf(branch, getFromBlock(sync), to)
           /\ kept \subseteq applied /\ applied \ kept = delta.retract
           /\ \A a \in kept, b \in delta.apply : a.num < b.num
           /\ \A b \in kept : b.num >= getFromBlock(sync) => b \in sync.window \ delta.retract
           /\ sync.window \ delta.retract \subseteq kept
           /\ kept \cup delta.apply = LogsOf(branch, StartBlock, to)
<1>1. sync \in LastSync /\ branch \in Branches /\ Unmixed(applied)
  BY DEF IInv, TypeOK
<1>2. Described(sync, applied, branch)
  BY DEF IInv, TypeOK, CursorOrdered, WindowComplete, SettledMatchesChain, Described
<1>3. sync.window \subseteq applied
  BY DEF IInv, WindowComplete
<1>4. delta = generateStreamToAppend(sync, LogsOf(branch, getFromBlock(sync), to),
                                     getFromBlock(sync), to, latest)
  BY DEF Delta
<1> QED
  BY <1>1, <1>2, <1>3, <1>4, StreamMakesChain

-----------------------------------------------------------------------------

(* A follower that has synced nothing satisfies the invariant.              *)
LEMMA InitEstablishes == Init => IInv
<1> SUFFICES ASSUME Init PROVE IInv
  OBVIOUS
<1>1. TypeOK
  BY HeightAssumption DEF Init, ChainInit, TypeOK, FreshSync, LastSync, Height
<1>2. getFromBlock(sync) = StartBlock
  BY DEF Init, ChainInit, FreshSync, getFromBlock
<1>3. LogsOf(branch, StartBlock, StartBlock - 1) = {}
  BY HeightAssumption DEF LogsOf, Height
<1> QED
  BY <1>1, <1>2, <1>3 DEF Init, ChainInit, IInv, CursorOrdered, WindowComplete, SettledMatchesChain,
                         Unmixed, FreshSync

(* The chain may grow and reorganise under the follower: below the block    *)
(* the next fetch starts at, a branch that wins carries the same blocks.    *)
LEMMA ChainPreserves ==
    ASSUME IInv, UNCHANGED <<applied, sync>>,
           branch' \in Branches, tip' \in Height, tip' >= tip,
           \A n \in Height : n < tip - Finality => branch'[n] = branch[n]
    PROVE  IInv'
<1> DEFINE from == getFromBlock(sync)
<1>1. /\ sync \in LastSync
      /\ tip \in Nat
      /\ tip' \in Nat
      /\ from \in Nat
      /\ StartBlock \in Nat
      /\ Finality \in Nat
      /\ sync.latestBlock \in Nat
  BY FromBlockBounds, HeightAssumption, FinalityAssumption DEF IInv, TypeOK, LastSync, Height
<1>2. TypeOK'
  BY DEF IInv, TypeOK
<1>3. CursorOrdered'
  BY <1>1 DEF IInv, CursorOrdered
<1>4. getFromBlock(sync)' = from
  BY DEF getFromBlock
<1>5. WindowComplete' /\ Unmixed(applied)'
  BY <1>4 DEF IInv, WindowComplete, Unmixed, LogsOf
<1>6. \A x \in LogBearing : x.num \in StartBlock .. from - 1 => branch'[x.num] = branch[x.num]
  <2> SUFFICES ASSUME NEW x \in LogBearing, x.num \in StartBlock .. from - 1
               PROVE  branch'[x.num] = branch[x.num]
    OBVIOUS
  <2>1. x.num \in Height
    BY ChainAssumption, SpanAssumption DEF Block
  <2>2. from <= sync.latestBlock - Finality
    BY <1>1, FromBlockBounds
  <2>3. x.num < tip - Finality
    BY <1>1, <2>1, <2>2, HeightAssumption DEF IInv, CursorOrdered, Height
  <2> QED
    BY <2>1, <2>3
<1>7. LogsOf(branch', StartBlock, from - 1) = LogsOf(branch, StartBlock, from - 1)
  BY <1>6 DEF LogsOf
<1>8. SettledMatchesChain'
  BY <1>4, <1>7 DEF IInv, SettledMatchesChain
<1> QED
  BY <1>2, <1>3, <1>5, <1>8 DEF IInv

(* A cycle preserves the invariant.                                         *)
LEMMA CyclePreserves ==
    ASSUME IInv, MaxRegress = 0, MinSpan > Finality,
           NEW latest \in Height, NEW to \in Height, Cycle(latest, to)
    PROVE  /\ IInv'
           /\ {b \in applied' : b.num <= sync'.lastToBlock}
                 = LogsOf(branch, StartBlock, sync'.lastToBlock)
<1> DEFINE from == getFromBlock(sync)
           delta == Delta(latest, to)
           kept == KeptBelow(applied, delta.retract)
           retained == sync.window \ delta.retract
<1>1. /\ Fetchable(latest, to)
      /\ applied' = kept \cup delta.apply
      /\ sync' = delta.sync
      /\ branch' = branch
      /\ tip' = tip
  BY DEF Cycle, chainVars
<1>2. /\ to >= sync.lastToBlock
      /\ latest >= sync.latestBlock
      /\ latest <= tip
      /\ to <= latest
      /\ to >= from
  BY <1>1, FetchReachesCursor DEF IInv
<1>3. /\ delta.apply \subseteq LogsOf(branch, from, to)
      /\ kept \subseteq applied
      /\ \A a \in kept, b \in delta.apply : a.num < b.num
      /\ \A b \in kept : b.num >= from => b \in retained
      /\ retained \subseteq kept
      /\ applied' = LogsOf(branch, StartBlock, to)
  BY <1>1, <1>2, CycleState
<1>4. /\ sync'.latestBlock = latest
      /\ sync'.lastToBlock = to
      /\ sync'.window = {b \in retained : to - b.num <= Finality}
                        \cup {b \in delta.apply : latest - b.num <= Finality}
  BY <1>1 DEF Delta, generateStreamToAppend
<1>5. /\ sync \in LastSync
      /\ from \in Nat
      /\ to \in Nat
      /\ latest \in Nat
      /\ tip \in Nat
      /\ StartBlock \in Nat
      /\ Finality \in Nat
      /\ sync.latestBlock \in Nat
      /\ sync.lastToBlock \in Nat
  BY FromBlockBounds, HeightAssumption, FinalityAssumption DEF IInv, TypeOK, LastSync, Height
<1>6. \A b \in applied' : b \in Block /\ b.num \in Nat /\ StartBlock <= b.num /\ b.num <= to
                          /\ b.hash = branch[b.num] /\ b \in LogBearing
  BY <1>3, <1>5, ChainAssumption, SpanAssumption, HeightAssumption DEF LogsOf, Block, Height
<1>7. TypeOK'
  <2>1. applied' \subseteq Block /\ sync'.window \subseteq applied'
    BY <1>1, <1>3, <1>4, <1>6
  <2>2. sync' = [latestBlock |-> latest, lastToBlock |-> to, window |-> sync'.window]
    BY <1>1, <1>4 DEF Delta, generateStreamToAppend
  <2>3. sync' \in LastSync
    BY <2>1, <2>2 DEF LastSync
  <2> QED
    BY <1>1, <2>1, <2>3 DEF IInv, TypeOK
<1>8. CursorOrdered'
  BY <1>1, <1>2, <1>4, <1>6 DEF CursorOrdered
<1> DEFINE next == getFromBlock(sync')
<1>9. /\ next \in Nat
      /\ next >= StartBlock
      /\ next = StartBlock \/ next <= to + 1
      /\ latest # 0 => next >= to + 1 \/ next >= latest - Finality
  BY <1>4, <1>7, FromBlockBounds DEF TypeOK
<1>10. WindowComplete'
  <2>1. sync'.window \subseteq applied'
    BY <1>1, <1>3, <1>4
  <2>2. ASSUME NEW b \in applied', b.num >= next
        PROVE  b \in sync'.window
    <3>1. latest - b.num <= Finality
      BY <1>5, <1>6, <1>9, <2>2
    <3>2. CASE b \in delta.apply
      BY <1>4, <3>1, <3>2
    <3>3. CASE b \in kept
      <4>1. b.num >= from
        BY <1>2, <1>5, <1>6, <3>1, FromBlockBounds
      <4>2. b \in retained /\ to - b.num <= Finality
        BY <1>2, <1>3, <1>5, <1>6, <3>1, <3>3, <4>1
      <4> QED
        BY <1>4, <4>2
    <3> QED
      BY <1>1, <3>2, <3>3
  <2> QED
    BY <2>1, <2>2 DEF WindowComplete
<1>11. SettledMatchesChain'
  <2>1. \A b \in applied' : b.num < next => b \in LogsOf(branch, StartBlock, next - 1)
    BY <1>5, <1>6, <1>9 DEF LogsOf
  <2>2. \A b \in LogsOf(branch, StartBlock, next - 1) : b \in applied' /\ b.num < next
    <3> SUFFICES ASSUME NEW b \in LogsOf(branch, StartBlock, next - 1)
                 PROVE  b \in applied' /\ b.num < next
      OBVIOUS
    <3>1. b \in LogBearing /\ b.num \in Nat /\ StartBlock <= b.num /\ b.num < next
          /\ b.hash = branch[b.num]
      BY <1>5, <1>9, ChainAssumption, SpanAssumption, HeightAssumption DEF LogsOf, Block, Height
    <3> QED
      BY <1>3, <1>5, <1>9, <3>1 DEF LogsOf
  <2> QED
    BY <1>1, <2>1, <2>2 DEF SettledMatchesChain
<1>12. Unmixed(applied)'
  <2> SUFFICES ASSUME NEW a \in applied', NEW c \in Branches, c[a.num] = a.hash
               PROVE  {b \in applied' : b.num <= a.num} = LogsOf(c, StartBlock, a.num)
    BY <1>1 DEF Unmixed
  <2>1. a.num \in Height /\ a.num \in Nat /\ a.num <= to /\ c[a.num] = branch[a.num]
    BY <1>6 DEF Block
  <2>2. \A m \in 0 .. a.num : c[m] = branch[m]
    BY <2>1, BranchesAssumption DEF IInv, TypeOK
  <2>3. LogsOf(c, StartBlock, a.num) = LogsOf(branch, StartBlock, a.num)
    BY <1>5, <2>1, <2>2 DEF LogsOf
  <2>4. {b \in applied' : b.num <= a.num} = LogsOf(branch, StartBlock, a.num)
    BY <1>3, <1>5, <1>6, <2>1, ChainAssumption, SpanAssumption, HeightAssumption DEF LogsOf, Block, Height
  <2> QED
    BY <2>3, <2>4
<1>13. {b \in applied' : b.num <= sync'.lastToBlock} = LogsOf(branch, StartBlock, sync'.lastToBlock)
  BY <1>3, <1>4, <1>6
<1> QED
  BY <1>7, <1>8, <1>10, <1>11, <1>12, <1>13 DEF IInv

(* Every step preserves the invariant.                                      *)
LEMMA NextPreserves ==
    ASSUME MaxRegress = 0, MinSpan > Finality, IInv, [Next]_vars
    PROVE  IInv'
<1>1. CASE Mine
  BY <1>1, ChainPreserves, HeightAssumption DEF Mine, NewBlock, IInv, TypeOK, Height
<1>2. ASSUME NEW b \in Branches, NEW t \in Height, Reorg(b, t)
      PROVE  IInv'
  BY <1>2, ChainPreserves, HeightAssumption DEF Reorg, SwitchTo, IInv, TypeOK, Height
<1>3. ASSUME NEW latest \in Height, NEW to \in Height, Cycle(latest, to)
      PROVE  IInv'
  BY <1>3, CyclePreserves
<1>4. CASE UNCHANGED vars
  BY <1>4 DEF vars, IInv, TypeOK, CursorOrdered, WindowComplete, SettledMatchesChain,
              Unmixed, LogsOf, getFromBlock
<1> QED
  BY <1>1, <1>2, <1>3, <1>4 DEF Next

-----------------------------------------------------------------------------

(* The invariant holds of every behaviour.                                  *)
THEOREM Invariance ==
    ASSUME MaxRegress = 0, MinSpan > Finality
    PROVE  Spec => []IInv
BY InitEstablishes, NextPreserves, PTL DEF Spec

(* Type correctness of the follower.                                        *)
THEOREM TypeCorrect ==
    ASSUME MaxRegress = 0, MinSpan > Finality
    PROVE  Spec => []TypeOK
<1>1. IInv => TypeOK
  BY DEF IInv
<1> QED
  BY <1>1, Invariance, PTL

(* The window holds everything a later fetch can return (the soundness of   *)
(* window membership in generateStreamToAppend).                            *)
THEOREM WindowSound ==
    ASSUME MaxRegress = 0, MinSpan > Finality
    PROVE  Spec => []WindowComplete
<1>1. IInv => WindowComplete
  BY DEF IInv
<1> QED
  BY <1>1, Invariance, PTL

(* Below the next fetch the state is the chain, for good.                   *)
THEOREM SettledForGood ==
    ASSUME MaxRegress = 0, MinSpan > Finality
    PROVE  Spec => []SettledMatchesChain
<1>1. IInv => SettledMatchesChain
  BY DEF IInv
<1> QED
  BY <1>1, Invariance, PTL

(* No block is delivered while the state holds it, and the store accepts    *)
(* every block that is delivered.                                           *)
THEOREM DeliverySafe ==
    ASSUME MaxRegress = 0, MinSpan > Finality
    PROVE  Spec => [](NothingDeliveredTwice /\ StoreAccepts)
<1>1. IInv => NothingDeliveredTwice /\ StoreAccepts
  <2> SUFFICES ASSUME IInv, NEW latest \in Height, NEW to \in Height, Fetchable(latest, to)
               PROVE  LET kept == KeptBelow(applied, Delta(latest, to).retract)
                      IN /\ kept \cap Delta(latest, to).apply = {}
                         /\ \A b \in Delta(latest, to).apply : Accepts(kept, b)
    BY DEF NothingDeliveredTwice, StoreAccepts
  <2>1. to >= sync.lastToBlock /\ to >= getFromBlock(sync)
    BY FetchReachesCursor DEF IInv
  <2>2. \A a \in KeptBelow(applied, Delta(latest, to).retract), b \in Delta(latest, to).apply : a.num < b.num
    BY <2>1, CycleState
  <2>3. \A a \in KeptBelow(applied, Delta(latest, to).retract) : a.num \in Nat
    BY HeightAssumption DEF IInv, TypeOK, Block, Height, KeptBelow
  <2> QED
    BY <2>2, <2>3 DEF Accepts
<1> QED
  BY <1>1, Invariance, PTL

(* A revert takes back exactly what the stream retracts.                    *)
THEOREM RevertsExactly ==
    ASSUME MaxRegress = 0, MinSpan > Finality
    PROVE  Spec => []RevertIsExact
<1>1. IInv => RevertIsExact
  <2> SUFFICES ASSUME IInv, NEW latest \in Height, NEW to \in Height, Fetchable(latest, to)
               PROVE  applied \ KeptBelow(applied, Delta(latest, to).retract) = Delta(latest, to).retract
    BY DEF RevertIsExact
  <2>1. to >= sync.lastToBlock /\ to >= getFromBlock(sync)
    BY FetchReachesCursor DEF IInv
  <2> QED
    BY <2>1, CycleState
<1> QED
  BY <1>1, Invariance, PTL

(* After every cycle the state is the chain over everything covered.        *)
THEOREM CycleCorrect ==
    ASSUME MaxRegress = 0, MinSpan > Finality
    PROVE  Spec => CycleMatchesChain
<1> DEFINE Exact == {b \in applied' : b.num <= sync'.lastToBlock}
                        = LogsOf(branch, StartBlock, sync'.lastToBlock)
<1>1. IInv /\ [Next]_vars => [sync' # sync => Exact]_vars
  <2> SUFFICES ASSUME IInv, Next, sync' # sync
               PROVE  Exact
    OBVIOUS
  <2>1. PICK latest \in Height, to \in Height : Cycle(latest, to)
    BY DEF Next, Mine, Reorg, NewBlock, SwitchTo
  <2> QED
    BY <2>1, CyclePreserves
<1> QED
  BY <1>1, Invariance, PTL DEF Spec, CycleMatchesChain
=============================================================================
