--------------------------- MODULE IndexCycleProofs ---------------------------
(***************************************************************************)
(* What a death between any two store calls leaves behind, for every       *)
(* chain, finality and source, and any number of deaths. The hypotheses    *)
(* are those of run cycle: the tip does not fall back, an abandoned block  *)
(* does not return, a reconfigure waits for the cycle in flight, and a     *)
(* behaviour with wipes has no deaths.                                     *)
(***************************************************************************)
EXTENDS IndexCycle, ChainProofs

(* The calls, as a function: TypeOK says what its values are. A tip is read *)
(* by an engine that has loaded.                                            *)
MemoryTyped ==
    /\ calls \in [Slots -> Call \cup {Nothing}]
    /\ latest # Nothing => lastSync # Nothing

(* What the next restart would load is a true account of the state: settled *)
(* below the resume block, in the window above it. A window block that the  *)
(* state lacks was reverted by a call that died, and stands at or above a   *)
(* block that the chain has abandoned, so it will be retracted again.       *)
Resumable(c) ==
    LET from == getFromBlock(c) IN
    /\ c.latestBlock <= tip /\ c.lastToBlock <= c.latestBlock
    /\ \A b \in applied : b \in LogBearing /\ StartBlock <= b.num /\ b.num <= c.lastToBlock
    /\ {b \in applied : b.num < from} = LogsOf(branch, StartBlock, from - 1)
    /\ \A b \in applied : b.num >= from => b \in c.window
    /\ \A w \in c.window :
        /\ w \in LogBearing /\ StartBlock <= w.num /\ w.num <= c.lastToBlock
        /\ branch[w.num] = w.hash \/ w \in abandoned
        /\ w \in applied \/ \E x \in c.window : x.num >= from /\ x.num <= w.num /\ x \in abandoned

(* What a call in flight still has to do makes the state the chain that it  *)
(* was served, and the cursor it will leave is a true account of that chain.*)
InFlight(k) ==
    LET from == getFromBlock(Loaded)
        kept == KeptBelow(applied, k.retract)
    IN
    /\ k.sync.latestBlock <= tip /\ k.sync.lastToBlock <= k.sync.latestBlock
    /\ kept \cup k.todo = k.chain
    /\ \A a \in kept, b \in k.todo : a.num < b.num
    /\ \E served \in Branches :
        /\ k.chain = LogsOf(served, StartBlock, k.sync.lastToBlock)
        /\ \A n \in Height : n < k.sync.latestBlock - Finality => served[n] = branch[n]
    /\ \A x \in k.chain :
        /\ branch[x.num] = x.hash \/ x \in abandoned
        /\ x.num >= k.sync.latestBlock - Finality => x \in k.sync.window
    /\ k.sync.window \subseteq k.chain
    /\ \A r \in k.retract :
        /\ r.num >= from
        /\ \E x \in Loaded.window : x.num >= from /\ x.num <= r.num /\ x \in abandoned

(* Which of the pieces of memory are in use at once.                        *)
Phases ==
    /\ calls["cancelled"] = Nothing
    /\ wipe # "none" => wipes > 0 /\ calls["live"] = Nothing /\ latest = Nothing /\ lastSync # Nothing
    /\ latest # Nothing => /\ calls["live"] = Nothing /\ lastSync # Nothing
                           /\ latest <= tip /\ latest >= lastSync.latestBlock
    /\ calls["live"] # Nothing => lastSync # Nothing
    /\ wipe = "none" /\ calls["live"] = Nothing /\ lastSync # Nothing => lastSync = Loaded

(* An abandoned block is not on the chain.                                  *)
Forsaken == \A x \in abandoned : branch[x.num] # x.hash

(* The store, through a cycle, a death and a wipe.                          *)
StoreSound ==
    /\ wipe = "none" => Resumable(Loaded) /\ Unmixed(applied)
    /\ wipe \in {"cursor", "load"} => applied = {}
    /\ wipe = "load" => cursor = Nothing
    /\ calls["live"] # Nothing => InFlight(calls["live"])

(* The inductive invariant: RestartSafe and NeverRefused are what it says   *)
(* of one moment; InFlight carries it from a fetch to its last store call,  *)
(* and Resumable from a death to the fetch after it.                        *)
IInv ==
    /\ TypeOK
    /\ MemoryTyped
    /\ faults = 0 => Phases /\ Forsaken /\ StoreSound
-----------------------------------------------------------------------------
(* Types.                                                                   *)

(* A stream in progress has a lowest block.                                 *)
LEMMA LowestIsLowest ==
    ASSUME NEW S, S \subseteq Block, S # {}
    PROVE  Lowest(S) \in S /\ \A x \in S : Lowest(S).num <= x.num
<1> DEFINE N == {b.num : b \in S}
<1>1. N \subseteq Nat /\ N # {}
  BY HeightAssumption DEF Block, Height
<1>2. PICK n \in N : \A m \in N : n <= m
  BY <1>1, LowestExists
<1>3. \E b \in S : \A x \in S : b.num <= x.num
  BY <1>2
<1> QED
  BY <1>3 DEF Lowest

(* The stream a fetch becomes has the types of a call.                      *)
LEMMA StreamTyped ==
    ASSUME NEW s \in LastSync, NEW payload \in SUBSET Block, NEW from, NEW to \in Height, NEW seen \in Height
    PROVE  LET delta == generateStreamToAppend(s, payload, from, to, seen)
           IN /\ delta.retract \subseteq s.window /\ delta.retract \subseteq Block
              /\ delta.apply \subseteq payload /\ delta.apply \subseteq Block
              /\ delta.sync \in LastSync
              /\ delta.sync.latestBlock = seen /\ delta.sync.lastToBlock = to
              /\ delta.sync.window = {b \in s.window \ delta.retract : to - b.num <= Finality}
                                     \cup {b \in delta.apply : seen - b.num <= Finality}
<1>1. s.window \subseteq Block
  BY DEF LastSync
<1> QED
  BY <1>1 DEF generateStreamToAppend, Retracted, LastSync

(* The blocks of a chain are blocks.                                        *)
LEMMA LogsTyped ==
    ASSUME NEW c, NEW from, NEW to
    PROVE  LogsOf(c, from, to) \subseteq Block
BY ChainAssumption DEF LogsOf

(* A call in flight has the types of a call.                                *)
LEMMA CallTyped ==
    ASSUME TypeOK, MemoryTyped, NEW w \in Slots, calls[w] # Nothing
    PROVE  /\ calls[w] \in Call
           /\ calls[w].retract \subseteq Block /\ calls[w].todo \subseteq Block
           /\ calls[w].sync \in LastSync /\ calls[w].chain \subseteq Block
BY DEF MemoryTyped, Call

(* A truncated cursor is a cursor.                                          *)
LEMMA TruncatedTyped ==
    ASSUME NEW s \in LastSync, NEW n \in Height
    PROVE  /\ cursorSyncedThrough(s, n) \in LastSync
           /\ cursorSyncedThrough(s, n).latestBlock = s.latestBlock
           /\ cursorSyncedThrough(s, n).lastToBlock = n
           /\ cursorSyncedThrough(s, n).window = {b \in s.window : b.num <= n}
BY DEF cursorSyncedThrough, LastSync

(* A step of a call keeps the types.                                        *)
LEMMA ProcessorTyped ==
    ASSUME TypeOK, MemoryTyped, NEW w \in Slots, ProcessorStep(w) \/ Fault(w)
    PROVE  TypeOK' /\ MemoryTyped'
<1> DEFINE k == calls[w]
<1>0. /\ k # Nothing /\ k \in Call /\ k.retract \subseteq Block /\ k.todo \subseteq Block
      /\ k.sync \in LastSync /\ k.chain \subseteq Block
  BY CallTyped DEF ProcessorStep, Fault, Revert, Apply, ApplyLast, WriteCursorOnly, Refuse, Applying
<1>1. MemoryTyped' => \A v \in Slots : (calls[v] = Nothing \/ calls[v] \in Call)'
  BY DEF MemoryTyped
<1>2. CASE Revert(w)
  <2>1. [k EXCEPT !.retract = {}] \in Call
    BY <1>0 DEF Call
  <2>2. MemoryTyped'
    BY <1>2, <2>1 DEF Revert, MemoryTyped
  <2>3. applied' \subseteq Block
    BY <1>2 DEF Revert, KeptBelow, TypeOK
  <2> QED
    BY <1>1, <1>2, <2>2, <2>3 DEF Revert, TypeOK, chainVars, budgetVars
<1>3. CASE Apply(w)
  <2>1. NextBlock(w) \in k.todo /\ NextBlock(w) \in Block /\ NextBlock(w).num \in Height
    BY <1>0, <1>3, LowestIsLowest DEF Apply, Applying, NextBlock, Block
  <2>2. [k EXCEPT !.todo = k.todo \ {NextBlock(w)}] \in Call
    BY <1>0 DEF Call
  <2>3. MemoryTyped'
    BY <1>3, <2>2 DEF Apply, MemoryTyped
  <2>4. cursor' \in LastSync
    BY <1>0, <1>3, <2>1, TruncatedTyped DEF Apply
  <2> QED
    BY <1>1, <1>3, <2>1, <2>3, <2>4 DEF Apply, TypeOK, chainVars, budgetVars
<1>4. CASE ApplyLast(w)
  <2>1. NextBlock(w) \in Block
    BY <1>0, <1>4, LowestIsLowest DEF ApplyLast, Applying, NextBlock
  <2>2. MemoryTyped'
    BY <1>0, <1>4, NothingAssumption DEF ApplyLast, Return, MemoryTyped
  <2> QED
    BY <1>0, <1>1, <1>4, <2>1, <2>2 DEF ApplyLast, Return, TypeOK, chainVars, budgetVars
<1>5. CASE WriteCursorOnly(w)
  <2>1. MemoryTyped'
    BY <1>0, <1>5, NothingAssumption DEF WriteCursorOnly, Return, MemoryTyped
  <2> QED
    BY <1>0, <1>1, <1>5, <2>1 DEF WriteCursorOnly, Return, TypeOK, chainVars, budgetVars
<1>6. CASE Refuse(w)
  <2>1. MemoryTyped'
    BY <1>6 DEF Refuse, MemoryTyped
  <2> QED
    BY <1>1, <1>6, <2>1 DEF Refuse, TypeOK, chainVars, storeVars, budgetVars
<1>7. CASE Fault(w)
  <2>1. MemoryTyped'
    BY <1>7 DEF Fault, MemoryTyped
  <2>2. plan.faults \in Nat
    BY FaultsAssumption DEF TypeOK
  <2> QED
    BY <1>1, <1>7, <2>1, <2>2 DEF Fault, TypeOK, chainVars, storeVars
<1> QED
  BY <1>2, <1>3, <1>4, <1>5, <1>6, <1>7 DEF ProcessorStep

(* Every step keeps the types.                                              *)
LEMMA TypesKept ==
    ASSUME TypeOK, MemoryTyped, [Next]_vars
    PROVE  TypeOK' /\ MemoryTyped'
<1>1. MemoryTyped' => \A v \in Slots : (calls[v] = Nothing \/ calls[v] \in Call)'
  BY DEF MemoryTyped
<1>2. CASE UNCHANGED vars
  BY <1>2 DEF vars, budgetVars, TypeOK, MemoryTyped
<1>3. CASE Mine
  <2>1. tip' \in Height
    BY <1>3, HeightAssumption DEF Mine, NewBlock, TypeOK, Height
  <2> QED
    BY <1>3, <2>1 DEF Mine, NewBlock, TypeOK, MemoryTyped, storeVars, budgetVars
<1>4. ASSUME NEW b \in Branches, NEW t \in Height, Reorg(b, t)
      PROVE  TypeOK' /\ MemoryTyped'
  <2>1. abandoned' \subseteq Block
    BY <1>4, LogsTyped DEF Reorg, TypeOK
  <2> QED
    BY <1>4, <2>1 DEF Reorg, SwitchTo, TypeOK, MemoryTyped, storeVars, budgetVars
<1>5. CASE Load \/ Reload
  <2>1. Loaded \in LastSync
    BY HeightAssumption DEF Loaded, TypeOK, FreshSync, LastSync, Height
  <2> QED
    BY <1>5, <2>1, NothingAssumption DEF Load, Reload, TypeOK, MemoryTyped, chainVars, storeVars, budgetVars
<1>6. CASE ReadTip
  BY <1>6 DEF ReadTip, TypeOK, MemoryTyped, chainVars, storeVars, budgetVars
<1>7. ASSUME NEW k \in Call, calls' = [calls EXCEPT !["live"] = k], latest' = Nothing,
             UNCHANGED <<chainVars, storeVars, lastSync, wipe, abandoned, budgetVars>>
      PROVE  TypeOK' /\ MemoryTyped'
  <2>1. calls' \in [Slots -> Call \cup {Nothing}]
    BY <1>7 DEF MemoryTyped, Slots
  <2> QED
    BY <1>7, <2>1 DEF TypeOK, MemoryTyped, chainVars, storeVars, budgetVars
<1>8. ASSUME NEW to \in Height, Fetch(to)
      PROVE  TypeOK' /\ MemoryTyped'
  <2> DEFINE from == getFromBlock(lastSync)
             delta == generateStreamToAppend(lastSync, LogsOf(branch, from, to), from, to, latest)
             k == [retract |-> delta.retract, todo |-> delta.apply, sync |-> delta.sync,
                   chain |-> LogsOf(branch, StartBlock, to)]
  <2>1. lastSync \in LastSync /\ latest \in Height
    BY <1>8 DEF Fetch, TypeOK, MemoryTyped
  <2>2. delta.retract \subseteq Block /\ delta.apply \subseteq Block /\ delta.sync \in LastSync
    BY <2>1, StreamTyped, LogsTyped
  <2>3. k \in Call
    BY <2>2, LogsTyped DEF Call
  <2> QED
    BY <1>7, <1>8, <2>3 DEF Fetch
<1>9. CASE FetchNothing
  <2>1. lastSync \in LastSync
    BY <1>9 DEF FetchNothing, TypeOK, MemoryTyped
  <2>2. [retract |-> {}, todo |-> {}, sync |-> lastSync,
         chain |-> LogsOf(branch, StartBlock, lastSync.lastToBlock)] \in Call
    BY <2>1, LogsTyped DEF Call
  <2> QED
    BY <1>7, <1>9, <2>2 DEF FetchNothing
<1>10. CASE Crash
  <2>1. NoCalls \in [Slots -> Call \cup {Nothing}] /\ plan.crashes \in Nat
    BY FaultsAssumption DEF NoCalls, TypeOK
  <2> QED
    BY <1>1, <1>10, <2>1 DEF Crash, TypeOK, MemoryTyped, chainVars, storeVars
<1>11. CASE Reconfigure
  <2>1. calls' \in [Slots -> Call \cup {Nothing}] /\ plan.wipes \in Nat
    BY <1>11, FaultsAssumption DEF Reconfigure, Slots, MemoryTyped, TypeOK
  <2> QED
    BY <1>1, <1>11, <2>1 DEF Reconfigure, TypeOK, MemoryTyped, chainVars, storeVars
<1>12. CASE WipeState \/ WipeCursor
  BY <1>12 DEF WipeState, WipeCursor, TypeOK, MemoryTyped, chainVars, budgetVars
<1> QED
  BY <1>2, <1>3, <1>4, <1>5, <1>6, <1>8, <1>9, <1>10, <1>11, <1>12, ProcessorTyped DEF Next

-----------------------------------------------------------------------------
(* The store, under a chain that moves.                                     *)

(* What is loaded is a cursor, and its heights are numbers.                 *)
LEMMA LoadedTyped ==
    ASSUME TypeOK
    PROVE  /\ Loaded \in LastSync /\ Loaded.window \subseteq Block
           /\ Loaded.latestBlock \in Nat /\ Loaded.lastToBlock \in Nat
           /\ \A w \in Loaded.window : w.num \in Nat /\ w.num \in Height
           /\ \A b \in applied : b.num \in Nat /\ b.num \in Height
           /\ tip \in Nat /\ branch \in Branches
<1>1. Loaded \in LastSync
  BY HeightAssumption DEF Loaded, TypeOK, FreshSync, LastSync, Height
<1> QED
  BY <1>1, HeightAssumption DEF TypeOK, LastSync, Block, Height

(* The heights of the constants.                                            *)
LEMMA HeightsTyped ==
    /\ StartBlock \in Nat /\ Finality \in Nat /\ Height \subseteq Nat
    /\ \A x \in LogBearing : x \in Block /\ x.num \in Nat /\ x.num \in Height
BY HeightAssumption, FinalityAssumption, ChainAssumption DEF Height, Block

(* A branch that wins carries the same blocks below the finality of the     *)
(* tip, so the settled part of the state stays the chain.                   *)
LEMMA SettledStays ==
    ASSUME NEW c \in LastSync, NEW t \in Nat, c.latestBlock <= t, NEW a \in Branches, NEW b \in Branches,
           \A n \in Height : n < t - Finality => b[n] = a[n]
    PROVE  LogsOf(b, StartBlock, getFromBlock(c) - 1) = LogsOf(a, StartBlock, getFromBlock(c) - 1)
<1> DEFINE from == getFromBlock(c)
<1>1. from \in Nat /\ c.latestBlock \in Nat /\ (from = StartBlock \/ from <= c.latestBlock - Finality)
  BY FromBlockBounds, HeightsTyped DEF LastSync
<1>2. \A x \in LogBearing : x.num \in StartBlock .. from - 1 => b[x.num] = a[x.num]
  BY <1>1, HeightsTyped
<1> QED
  BY <1>2 DEF LogsOf

(* The chain may grow and reorganise between any two store calls.           *)
LEMMA ChainMoves ==
    ASSUME TypeOK, MemoryTyped, Phases, Forsaken, StoreSound,
           UNCHANGED <<applied, cursor, calls, wipe>>,
           branch' \in Branches, tip' \in Nat, tip' >= tip,
           \A n \in Height : n < tip - Finality => branch'[n] = branch[n],
           abandoned \subseteq abandoned',
           \A x \in abandoned' : branch'[x.num] # x.hash,
           \A x \in LogBearing : x.num <= tip /\ branch[x.num] = x.hash =>
                branch'[x.num] = x.hash \/ x \in abandoned'
    PROVE  Forsaken' /\ StoreSound'
<1>1. Forsaken'
  BY DEF Forsaken
<1>2. Loaded' = Loaded
  BY DEF Loaded
<1>3. ASSUME wipe = "none"
      PROVE  Resumable(Loaded)' /\ Unmixed(applied)'
  <2> DEFINE c == Loaded
             from == getFromBlock(c)
  <2>1. Resumable(c) /\ Unmixed(applied)
    BY <1>3 DEF StoreSound
  <2>2. getFromBlock(Loaded)' = from
    BY <1>2 DEF getFromBlock
  <2>3. c.latestBlock <= tip' /\ c.latestBlock <= tip /\ c.lastToBlock <= c.latestBlock
    BY <2>1, LoadedTyped DEF Resumable
  <2>4. LogsOf(branch', StartBlock, from - 1) = LogsOf(branch, StartBlock, from - 1)
    BY <2>3, LoadedTyped, SettledStays
  <2>5. ASSUME NEW w \in c.window
        PROVE  branch'[w.num] = w.hash \/ w \in abandoned'
    BY <2>1, <2>3, LoadedTyped DEF Resumable
  <2>6. Unmixed(applied)'
    BY <2>1 DEF Unmixed, LogsOf
  <2> HIDE DEF c
  <2>7. Resumable(c)'
    BY <2>1, <2>3, <2>4, <2>5, <1>2, <2>2 DEF Resumable, c
  <2> QED
    BY <1>2, <2>6, <2>7 DEF c
<1>4. ASSUME calls["live"] # Nothing
      PROVE  InFlight(calls["live"])'
  <2> DEFINE k == calls["live"]
  <2>1. InFlight(k)
    BY <1>4 DEF StoreSound
  <2>2. k \in Call /\ k.sync \in LastSync /\ k.sync.latestBlock \in Nat /\ k.sync.lastToBlock \in Nat
    BY <1>4, CallTyped, HeightAssumption DEF Slots, LastSync, Height
  <2>3. k.sync.latestBlock <= tip /\ k.sync.lastToBlock <= k.sync.latestBlock /\ k.sync.latestBlock <= tip'
    BY <2>1, <2>2, LoadedTyped DEF InFlight
  <2>4. PICK served \in Branches :
          /\ k.chain = LogsOf(served, StartBlock, k.sync.lastToBlock)
          /\ \A n \in Height : n < k.sync.latestBlock - Finality => served[n] = branch[n]
    BY <2>1 DEF InFlight
  <2>5. \A n \in Height : n < k.sync.latestBlock - Finality => served[n] = branch'[n]
    BY <2>2, <2>3, <2>4, LoadedTyped, HeightsTyped
  <2>6. \A x \in k.chain : x \in LogBearing /\ x.num <= tip
    BY <2>2, <2>3, <2>4, LoadedTyped, HeightsTyped DEF LogsOf
  <2>7. \A x \in k.chain : branch'[x.num] = x.hash \/ x \in abandoned'
    BY <2>1, <2>6 DEF InFlight
  <2>8. calls'["live"] = k /\ getFromBlock(Loaded)' = getFromBlock(Loaded)
    BY <1>2 DEF getFromBlock
  <2> HIDE DEF k
  <2>9. \A r \in k.retract :
          /\ r.num >= getFromBlock(Loaded)
          /\ \E x \in Loaded.window :
                x.num >= getFromBlock(Loaded) /\ x.num <= r.num /\ x \in abandoned'
    BY <2>1 DEF InFlight
  <2> QED
    BY <1>2, <2>1, <2>3, <2>4, <2>5, <2>7, <2>8, <2>9 DEF InFlight, KeptBelow, LogsOf
<1> QED
  BY <1>1, <1>3, <1>4 DEF StoreSound

-----------------------------------------------------------------------------
(* A cycle: what a fetch plans, and what each store call leaves.            *)

(* What the engine fetches from is what the store would resume from.        *)
LEMMA FetchBounds ==
    ASSUME TypeOK, MemoryTyped, Phases, StoreSound, latest # Nothing
    PROVE  /\ lastSync = Loaded /\ Resumable(Loaded) /\ Unmixed(applied)
           /\ latest \in Height /\ latest \in Nat /\ latest <= tip /\ latest >= Loaded.latestBlock
<1>1. wipe = "none" /\ calls["live"] = Nothing /\ lastSync # Nothing
  BY DEF Phases
<1> QED
  BY <1>1, HeightsTyped DEF Phases, StoreSound, TypeOK

(* The stream of a fetch completes the state, and takes back only what the  *)
(* chain has abandoned.                                                     *)
LEMMA FetchPlans ==
    ASSUME TypeOK, MemoryTyped, Phases, Forsaken, StoreSound, NEW to \in Height, Fetch(to)
    PROVE  InFlight(calls["live"])'
<1> DEFINE c == Loaded
           from == getFromBlock(c)
           delta == generateStreamToAppend(c, LogsOf(branch, from, to), from, to, latest)
           kept == KeptBelow(applied, delta.retract)
           k == [retract |-> delta.retract, todo |-> delta.apply, sync |-> delta.sync,
                 chain |-> LogsOf(branch, StartBlock, to)]
<1>1. /\ lastSync = c /\ Resumable(c) /\ Unmixed(applied)
      /\ latest \in Height /\ latest \in Nat /\ latest <= tip /\ latest >= c.latestBlock
  BY FetchBounds DEF Fetch
<1>2. /\ calls'["live"] = k /\ Loaded' = c
      /\ UNCHANGED <<applied, branch, tip, abandoned>>
      /\ to \in from .. latest /\ to >= Smaller(latest, from + Finality)
  BY <1>1 DEF Fetch, Loaded, chainVars, storeVars, MemoryTyped, Slots
<1>3. /\ c \in LastSync /\ c.window \subseteq Block /\ branch \in Branches
      /\ c.latestBlock \in Nat /\ c.lastToBlock \in Nat /\ from \in Nat /\ to \in Nat
      /\ \A w \in c.window : w.num \in Nat
      /\ \A b \in applied : b.num \in Nat
  BY LoadedTyped, FromBlockBounds, HeightsTyped
<1>4. to >= from /\ to <= latest /\ to >= c.lastToBlock
  <2>1. to >= from /\ to <= latest /\ (to >= latest \/ to >= from + Finality)
    BY <1>1, <1>2, <1>3, HeightsTyped DEF Smaller
  <2>2. c.lastToBlock <= c.latestBlock
    BY <1>1 DEF Resumable
  <2> QED
    BY <1>1, <1>3, <2>1, <2>2, FromBlockBounds, HeightsTyped
<1>5. Described(c, applied, branch)
  BY <1>1 DEF Resumable, Described, Forsaken, TypeOK
<1> HIDE DEF c
<1>6. /\ kept = applied \ delta.retract
      /\ c.window \ delta.retract \subseteq kept
      /\ \A b \in kept : b.num >= from => b \in c.window \ delta.retract
      /\ \A a \in kept, b \in delta.apply : a.num < b.num
      /\ kept \cup delta.apply = LogsOf(branch, StartBlock, to)
      /\ \A r \in delta.retract :
            /\ r \in c.window /\ r.num >= from
            /\ \E x \in c.window : x.num >= from /\ x.num <= r.num /\ x \notin LogsOf(branch, from, to)
                                   /\ x.num <= to
  BY <1>1, <1>3, <1>4, <1>5, StreamMakesChain
<1>7. /\ delta.sync.latestBlock = latest /\ delta.sync.lastToBlock = to
      /\ delta.sync.window = {b \in c.window \ delta.retract : to - b.num <= Finality}
                             \cup {b \in delta.apply : latest - b.num <= Finality}
  BY DEF generateStreamToAppend
<1> HIDE DEF delta
<1>8. ASSUME NEW r \in delta.retract
      PROVE  r.num >= from /\ \E x \in c.window : x.num >= from /\ x.num <= r.num /\ x \in abandoned
  <2>1. PICK x \in c.window : x.num >= from /\ x.num <= r.num /\ x \notin LogsOf(branch, from, to)
                             /\ x.num <= to
    BY <1>6
  <2>2. x \in LogBearing /\ (branch[x.num] = x.hash \/ x \in abandoned)
    BY <1>1 DEF Resumable
  <2>3. x \in abandoned
    BY <1>3, <2>1, <2>2 DEF LogsOf
  <2> QED
    BY <1>6, <2>1, <2>3
<1>9. ASSUME NEW x \in LogsOf(branch, StartBlock, to)
      PROVE  /\ branch[x.num] = x.hash
             /\ x.num >= latest - Finality => x \in delta.sync.window
  <2>1. branch[x.num] = x.hash /\ x.num \in Nat /\ x.num >= StartBlock /\ x.num <= to
    BY <1>3, HeightsTyped DEF LogsOf
  <2>2. CASE x.num >= latest - Finality
    <3>1. CASE x \in delta.apply
      BY <1>1, <1>7, <2>1, <2>2, <3>1, HeightsTyped
    <3>2. CASE x \in kept
      <4>1. x.num >= from
        BY <1>1, <1>3, <2>1, <2>2, FromBlockBounds, HeightsTyped
      <4>2. to - x.num <= Finality
        BY <1>1, <1>3, <1>4, <2>1, <2>2, HeightsTyped
      <4> QED
        BY <1>6, <1>7, <2>1, <3>2, <4>1, <4>2
    <3> QED
      BY <1>6, <3>1, <3>2
  <2> QED
    BY <2>1, <2>2
<1>10. delta.sync.window \subseteq LogsOf(branch, StartBlock, to)
  BY <1>6, <1>7
<1>11. getFromBlock(Loaded)' = from
  BY <1>2 DEF getFromBlock
<1>12. k.retract = delta.retract /\ k.todo = delta.apply /\ k.sync = delta.sync
       /\ k.chain = LogsOf(branch, StartBlock, to)
  OBVIOUS
<1> HIDE DEF k
<1> QED
  BY <1>1, <1>2, <1>3, <1>4, <1>6, <1>7, <1>8, <1>9, <1>10, <1>11, <1>12 DEF InFlight

(* What a store call writes is resumable: the blocks of the stream up to n, *)
(* with the cursor cut at n (syncedThrough).                                *)
LEMMA WrittenThrough ==
    ASSUME TypeOK, NEW k \in Call, InFlight(k), NEW n \in Height, n <= k.sync.lastToBlock,
           NEW c \in LastSync, c.latestBlock = k.sync.latestBlock, c.lastToBlock = n,
           c.window = {b \in k.sync.window : b.num <= n},
           applied' = {x \in k.chain : x.num <= n}, cursor' = c,
           UNCHANGED <<branch, tip, abandoned>>
    PROVE  Resumable(Loaded)' /\ Unmixed(applied)'
<1> DEFINE from == getFromBlock(c)
           seen == k.sync.latestBlock
<1>1. Loaded' = c /\ getFromBlock(Loaded)' = from
  BY NothingAssumption DEF Loaded, getFromBlock
<1>2. PICK served \in Branches :
        /\ k.chain = LogsOf(served, StartBlock, k.sync.lastToBlock)
        /\ \A h \in Height : h < seen - Finality => served[h] = branch[h]
  BY DEF InFlight
<1>3. /\ from \in Nat /\ seen \in Nat /\ n \in Nat /\ k.sync.lastToBlock \in Nat /\ tip \in Nat
      /\ from >= StartBlock
      /\ from = StartBlock \/ (from <= n + 1 /\ from <= seen - Finality)
      /\ seen # 0 => from >= n + 1 \/ from >= seen - Finality
  BY FromBlockBounds, HeightsTyped DEF Call, LastSync, TypeOK
<1>4. seen <= tip /\ n <= seen
  BY <1>3 DEF InFlight
<1>5. \A x \in k.chain : /\ x \in LogBearing /\ x.num \in Nat /\ x.num \in Height
                         /\ StartBlock <= x.num /\ x.hash = served[x.num]
  BY <1>2, <1>3, HeightsTyped DEF LogsOf
<1>6. /\ \A x \in k.chain : branch[x.num] = x.hash \/ x \in abandoned
      /\ \A x \in k.chain : x.num >= seen - Finality => x \in k.sync.window
      /\ k.sync.window \subseteq k.chain
  BY DEF InFlight
<1>7. {b \in applied' : b.num < from} = LogsOf(branch, StartBlock, from - 1)
  <2>1. ASSUME NEW b \in applied', b.num < from
        PROVE  b \in LogsOf(branch, StartBlock, from - 1)
    <3>1. b \in k.chain /\ b.num < seen - Finality
      BY <1>3, <1>5, <2>1, HeightsTyped
    <3>2. b.hash = branch[b.num]
      BY <1>2, <1>5, <3>1
    <3> QED
      BY <1>3, <1>5, <2>1, <3>1, <3>2, HeightsTyped DEF LogsOf
  <2>2. ASSUME NEW b \in LogsOf(branch, StartBlock, from - 1)
        PROVE  b \in applied' /\ b.num < from
    <3>1. /\ b \in LogBearing /\ b.num \in Nat /\ b.num \in Height
          /\ StartBlock <= b.num /\ b.num < from /\ b.hash = branch[b.num]
      BY <1>3, HeightsTyped DEF LogsOf
    <3>2. b.num <= n /\ b.num < seen - Finality
      BY <1>3, <3>1, HeightsTyped
    <3>3. b \in k.chain
      BY <1>2, <1>3, <3>1, <3>2, HeightsTyped DEF LogsOf
    <3> QED
      BY <3>1, <3>2, <3>3
  <2> QED
    BY <2>1, <2>2
<1>8. ASSUME NEW b \in applied', b.num >= from
      PROVE  b \in c.window
  <2>1. b.num >= seen - Finality
    BY <1>3, <1>4, <1>5, <1>8, HeightsTyped
  <2> QED
    BY <1>6, <2>1
<1>9. Resumable(Loaded)'
  BY <1>1, <1>3, <1>4, <1>5, <1>6, <1>7, <1>8 DEF Resumable
<1>10. ASSUME NEW a \in applied', NEW d \in Branches, d[a.num] = a.hash
       PROVE  {b \in applied' : b.num <= a.num} = LogsOf(d, StartBlock, a.num)
  <2>1. a.num \in Nat /\ a.num \in Height /\ a.num <= n /\ d[a.num] = served[a.num]
    BY <1>5, <1>10
  <2>2. \A m \in 0 .. a.num : d[m] = served[m]
    BY <2>1, BranchesAssumption
  <2>3. LogsOf(d, StartBlock, a.num) = LogsOf(served, StartBlock, a.num)
    BY <2>1, <2>2, HeightsTyped DEF LogsOf
  <2>4. {b \in applied' : b.num <= a.num} = LogsOf(served, StartBlock, a.num)
    BY <1>2, <1>3, <1>5, <2>1, HeightsTyped DEF LogsOf
  <2> QED
    BY <2>3, <2>4
<1>11. Unmixed(applied)'
  BY <1>10 DEF Unmixed, LogsOf
<1> QED
  BY <1>9, <1>11

(* A call that found nothing to fetch, because the source starts above the  *)
(* tip, has nothing to complete.                                            *)
LEMMA NothingPlans ==
    ASSUME TypeOK, MemoryTyped, Phases, StoreSound, FetchNothing
    PROVE  InFlight(calls["live"])'
<1> DEFINE c == Loaded
           k == [retract |-> {}, todo |-> {}, sync |-> c, chain |-> LogsOf(branch, StartBlock, c.lastToBlock)]
<1>1. /\ lastSync = c /\ Resumable(c)
      /\ latest \in Nat /\ latest <= tip /\ latest >= c.latestBlock
  BY FetchBounds DEF FetchNothing
<1>2. /\ calls'["live"] = k /\ UNCHANGED <<applied, branch, tip, abandoned>>
      /\ getFromBlock(c) > latest
  BY <1>1 DEF FetchNothing, chainVars, storeVars, MemoryTyped, Slots
<1>3. /\ c \in LastSync /\ c.latestBlock \in Nat /\ c.lastToBlock \in Nat
      /\ c.lastToBlock <= c.latestBlock /\ c.latestBlock <= tip
  BY <1>1, LoadedTyped DEF Resumable
<1>4. StartBlock > c.lastToBlock
  BY <1>1, <1>2, <1>3, FromBlockBounds, HeightsTyped
<1>5. applied = {} /\ c.window = {} /\ k.chain = {}
  <2>1. \A b \in applied : b.num \in Nat /\ StartBlock <= b.num /\ b.num <= c.lastToBlock
    BY <1>1, LoadedTyped DEF Resumable
  <2>2. \A b \in c.window : b.num \in Nat /\ StartBlock <= b.num /\ b.num <= c.lastToBlock
    BY <1>1, LoadedTyped DEF Resumable
  <2> QED
    BY <1>3, <1>4, <2>1, <2>2, HeightsTyped DEF LogsOf
<1>6. KeptBelow(applied, {}) = {}
  BY <1>5 DEF KeptBelow
<1>7. branch \in Branches
  BY DEF TypeOK
<1>8. k.retract = {} /\ k.todo = {} /\ k.sync = c /\ k.chain = LogsOf(branch, StartBlock, c.lastToBlock)
  OBVIOUS
<1> HIDE DEF k, c
<1>9. KeptBelow(applied', k.retract) = {}
  BY <1>2, <1>6, <1>8
<1> QED
  BY <1>2, <1>3, <1>5, <1>7, <1>8, <1>9 DEF InFlight

(* A revert leaves a state that a restart would revert again: the blocks    *)
(* that it took back stand above one that the chain has abandoned.          *)
LEMMA RevertSafe ==
    ASSUME TypeOK, MemoryTyped, Phases, StoreSound, Revert("live")
    PROVE  StoreSound'
<1> DEFINE c == Loaded
           from == getFromBlock(c)
           k == calls["live"]
           now == calls'["live"]
<1>1. /\ k # Nothing /\ wipe = "none" /\ InFlight(k) /\ Resumable(c) /\ Unmixed(applied)
  BY DEF Revert, StoreSound, Phases
<1>2. /\ k \in Call /\ k.retract \subseteq Block
      /\ now = [k EXCEPT !.retract = {}] /\ applied' = KeptBelow(applied, k.retract)
      /\ UNCHANGED <<branch, tip, abandoned, cursor, wipe>>
  BY <1>1, CallTyped DEF Revert, chainVars, MemoryTyped, Slots
<1>3. now.retract = {} /\ now.todo = k.todo /\ now.sync = k.sync /\ now.chain = k.chain
  BY <1>2 DEF Call
<1>4. Loaded' = c /\ getFromBlock(Loaded)' = from
  BY <1>2 DEF Loaded, getFromBlock
<1>5. /\ applied' \subseteq applied
      /\ \A r \in k.retract : r.num \in Nat /\ r.num >= from
      /\ from \in Nat /\ \A b \in applied : b.num \in Nat
  BY <1>1, <1>2, LoadedTyped, FromBlockBounds, HeightsTyped DEF KeptBelow, InFlight, Block
<1>6. \A b \in applied : b.num < from => b \in applied'
  BY <1>2, <1>5 DEF KeptBelow
<1>7. \A a \in applied', b \in applied : b.num <= a.num => b \in applied'
  BY <1>2, <1>5 DEF KeptBelow
<1>8. ASSUME NEW w \in c.window, w \notin applied'
      PROVE  \E x \in c.window : x.num >= from /\ x.num <= w.num /\ x \in abandoned
  <2>1. CASE w \notin applied
    BY <1>1, <2>1 DEF Resumable
  <2>2. CASE w \in applied
    <3>1. PICK r \in k.retract : ~(w.num < r.num)
      BY <1>2, <1>8, <2>2 DEF KeptBelow
    <3>2. PICK x \in c.window : x.num >= from /\ x.num <= r.num /\ x \in abandoned
      BY <1>1 DEF InFlight
    <3>3. x.num <= w.num
      BY <1>5, <2>2, <3>1, <3>2, LoadedTyped
    <3> QED
      BY <3>2, <3>3
  <2> QED
    BY <2>1, <2>2
<1>9. {b \in applied' : b.num < from} = {b \in applied : b.num < from}
  BY <1>5, <1>6
<1>10. Unmixed(applied)'
  <2> SUFFICES ASSUME NEW a \in applied', NEW d \in Branches, d[a.num] = a.hash
               PROVE  {b \in applied' : b.num <= a.num} = LogsOf(d, StartBlock, a.num)
    BY DEF Unmixed, LogsOf
  <2>1. {b \in applied' : b.num <= a.num} = {b \in applied : b.num <= a.num}
    BY <1>5, <1>7
  <2> QED
    BY <1>1, <1>5, <2>1 DEF Unmixed
<1> HIDE DEF c, k
<1>11. Resumable(Loaded)'
  BY <1>1, <1>2, <1>4, <1>5, <1>8, <1>9 DEF Resumable
<1>12. KeptBelow(applied', now.retract) = applied'
  BY <1>3 DEF KeptBelow
<1>13. InFlight(calls["live"])'
  BY <1>1, <1>2, <1>3, <1>4, <1>12 DEF InFlight
<1> QED
  BY <1>1, <1>2, <1>10, <1>11, <1>13 DEF StoreSound

(* The next block of a stream: the store accepts it, and what is left of    *)
(* the stream stands above it.                                              *)
LEMMA NextIsAbove ==
    ASSUME TypeOK, MemoryTyped, calls["live"] # Nothing, InFlight(calls["live"]), Applying("live")
    PROVE  LET k == calls["live"]
               b == NextBlock("live")
           IN /\ b \in k.todo /\ b.num \in Height /\ b.num <= k.sync.lastToBlock
              /\ Accepts(applied, b)
              /\ applied \cup {b} = {x \in k.chain : x.num <= b.num}
              /\ \A x \in k.todo \ {b} : x.num > b.num
<1> DEFINE k == calls["live"]
           b == NextBlock("live")
<1>1. /\ k \in Call /\ k.todo \subseteq Block /\ k.sync.lastToBlock \in Nat
      /\ k.retract = {} /\ k.todo # {}
  BY CallTyped, HeightsTyped DEF Applying, Slots, LastSync
<1>2. b \in k.todo /\ \A x \in k.todo : b.num <= x.num
  BY <1>1, LowestIsLowest DEF NextBlock
<1>3. KeptBelow(applied, k.retract) = applied
  BY <1>1 DEF KeptBelow
<1>4. applied \cup k.todo = k.chain /\ \A a \in applied, x \in k.todo : a.num < x.num
  BY <1>3 DEF InFlight
<1>5. PICK served \in Branches : k.chain = LogsOf(served, StartBlock, k.sync.lastToBlock)
  BY DEF InFlight
<1>6. \A x \in k.chain : x \in Block /\ x.num \in Nat /\ x.num \in Height /\ x.num <= k.sync.lastToBlock
                         /\ x.hash = served[x.num]
  BY <1>1, <1>5, HeightsTyped DEF LogsOf
<1>7. \A x, y \in k.chain : x.num = y.num => x = y
  BY <1>6 DEF Block
<1> HIDE DEF b, k
<1>8. \A x \in k.todo \ {b} : x.num > b.num
  BY <1>2, <1>4, <1>6, <1>7
<1>9. applied \cup {b} = {x \in k.chain : x.num <= b.num}
  BY <1>2, <1>4, <1>6, <1>8
<1> QED
  BY <1>2, <1>4, <1>6, <1>8, <1>9 DEF Accepts, b, k

(* A block lands with the cursor that describes it.                         *)
LEMMA ApplySafe ==
    ASSUME TypeOK, MemoryTyped, Phases, StoreSound, Apply("live")
    PROVE  StoreSound'
<1> DEFINE k == calls["live"]
           b == NextBlock("live")
           c == cursorSyncedThrough(k.sync, b.num)
           now == calls'["live"]
<1>1. /\ k # Nothing /\ wipe = "none" /\ InFlight(k) /\ k \in Call /\ k.sync \in LastSync /\ k.retract = {}
  BY CallTyped DEF Apply, Applying, StoreSound, Phases, Slots
<1>2. /\ b \in k.todo /\ b.num \in Height /\ b.num <= k.sync.lastToBlock
      /\ applied \cup {b} = {x \in k.chain : x.num <= b.num}
      /\ \A x \in k.todo \ {b} : x.num > b.num
  BY <1>1, NextIsAbove DEF Apply
<1>3. /\ applied' = {x \in k.chain : x.num <= b.num} /\ applied' = applied \cup {b} /\ cursor' = c
      /\ now = [k EXCEPT !.todo = k.todo \ {b}]
      /\ UNCHANGED <<branch, tip, abandoned, wipe>>
  BY <1>1, <1>2 DEF Apply, chainVars, MemoryTyped, Slots
<1>4. now.retract = {} /\ now.todo = k.todo \ {b} /\ now.sync = k.sync /\ now.chain = k.chain
  BY <1>1, <1>3 DEF Call
<1>5. /\ c \in LastSync /\ c.latestBlock = k.sync.latestBlock /\ c.lastToBlock = b.num
      /\ c.window = {x \in k.sync.window : x.num <= b.num}
  BY <1>1, <1>2, TruncatedTyped
<1> HIDE DEF c, b, k
<1>6. Resumable(Loaded)' /\ Unmixed(applied)'
  BY <1>1, <1>2, <1>3, <1>5, WrittenThrough
<1>7. KeptBelow(applied', now.retract) = applied' /\ KeptBelow(applied, k.retract) = applied
  BY <1>1, <1>4 DEF KeptBelow
<1>8. applied \cup k.todo = k.chain
  BY <1>1, <1>7 DEF InFlight
<1>9. \A x \in k.chain : x.num \in Nat
  BY <1>1, HeightsTyped DEF Call, Block
<1>10. applied' \cup now.todo = k.chain /\ \A a \in applied', x \in now.todo : a.num < x.num
  BY <1>2, <1>3, <1>4, <1>8, <1>9, HeightsTyped
<1>11. InFlight(calls["live"])'
  BY <1>1, <1>3, <1>4, <1>7, <1>10 DEF InFlight
<1> QED
  BY <1>1, <1>3, <1>6, <1>11 DEF StoreSound

(* The last store call of a stream leaves the chain it was served, with the *)
(* cursor of the whole stream.                                              *)
LEMMA ReturnSafe ==
    ASSUME TypeOK, MemoryTyped, Phases, StoreSound, ApplyLast("live") \/ WriteCursorOnly("live")
    PROVE  StoreSound' /\ Loaded' = lastSync' /\ applied' = calls["live"].chain
<1> DEFINE k == calls["live"]
           b == NextBlock("live")
           n == k.sync.lastToBlock
<1>1. /\ k # Nothing /\ wipe = "none" /\ InFlight(k) /\ k \in Call /\ k.sync \in LastSync /\ k.retract = {}
  BY CallTyped DEF ApplyLast, WriteCursorOnly, Applying, StoreSound, Phases, Slots
<1>2. /\ cursor' = k.sync /\ lastSync' = k.sync /\ calls'["live"] = Nothing
      /\ UNCHANGED <<branch, tip, abandoned, wipe>>
  BY DEF ApplyLast, WriteCursorOnly, Return, chainVars, MemoryTyped, Slots
<1>3. KeptBelow(applied, k.retract) = applied
  BY <1>1 DEF KeptBelow
<1>4. applied \cup k.todo = k.chain
  BY <1>1, <1>3 DEF InFlight
<1>5. applied' = k.chain
  <2>1. CASE ApplyLast("live")
    <3>1. k.todo = {b} /\ applied' = applied \cup {b}
      BY <2>1 DEF ApplyLast
    <3> QED
      BY <1>4, <3>1
  <2>2. CASE WriteCursorOnly("live")
    BY <1>4, <2>2 DEF WriteCursorOnly
  <2> QED
    BY <2>1, <2>2
<1>6. n \in Height /\ n \in Nat
  BY <1>1, HeightsTyped DEF LastSync
<1>7. \A x \in k.chain : x.num \in Nat /\ x.num <= n
  <2>1. PICK served \in Branches : k.chain = LogsOf(served, StartBlock, n)
    BY <1>1 DEF InFlight
  <2> QED
    BY <1>6, <2>1, HeightsTyped DEF LogsOf
<1>8. k.sync.window = {x \in k.sync.window : x.num <= n} /\ applied' = {x \in k.chain : x.num <= n}
  BY <1>1, <1>5, <1>7 DEF InFlight
<1> HIDE DEF k
<1>9. n <= n
  BY <1>6
<1>10. Resumable(Loaded)' /\ Unmixed(applied)'
  BY <1>1, <1>2, <1>6, <1>8, <1>9, WrittenThrough
<1>11. Loaded' = lastSync'
  BY <1>1, <1>2, NothingAssumption DEF Loaded
<1> QED
  BY <1>1, <1>2, <1>5, <1>10, <1>11 DEF StoreSound, k

-----------------------------------------------------------------------------
(* The invariant.                                                           *)

(* The hypotheses. Each is needed: without one, TLC has a counterexample.   *)
Sheltered ==
    /\ MaxRegress = 0
    /\ MayReturn = FALSE /\ RaceWipe = FALSE
    /\ \A p \in Plans : p.crashes = 0 \/ p.wipes = 0

(* A fresh process over an empty store.                                     *)
LEMMA InitEstablishes == Init => IInv
<1> SUFFICES ASSUME Init PROVE IInv
  OBVIOUS
<1>1. plan.crashes \in Nat /\ plan.faults \in Nat /\ plan.wipes \in Nat
  BY FaultsAssumption DEF Init
<1>2. calls \in [Slots -> Call \cup {Nothing}] /\ \A w \in Slots : calls[w] = Nothing
  BY DEF Init, NoCalls
<1>3. TypeOK /\ MemoryTyped
  BY <1>1, <1>2, HeightAssumption DEF Init, ChainInit, TypeOK, MemoryTyped, Height
<1>4. calls["live"] = Nothing /\ calls["cancelled"] = Nothing
  BY <1>2 DEF Slots
<1>5. Phases /\ Forsaken
  BY <1>4 DEF Init, Phases, Forsaken
<1>6. Loaded = FreshSync /\ getFromBlock(Loaded) = StartBlock
  BY DEF Init, Loaded, FreshSync, getFromBlock
<1>7. LogsOf(branch, StartBlock, StartBlock - 1) = {}
  BY HeightsTyped DEF LogsOf
<1>8. StoreSound
  BY <1>4, <1>6, <1>7 DEF Init, ChainInit, StoreSound, Resumable, Unmixed, FreshSync
<1> QED
  BY <1>3, <1>5, <1>8 DEF IInv

(* What the chain does.                                                     *)
LEMMA ChainStep ==
    ASSUME Sheltered, TypeOK, MemoryTyped, Phases, Forsaken, StoreSound,
           Mine \/ \E b \in Branches, t \in Height : Reorg(b, t)
    PROVE  Phases' /\ Forsaken' /\ StoreSound'
<1>1. /\ branch' \in Branches /\ tip' \in Nat /\ tip' >= tip /\ tip \in Nat
      /\ \A n \in Height : n < tip - Finality => branch'[n] = branch[n]
      /\ UNCHANGED <<applied, cursor, calls, wipe, lastSync, latest, wipes>>
  BY HeightsTyped DEF Sheltered, Mine, NewBlock, Reorg, SwitchTo, TypeOK, storeVars, budgetVars
<1>2. /\ abandoned \subseteq abandoned'
      /\ \A x \in abandoned' : branch'[x.num] # x.hash
      /\ \A x \in LogBearing : x.num <= tip /\ branch[x.num] = x.hash =>
            branch'[x.num] = x.hash \/ x \in abandoned'
  <2>1. CASE Mine
    BY <2>1 DEF Mine, NewBlock, Forsaken
  <2>2. CASE \E b \in Branches, t \in Height : Reorg(b, t)
    <3>1. PICK b \in Branches, t \in Height : Reorg(b, t)
      BY <2>2
    <3>2. /\ branch' = b /\ \A x \in abandoned : b[x.num] # x.hash
          /\ abandoned' = abandoned \cup {x \in LogsOf(branch, 0, tip) : b[x.num] # x.hash}
      BY <3>1 DEF Sheltered, Reorg, SwitchTo
    <3> QED
      BY <1>1, <3>2, HeightsTyped DEF LogsOf
  <2> QED
    BY <2>1, <2>2
<1>3. Loaded' = Loaded
  BY <1>1 DEF Loaded
<1>4. Phases'
  BY <1>1, <1>3, HeightsTyped DEF Phases, TypeOK
<1> QED
  BY <1>1, <1>2, <1>4, ChainMoves

(* What the engine does: it loads, reads the tip, and fetches.              *)
LEMMA EngineStep ==
    ASSUME TypeOK, MemoryTyped, Phases, Forsaken, StoreSound,
           Load \/ ReadTip \/ FetchNothing \/ \E to \in Height : Fetch(to)
    PROVE  Phases' /\ Forsaken' /\ StoreSound'
<1>1. UNCHANGED <<branch, tip, applied, cursor, wipe, abandoned, wipes>> /\ Loaded' = Loaded
  BY DEF Load, ReadTip, FetchNothing, Fetch, chainVars, storeVars, budgetVars, Loaded
<1>2. Forsaken'
  BY <1>1 DEF Forsaken
<1>3. (wipe = "none" => Resumable(Loaded) /\ Unmixed(applied))'
  BY <1>1 DEF StoreSound, Resumable, Unmixed, LogsOf, getFromBlock
<1>4. CASE Load \/ ReadTip
  <2>1. calls' = calls
    BY <1>4 DEF Load, ReadTip
  <2>2. InFlight(calls["live"]) => InFlight(calls["live"])'
    BY <1>1, <2>1 DEF InFlight, LogsOf, getFromBlock
  <2>3. StoreSound'
    BY <1>1, <1>3, <2>1, <2>2 DEF StoreSound
  <2>4. Phases'
    <3>1. CASE Load
      BY <1>1, <2>1, <3>1 DEF Load, Phases
    <3>2. CASE ReadTip
      <4>1. lastSync = Loaded /\ Loaded.latestBlock <= tip
        BY <3>2 DEF ReadTip, Phases, StoreSound, Resumable
      <4>2. tip <= tip
        BY LoadedTyped
      <4> QED
        BY <1>1, <2>1, <3>2, <4>1, <4>2 DEF ReadTip, Phases
    <3> QED
      BY <1>4, <3>1, <3>2
  <2> QED
    BY <1>2, <2>3, <2>4
<1>5. CASE FetchNothing \/ \E to \in Height : Fetch(to)
  <2>1. InFlight(calls["live"])'
    BY <1>5, FetchPlans, NothingPlans
  <2>2. StoreSound'
    BY <1>1, <1>3, <2>1 DEF StoreSound
  <2>3. /\ latest # Nothing /\ latest' = Nothing /\ lastSync' = lastSync
        /\ calls'["cancelled"] = calls["cancelled"]
    BY <1>5 DEF FetchNothing, Fetch, MemoryTyped, Slots
  <2>4. Phases'
    BY <1>1, <2>3 DEF Phases
  <2> QED
    BY <1>2, <2>2, <2>4
<1> QED
  BY <1>4, <1>5

(* What the processor does: no block is refused, so a call ends only where  *)
(* its stream does.                                                         *)
LEMMA ProcessorStepSafe ==
    ASSUME TypeOK, MemoryTyped, Phases, Forsaken, StoreSound, NEW w \in Slots, ProcessorStep(w)
    PROVE  Phases' /\ Forsaken' /\ StoreSound'
<1>1. w = "live" /\ calls["live"] # Nothing /\ latest = Nothing /\ wipe = "none"
  BY DEF ProcessorStep, Revert, Apply, ApplyLast, WriteCursorOnly, Refuse, Applying, Phases, Slots
<1>2. ~Refuse("live")
  BY <1>1, NextIsAbove DEF Refuse, StoreSound
<1>3. UNCHANGED <<branch, tip, latest, wipe, abandoned, wipes>>
  BY DEF ProcessorStep, Revert, Apply, ApplyLast, WriteCursorOnly, Refuse, Return, chainVars, budgetVars
<1>4. Forsaken'
  BY <1>3 DEF Forsaken
<1>5. calls'["cancelled"] = Nothing
  BY <1>1 DEF ProcessorStep, Revert, Apply, ApplyLast, WriteCursorOnly, Refuse, Return, MemoryTyped, Slots, Phases
<1>6. CASE Revert("live") \/ Apply("live")
  <2>1. lastSync' = lastSync /\ calls'["live"] # Nothing
    <3>1. lastSync' = lastSync
      BY <1>6 DEF Revert, Apply
    <3>2. calls'["live"] \in Call
      BY <1>1, <1>6, CallTyped DEF Revert, Apply, MemoryTyped, Slots, Call
    <3> QED
      BY <3>1, <3>2, NothingAssumption
  <2> QED
    BY <1>1, <1>3, <1>4, <1>5, <1>6, <2>1, RevertSafe, ApplySafe DEF Phases
<1>7. CASE ApplyLast("live") \/ WriteCursorOnly("live")
  <2>1. StoreSound' /\ Loaded' = lastSync'
    BY <1>7, ReturnSafe
  <2>2. calls'["live"] = Nothing
    BY <1>7 DEF ApplyLast, WriteCursorOnly, Return, MemoryTyped, Slots
  <2> QED
    BY <1>1, <1>3, <1>4, <1>5, <2>1, <2>2 DEF Phases
<1> QED
  BY <1>1, <1>2, <1>6, <1>7 DEF ProcessorStep

(* A death, and the wipe of a reconfigure.                                  *)
LEMMA UpheavalStep ==
    ASSUME Sheltered, TypeOK, MemoryTyped, Phases, Forsaken, StoreSound,
           Crash \/ Reconfigure \/ WipeState \/ WipeCursor \/ Reload
    PROVE  Phases' /\ Forsaken' /\ StoreSound'
<1>1. UNCHANGED <<branch, tip, abandoned>>
  BY DEF Crash, Reconfigure, WipeState, WipeCursor, Reload, chainVars
<1>2. Forsaken'
  BY <1>1 DEF Forsaken
<1>3. /\ plan \in Plans /\ plan.crashes \in Nat /\ plan.wipes \in Nat
      /\ crashes \in Nat /\ wipes \in Nat /\ wipes <= plan.wipes
  BY FaultsAssumption DEF TypeOK
<1>4. CASE Crash
  <2>1. plan.crashes # 0
    BY <1>3, <1>4 DEF Crash
  <2>2. wipe = "none"
    BY <1>3, <2>1 DEF Sheltered, Phases
  <2>3. /\ UNCHANGED <<applied, cursor, wipes>> /\ wipe' = "none" /\ lastSync' = Nothing /\ latest' = Nothing
        /\ calls'["live"] = Nothing /\ calls'["cancelled"] = Nothing /\ Loaded' = Loaded
    BY <1>4 DEF Crash, storeVars, NoCalls, Slots, Loaded
  <2>4. (Resumable(Loaded) /\ Unmixed(applied))'
    BY <1>1, <2>2, <2>3 DEF StoreSound, Resumable, Unmixed, LogsOf, getFromBlock
  <2> QED
    BY <1>2, <2>3, <2>4 DEF Phases, StoreSound
<1>5. CASE Reconfigure
  <2>1. /\ UNCHANGED <<applied, cursor, lastSync>> /\ wipe' = "state" /\ latest' = Nothing
        /\ wipes' > 0 /\ calls'["live"] = Nothing /\ calls'["cancelled"] = Nothing /\ lastSync # Nothing
    BY <1>3, <1>5 DEF Reconfigure, storeVars, Sheltered
  <2> QED
    BY <1>2, <2>1 DEF Phases, StoreSound
<1>6. CASE WipeState
  <2>1. applied' = {} /\ wipe' = "cursor" /\ wipe # "none" /\ UNCHANGED <<cursor, lastSync, latest, calls, wipes>>
    BY <1>6 DEF WipeState, budgetVars
  <2> QED
    BY <1>2, <2>1 DEF Phases, StoreSound
<1>7. CASE WipeCursor
  <2>1. /\ applied = {} /\ wipe # "none" /\ cursor' = Nothing /\ wipe' = "load"
        /\ UNCHANGED <<applied, lastSync, latest, calls, wipes>>
    BY <1>7 DEF WipeCursor, budgetVars, StoreSound
  <2> QED
    BY <1>2, <2>1 DEF Phases, StoreSound
<1>8. CASE Reload
  <2>1. /\ applied = {} /\ cursor = Nothing /\ wipe # "none" /\ wipe' = "none"
        /\ UNCHANGED <<applied, cursor, latest, calls, wipes>> /\ lastSync' = Loaded /\ Loaded' = FreshSync
    BY <1>8 DEF Reload, budgetVars, storeVars, StoreSound, Loaded
  <2>2. calls["live"] = Nothing /\ calls["cancelled"] = Nothing /\ latest = Nothing
    BY <2>1 DEF Phases
  <2>3. getFromBlock(Loaded)' = StartBlock
    BY <2>1 DEF getFromBlock, FreshSync
  <2>4. LogsOf(branch', StartBlock, StartBlock - 1) = {}
    BY HeightsTyped DEF LogsOf
  <2>5. tip' \in Nat
    BY <1>1, LoadedTyped
  <2>6. Resumable(Loaded)' /\ Unmixed(applied)'
    BY <2>1, <2>3, <2>4, <2>5 DEF Resumable, Unmixed, FreshSync
  <2>7. Loaded = FreshSync
    BY <2>1 DEF Loaded
  <2> QED
    BY <1>2, <2>1, <2>2, <2>6, <2>7 DEF Phases, StoreSound
<1> QED
  BY <1>4, <1>5, <1>6, <1>7, <1>8

(* Every step preserves the invariant. After a fault it says no more than   *)
(* the types.                                                               *)
LEMMA NextPreserves ==
    ASSUME Sheltered, IInv, [Next]_vars
    PROVE  IInv'
<1>1. TypeOK /\ MemoryTyped /\ TypeOK' /\ MemoryTyped'
  BY TypesKept DEF IInv
<1> SUFFICES ASSUME faults' = 0
             PROVE  Phases' /\ Forsaken' /\ StoreSound'
  BY <1>1 DEF IInv
<1>2. faults \in Nat
  BY FaultsAssumption, <1>1 DEF TypeOK
<1>3. CASE UNCHANGED vars
  <2>1. Phases /\ Forsaken /\ StoreSound
    BY <1>3 DEF IInv, vars, budgetVars
  <2>2. Loaded' = Loaded /\ UNCHANGED <<branch, tip, applied, cursor, lastSync, latest, calls, wipe, abandoned, wipes>>
    BY <1>3 DEF vars, budgetVars, Loaded
  <2>3. Phases' /\ Forsaken'
    BY <2>1, <2>2 DEF Phases, Forsaken
  <2>4. /\ Resumable(Loaded) => Resumable(Loaded)'
        /\ Unmixed(applied) => Unmixed(applied)'
        /\ InFlight(calls["live"]) => InFlight(calls["live"])'
    BY <2>2 DEF Resumable, Unmixed, InFlight, LogsOf, getFromBlock, KeptBelow
  <2> QED
    BY <2>1, <2>2, <2>3, <2>4 DEF StoreSound
<1>4. CASE Next
  <2>1. ~\E w \in Slots : Fault(w)
    BY <1>2 DEF Fault
  <2>2. faults' = faults
    BY <1>4, <2>1 DEF Next, Mine, Reorg, Load, ReadTip, Fetch, FetchNothing, ProcessorStep, Revert, Apply,
          ApplyLast, WriteCursorOnly, Return, Refuse, Crash, Reconfigure, WipeState, WipeCursor, Reload, budgetVars
  <2>3. Phases /\ Forsaken /\ StoreSound
    BY <2>2 DEF IInv
  <2> QED
    BY <1>1, <1>4, <2>1, <2>3, ChainStep, EngineStep, ProcessorStepSafe, UpheavalStep DEF Next
<1> QED
  BY <1>3, <1>4

-----------------------------------------------------------------------------

(* The invariant holds of every behaviour.                                  *)
THEOREM Invariance ==
    ASSUME Sheltered
    PROVE  Spec => []IInv
BY InitEstablishes, NextPreserves, PTL DEF Spec

(* Wherever the process dies, what is on disk can be resumed from, for any  *)
(* number of deaths and for wipes between cycles (applyBlock with its       *)
(* cursor, syncedThrough, reset).                                           *)
THEOREM RestartsAreSafe ==
    ASSUME Sheltered
    PROVE  Spec => []CycleSound
<1>1. IInv => CycleSound
  <2> SUFFICES ASSUME IInv, faults = 0, wipe = "none"
               PROVE  RestartSafe
    BY DEF IInv, CycleSound, RestartSafe
  <2>1. Resumable(Loaded) /\ TypeOK
    BY DEF IInv, StoreSound
  <2>2. CASE cursor = Nothing
    <3>1. Loaded = FreshSync /\ getFromBlock(Loaded) = StartBlock
      BY <2>2 DEF Loaded, FreshSync, getFromBlock
    <3>2. \A b \in applied : b.num \in Nat /\ StartBlock <= b.num
      BY <2>1, LoadedTyped DEF Resumable
    <3>3. applied = {}
      BY <2>1, <3>1, <3>2, HeightsTyped DEF Resumable, FreshSync
    <3> QED
      BY <2>2, <3>3 DEF RestartSafe
  <2>3. CASE cursor # Nothing
    <3>1. Loaded = cursor
      BY <2>3 DEF Loaded
    <3> QED
      BY <2>1, <2>3, <3>1 DEF Resumable, RestartSafe
  <2> QED
    BY <2>2, <2>3
<1> QED
  BY <1>1, Invariance, PTL

(* No block is handed to a store that holds it or a later one, whatever     *)
(* died before (applyBlock's refusal of a height below its tip).            *)
THEOREM NoBlockIsRefused ==
    ASSUME Sheltered
    PROVE  Spec => []NeverRefused
<1>1. IInv => NeverRefused
  <2> SUFFICES ASSUME IInv, faults = 0, NEW w \in Slots, Applying(w)
               PROVE  Accepts(applied, NextBlock(w))
    BY DEF NeverRefused
  <2>1. w = "live" /\ calls["live"] # Nothing /\ InFlight(calls["live"]) /\ TypeOK /\ MemoryTyped
    BY DEF IInv, Phases, StoreSound, Applying, Slots
  <2> QED
    BY <2>1, NextIsAbove
<1> QED
  BY <1>1, Invariance, PTL

(* A cycle that returns leaves the state equal to the chain that it was     *)
(* served, whatever died or was wiped before it (promiseToIndex).           *)
THEOREM CyclesEndOnChain ==
    ASSUME Sheltered
    PROVE  Spec => CycleEndsOnChain
<1> DEFINE Ends == \A w \in Slots :
                     faults = 0 /\ (ApplyLast(w) \/ WriteCursorOnly(w)) =>
                        {b \in applied' : b.num <= lastSync'.lastToBlock} = calls[w].chain
<1>1. IInv /\ [Next]_vars => [Ends]_vars
  <2> SUFFICES ASSUME IInv, NEW w \in Slots, faults = 0, ApplyLast(w) \/ WriteCursorOnly(w)
               PROVE  {b \in applied' : b.num <= lastSync'.lastToBlock} = calls[w].chain
    OBVIOUS
  <2>1. TypeOK /\ MemoryTyped /\ Phases /\ StoreSound
    BY DEF IInv
  <2>2. w = "live" /\ calls[w] # Nothing /\ InFlight(calls[w])
    BY <2>1 DEF ApplyLast, WriteCursorOnly, Applying, Phases, StoreSound, Slots
  <2>3. applied' = calls[w].chain /\ lastSync' = calls[w].sync
    BY <2>1, <2>2, ReturnSafe DEF ApplyLast, WriteCursorOnly, Return
  <2>4. PICK served \in Branches : calls[w].chain = LogsOf(served, StartBlock, calls[w].sync.lastToBlock)
    BY <2>2 DEF InFlight
  <2>5. calls[w].sync.lastToBlock \in Nat
    BY <2>1, <2>2, CallTyped, HeightsTyped DEF LastSync
  <2>6. \A x \in calls[w].chain : x.num <= calls[w].sync.lastToBlock
    BY <2>4, <2>5, HeightsTyped DEF LogsOf
  <2> QED
    BY <2>3, <2>6
<1> QED
  BY <1>1, Invariance, PTL DEF Spec, CycleEndsOnChain
=============================================================================
