-------------------------- MODULE LogFetcherProofs --------------------------
(***************************************************************************)
(* For every node, chain, configuration and number of fetchers: what the   *)
(* receiver is sent is whole, and a fetcher stops only on a block that     *)
(* cannot be had. The one thing asked of the operator is the one the code  *)
(* asks for: where a node may cut an answer in silence, the count that is  *)
(* held for suspicious is at most the node's cap.                          *)
(***************************************************************************)
EXTENDS LogFetcher, WellFoundedInduction, TLAPS

(* A cap that a node keeps in silence is known: asserted, or above the      *)
(* default (suspectResultCount).                                            *)
SilenceIsNoticed ==
    \A p \in Plans :
        "silent" \in p.node.tooMany =>
            IF p.asserted # Nothing THEN p.asserted <= p.node.cap ELSE p.default <= p.node.cap

(* No two blocks from here on fit an answer: the one case in which a width  *)
(* survives a refusal that names a block (getNewToBlockFromError).          *)
Crowded(me) == LogsIn(me.from, me.from + 1) > node.cap

(* A range may end above the tip it was cut to only where it is refused.    *)
Reaches(me, to) == to <= me.latest \/ Crowded(me)

(* A fetcher in the middle of a cycle.                                      *)
Underway(me) ==
    /\ me.reported \in {Nothing, node.cap}
    /\ me.latest <= tip
    /\ me.pc = "fetch" =>
        /\ me.from <= me.latest
        /\ me.from <= me.until /\ Reaches(me, me.until)
        /\ me.from <= me.requested /\ Reaches(me, me.requested)
    /\ me.pc = "push" => ~me.short /\ me.from <= me.to /\ me.to <= me.latest
    /\ me.pc = "stopped" =>
        /\ me.from <= tip
        /\ me.from < node.archive \/ LogsIn(me.from, me.from) >= suspectResultCount(me)

IInv == ReceivedWhole /\ \A s \in plan.senders : Underway(fetcher[s])
-----------------------------------------------------------------------------
(* The node and the configuration of a plan.                                *)
LEMMA PlanTyped ==
    ASSUME plan \in Plans
    PROVE  /\ node.below \in [Start -> Nat]
           /\ \A g, h \in Start : g <= h => node.below[g] <= node.below[h]
           /\ node.span \in Widths /\ node.cap \in Widths /\ node.archive \in Height
           /\ plan.maxBlocks \in Widths /\ plan.maxEvents \in Widths
           /\ plan.numRetry \in Widths /\ plan.attempts \in Widths
           /\ plan.asserted \in Maybe(Widths) /\ plan.default \in Widths
           /\ plan.learned \in [ceiling : Maybe(Nat), safe : Maybe(Nat), size : Maybe(Nat)]
<1>1. plan.node \in Node
  BY FetcherAssumption
<1>2. /\ node.below \in [Start -> Nat]
      /\ node.span \in Widths /\ node.cap \in Widths /\ node.archive \in Height
  BY <1>1 DEF Node, node
<1>3. \A g, h \in Start : g <= h => node.below[g] <= node.below[h]
  BY FetcherAssumption DEF node
<1> QED
  BY <1>2, <1>3, FetcherAssumption

(* Heights are numbers.                                                     *)
LEMMA HeightTyped == Height \subseteq Start /\ Start \subseteq Nat /\ MaxHeight \in Nat
BY HeightAssumption DEF Height, Start

(* The logs of a range cut at a height.                                     *)
Carried(from, to, at) == node.below[Smaller(to, at) + 1] - node.below[from]

(* A wider range, or a higher chain, has no fewer logs.                     *)
LEMMA CarriedGrows ==
    ASSUME plan \in Plans, NEW from \in Nat, NEW to \in Nat, NEW wider \in Nat,
           NEW at \in Height, NEW above \in Height,
           from <= to, to <= wider, from <= at, at <= above
    PROVE  /\ Carried(from, to, at) \in Nat
           /\ Carried(from, to, at) <= Carried(from, wider, above)
<1>1. /\ node.below \in [Start -> Nat]
      /\ \A g, h \in Start : g <= h => node.below[g] <= node.below[h]
  BY PlanTyped
<1>2. at \in Nat /\ above \in Nat /\ above <= MaxHeight /\ MaxHeight \in Nat
  BY HeightTyped DEF Height
<1> DEFINE last == Smaller(to, at)
           later == Smaller(wider, above)
<1>3. last \in Nat /\ later \in Nat /\ from <= last /\ last <= later /\ later <= MaxHeight
  BY <1>2 DEF Smaller
<1> HIDE DEF last, later
<1>4. from \in Start /\ last + 1 \in Start /\ later + 1 \in Start
  BY <1>2, <1>3 DEF Start
<1>5. /\ node.below[from] \in Nat /\ node.below[last + 1] \in Nat /\ node.below[later + 1] \in Nat
      /\ node.below[from] <= node.below[last + 1] /\ node.below[last + 1] <= node.below[later + 1]
  BY <1>1, <1>3, <1>4
<1> QED
  BY <1>5 DEF Carried, last, later

(* The same of the node as it is.                                           *)
LEMMA LogsGrow ==
    ASSUME plan \in Plans, tip \in Height,
           NEW from \in Nat, from <= tip, NEW to \in Nat, from <= to
    PROVE  /\ LogsIn(from, to) \in Nat
           /\ \A wider \in Nat : to <= wider => LogsIn(from, to) <= LogsIn(from, wider)
<1>1. tip <= tip
  BY HeightTyped
<1>2. \A wider : LogsIn(from, wider) = Carried(from, wider, tip)
  BY DEF LogsIn, Carried
<1>3. ASSUME NEW wider \in Nat, to <= wider
      PROVE  LogsIn(from, to) <= LogsIn(from, wider)
  BY <1>1, <1>2, <1>3, CarriedGrows
<1> QED
  BY <1>1, <1>2, <1>3, CarriedGrows

-----------------------------------------------------------------------------
(* What a fetcher learns about widths leaves the rest of it alone.          *)
Learns(me, you) ==
    /\ you \in Fetcher
    /\ you.pc = me.pc /\ you.hint = me.hint /\ you.from = me.from /\ you.latest = me.latest
    /\ you.requested = me.requested /\ you.until = me.until /\ you.retry = me.retry
    /\ you.tries = me.tries /\ you.corrections = me.corrections
    /\ you.to = me.to /\ you.short = me.short /\ you.reported = me.reported

(* A ceiling is only lowered, and is a width.                               *)
LEMMA CeilingLearned ==
    ASSUME plan \in Plans, NEW me \in Fetcher, NEW cap \in Maybe(Nat)
    PROVE  Learns(me, lowerBlockCeilingTo(me, cap)) /\ lowerBlockCeilingTo(me, cap).size = me.size
<1>1. plan.maxBlocks \in Widths /\ Nothing \notin Nat
  BY PlanTyped, FetcherAssumption
<1>2. CASE cap = Nothing \/ cap = 0
  BY <1>2 DEF lowerBlockCeilingTo, Learns
<1>3. CASE ~(cap = Nothing \/ cap = 0)
  <2> DEFINE ceiling == Smaller(IF me.ceiling = Nothing THEN plan.maxBlocks ELSE me.ceiling, cap)
             safe == IF me.safe # Nothing /\ me.safe >= ceiling THEN Nothing ELSE me.safe
  <2>1. me.ceiling \in Maybe(Widths) /\ me.safe \in Maybe(Widths)
    BY DEF Fetcher
  <2>2. cap \in Widths
    BY <1>3 DEF Widths, Maybe
  <2>3. ceiling \in Maybe(Widths)
    BY <1>1, <2>1, <2>2 DEF Smaller, Widths, Maybe
  <2>4. safe \in Maybe(Widths)
    BY <2>1 DEF Maybe
  <2>5. lowerBlockCeilingTo(me, cap) = [me EXCEPT !.ceiling = ceiling, !.safe = safe]
    BY <1>3 DEF lowerBlockCeilingTo
  <2> HIDE DEF ceiling, safe
  <2>6. [me EXCEPT !.ceiling = ceiling, !.safe = safe] \in Fetcher
    BY <2>3, <2>4 DEF Fetcher
  <2> QED
    BY <2>5, <2>6 DEF Learns, Fetcher
<1> QED
  BY <1>2, <1>3

(* What an earlier run learned is taken where it could be right.            *)
LEMMA SeedLearned ==
    ASSUME plan \in Plans, NEW me \in Fetcher,
           NEW seed \in [ceiling : Maybe(Nat), safe : Maybe(Nat), size : Maybe(Nat)]
    PROVE  Learns(me, seedLearnedRange(me, seed))
<1>1. plan.maxBlocks \in Widths /\ Nothing \notin Nat
  BY PlanTyped, FetcherAssumption
<1>2. seed.ceiling \in Maybe(Nat) /\ seed.safe \in Maybe(Nat) /\ seed.size \in Maybe(Nat)
  OBVIOUS
<1> DEFINE capped == lowerBlockCeilingTo(me, seed.ceiling)
           safe == IF Configured(seed.safe) /\ (capped.ceiling # Nothing => seed.safe < capped.ceiling)
                   THEN Smaller(seed.safe, plan.maxBlocks) ELSE capped.safe
           size == IF Configured(seed.size) THEN Smaller(seed.size, plan.maxBlocks) ELSE capped.size
<1>3. Learns(me, capped)
  BY <1>2, CeilingLearned
<1> HIDE DEF capped
<1>4. capped \in Fetcher /\ capped.safe \in Maybe(Widths) /\ capped.size \in Widths
  BY <1>3 DEF Learns, Fetcher
<1>5. safe \in Maybe(Widths)
  BY <1>1, <1>2, <1>4 DEF Configured, Smaller, Maybe, Widths
<1>6. size \in Widths
  BY <1>1, <1>2, <1>4 DEF Configured, Smaller, Maybe, Widths
<1>7. seedLearnedRange(me, seed) = [capped EXCEPT !.safe = safe, !.size = size]
  BY DEF seedLearnedRange, capped
<1> HIDE DEF safe, size
<1>8. [capped EXCEPT !.safe = safe, !.size = size] \in Fetcher
  BY <1>4, <1>5, <1>6 DEF Fetcher
<1> QED
  BY <1>3, <1>4, <1>7, <1>8 DEF Learns, Fetcher

(* A process that has just started knows of nothing but what was learned.   *)
LEMMA NewTyped ==
    ASSUME plan \in Plans
    PROVE  NewFetcher \in Fetcher /\ NewFetcher.pc = "idle" /\ NewFetcher.latest = 0 /\ NewFetcher.reported = Nothing
<1> DEFINE blank == [pc |-> "idle", hint |-> Nothing, from |-> 0, latest |-> 0, requested |-> 0, until |-> 0,
         retry |-> 0, tries |-> 0, corrections |-> 0, to |-> 0, short |-> FALSE,
         ceiling |-> Nothing, safe |-> Nothing, size |-> Smaller(AtStart, plan.maxBlocks),
         reported |-> Nothing]
<1>1. Smaller(AtStart, plan.maxBlocks) \in Widths
  BY PlanTyped DEF Smaller, AtStart, Widths
<1>2. 0 \in Height /\ 0 \in Start
  BY HeightAssumption DEF Height, Start
<1>3. blank \in Fetcher
  BY <1>1, <1>2 DEF Fetcher, Maybe
<1>4. blank.pc = "idle" /\ blank.latest = 0 /\ blank.reported = Nothing
  OBVIOUS
<1>5. NewFetcher = seedLearnedRange(blank, plan.learned)
  BY DEF NewFetcher
<1> HIDE DEF blank
<1>6. Learns(blank, NewFetcher)
  BY <1>3, <1>5, SeedLearned, PlanTyped
<1> QED
  BY <1>4, <1>6 DEF Learns

(* A bisection stays under the ceiling, and never asks for no block.        *)
LEMMA BisectedBounds ==
    ASSUME NEW me, me.safe \in Maybe(Widths), me.ceiling \in Widths
    PROVE  Bisected(me) \in Widths /\ Bisected(me) <= me.ceiling
BY FetcherAssumption DEF Bisected, Larger, Smaller, Maybe, Widths

(* What a node may answer in place of logs.                                 *)
Refusal == [kind : {"stated", "wide", "mute", "named", "counted", "archive"}, to : Nat]

(* The width after a refusal is within what was refused, unless the node    *)
(* named the first block of the range.                                      *)
LEMMA NextWidthBounds ==
    ASSUME NEW me \in Fetcher, NEW err \in Refusal, NEW to \in Nat,
           me.from <= to, err.kind = "named" => err.to <= to
    PROVE  /\ NextWidth(me, err, to) \in Widths
           /\ \/ me.from + NextWidth(me, err, to) - 1 <= to
              \/ err.kind = "named" /\ err.to <= me.from
<1>1. me.from \in Nat /\ me.size \in Widths /\ err.to \in Nat /\ Nothing \notin Nat
  BY HeightTyped, FetcherAssumption DEF Fetcher, Refusal
<1>2. CASE err.kind = "named"
  <2> DEFINE wanted == err.to - me.from + 1
  <2>1. NextWidth(me, err, to) = IF wanted > 1 THEN (wanted * 80) \div 100 ELSE me.size
    BY <1>1, <1>2 DEF NextWidth, getNewToBlockFromError, Percent
  <2>2. CASE wanted > 1
    BY <1>1, <1>2, <2>1, <2>2 DEF Widths
  <2>3. CASE ~(wanted > 1)
    BY <1>1, <1>2, <2>1, <2>3 DEF Widths
  <2> QED
    BY <2>2, <2>3
<1>3. CASE err.kind # "named"
  <2> DEFINE refused == to - me.from
  <2>1. NextWidth(me, err, to) = IF refused > 1 THEN refused \div 2 ELSE 1
    BY <1>1, <1>3 DEF NextWidth, getNewToBlockFromError
  <2> QED
    BY <1>1, <2>1 DEF Widths
<1> QED
  BY <1>2, <1>3

(* A refusal narrows the fetcher's width and nothing else.                  *)
LEMMA NarrowedLearns ==
    ASSUME plan \in Plans, NEW me \in Fetcher, NEW err \in Refusal, NEW to \in Nat,
           me.from <= to, err.kind = "named" => err.to <= to
    PROVE  /\ Learns(me, Narrowed(me, err, to))
           /\ \/ me.from + Narrowed(me, err, to).size - 1 <= to
              \/ err.kind = "named" /\ err.to <= me.from
<1> DEFINE stated == lowerBlockCeilingTo(me, statedBlockCapFromError(err))
           capped == IF err.kind = "wide" THEN lowerBlockCeilingTo(stated, to - me.from) ELSE stated
           sized == [capped EXCEPT !.size = NextWidth(me, err, to)]
<1>1. me.from \in Nat
  BY HeightTyped DEF Fetcher
<1>2. statedBlockCapFromError(err) \in Maybe(Nat)
  BY PlanTyped DEF statedBlockCapFromError, Maybe, Widths
<1>3. Learns(me, stated)
  BY <1>2, CeilingLearned
<1> HIDE DEF stated
<1>4. to - me.from \in Maybe(Nat)
  BY <1>1 DEF Maybe
<1>5. Learns(me, capped)
  <2>1. CASE err.kind = "wide"
    <3>1. stated \in Fetcher
      BY <1>3 DEF Learns
    <3>2. Learns(stated, lowerBlockCeilingTo(stated, to - me.from))
      BY <1>4, <3>1, CeilingLearned
    <3>3. Learns(me, lowerBlockCeilingTo(stated, to - me.from))
      BY <1>3, <3>2 DEF Learns
    <3> QED
      BY <2>1, <3>3
  <2>2. CASE err.kind # "wide"
    BY <1>3, <2>2
  <2> QED
    BY <2>1, <2>2
<1> HIDE DEF capped
<1>6. NextWidth(me, err, to) \in Widths
  BY NextWidthBounds
<1>7. capped \in Fetcher
  BY <1>5 DEF Learns
<1>8. /\ sized \in Fetcher /\ sized.size = NextWidth(me, err, to)
      /\ Learns(me, sized)
  <2>1. sized \in Fetcher
    BY <1>6, <1>7 DEF Fetcher
  <2>2. sized.size = NextWidth(me, err, to)
    BY <1>7 DEF Fetcher
  <2>3. Learns(capped, sized)
    BY <1>7, <2>1 DEF Learns, Fetcher
  <2> QED
    BY <1>5, <2>1, <2>2, <2>3 DEF Learns
<1>9. Narrowed(me, err, to) = IF sized.ceiling # Nothing /\ sized.ceiling < sized.size
                               THEN [sized EXCEPT !.size = Bisected(sized)] ELSE sized
  BY DEF Narrowed, capped, stated
<1> HIDE DEF sized
<1>10. CASE sized.ceiling # Nothing /\ sized.ceiling < sized.size
  <2>1. sized.ceiling \in Widths /\ sized.safe \in Maybe(Widths)
    BY <1>8, <1>10 DEF Fetcher, Maybe
  <2>2. Bisected(sized) \in Widths /\ Bisected(sized) <= sized.ceiling
    BY <2>1, BisectedBounds
  <2>3. [sized EXCEPT !.size = Bisected(sized)] \in Fetcher
    BY <1>8, <2>2 DEF Fetcher
  <2>4. Learns(sized, Narrowed(me, err, to)) /\ Narrowed(me, err, to).size = Bisected(sized)
    BY <1>8, <1>9, <1>10, <2>3 DEF Learns, Fetcher
  <2>5. Learns(me, Narrowed(me, err, to))
    BY <1>8, <2>4 DEF Learns
  <2>6. Narrowed(me, err, to).size <= NextWidth(me, err, to)
    BY <1>6, <1>8, <1>10, <2>1, <2>2, <2>4 DEF Widths
  <2> QED
    BY <1>1, <1>6, <2>2, <2>4, <2>5, <2>6, NextWidthBounds DEF Widths
<1>11. CASE ~(sized.ceiling # Nothing /\ sized.ceiling < sized.size)
  BY <1>8, <1>9, <1>11, NextWidthBounds
<1> QED
  BY <1>10, <1>11

(* An answer widens the fetcher's width and nothing else.                   *)
LEMMA WidenedLearns ==
    ASSUME plan \in Plans, NEW me \in Fetcher, NEW to \in Nat, me.from <= to, NEW n \in Nat
    PROVE  Learns(me, Widened(me, to, n))
<1> DEFINE width == to - me.from + 1
           target == Larger(1, (plan.maxEvents * Percent) \div 100)
           kept == IF me.safe = Nothing THEN width ELSE Larger(me.safe, width)
           safe == [me EXCEPT !.safe = kept]
           size == IF safe.ceiling # Nothing THEN Bisected(safe)
                   ELSE IF n = 0 THEN plan.maxBlocks
                   ELSE Smaller(plan.maxBlocks, Larger(1, (target * width) \div n))
<1>1. /\ me.from \in Nat /\ me.safe \in Maybe(Widths) /\ Nothing \notin Nat
      /\ plan.maxBlocks \in Widths /\ plan.maxEvents \in Widths
  BY HeightTyped, PlanTyped, FetcherAssumption DEF Fetcher
<1>2. width \in Widths
  BY <1>1 DEF Widths
<1>3. target \in Widths
  BY <1>1 DEF Larger, Percent, Widths
<1> HIDE DEF width, target
<1>4. kept \in Widths
  BY <1>1, <1>2 DEF Larger, Maybe, Widths
<1> HIDE DEF kept
<1>5. safe \in Fetcher /\ safe.ceiling = me.ceiling /\ safe.safe = kept /\ Learns(me, safe)
  <2>1. safe \in Fetcher
    BY <1>4 DEF Fetcher, Maybe
  <2> QED
    BY <2>1 DEF Learns, Fetcher
<1> HIDE DEF safe
<1>6. size \in Widths
  <2>1. CASE safe.ceiling # Nothing
    <3>1. safe.ceiling \in Widths /\ safe.safe \in Maybe(Widths)
      BY <1>4, <1>5, <2>1 DEF Fetcher, Maybe
    <3> QED
      BY <2>1, <3>1, BisectedBounds
  <2>2. CASE safe.ceiling = Nothing /\ n = 0
    BY <1>1, <2>2
  <2>3. CASE safe.ceiling = Nothing /\ n # 0
    <3>1. target * width \in Int
      BY <1>2, <1>3 DEF Widths
    <3>2. (target * width) \div n \in Int
      BY <2>3, <3>1
    <3> HIDE DEF size
    <3>3. size = Smaller(plan.maxBlocks, Larger(1, (target * width) \div n))
      BY <2>3 DEF size
    <3> QED
      BY <1>1, <3>2, <3>3 DEF Smaller, Larger, Widths
  <2> QED
    BY <2>1, <2>2, <2>3
<1>7. Widened(me, to, n) = [safe EXCEPT !.size = size]
  BY DEF Widened, safe, kept, width, target
<1> HIDE DEF size
<1>8. Widened(me, to, n) \in Fetcher
  BY <1>5, <1>6, <1>7 DEF Fetcher
<1>9. Learns(safe, Widened(me, to, n))
  BY <1>5, <1>7, <1>8 DEF Learns, Fetcher
<1> QED
  BY <1>5, <1>9 DEF Learns

-----------------------------------------------------------------------------
(* The order of heights, as a relation.                                     *)
Under == {pair \in Nat \X Nat : pair[1] < pair[2]}

(* Blocks of a range have a highest.                                        *)
LEMMA HighestExists ==
    ASSUME NEW to \in Nat, NEW N \in SUBSET (0 .. to), N # {}
    PROVE  Max(N) \in N /\ \A n \in N : n <= Max(N)
<1> DEFINE Rest == {r \in Nat : \E n \in N : r = to - n}
<1>1. Rest \subseteq Nat /\ Rest # {}
  <2>1. PICK n \in N : TRUE
    OBVIOUS
  <2>2. to - n \in Rest
    BY <2>1
  <2> QED
    BY <2>2
<1>2. IsWellFoundedOn(Under, Nat)
  BY NatLessThanWellFounded, Zenon DEF OpToRel, Under
<1> HIDE DEF Rest
<1>3. PICK r \in Rest : \A q \in Rest : ~(<<q, r>> \in Under)
  BY <1>1, <1>2, WFMin, Zenon
<1>4. \A q \in Rest : r <= q
  <2>1. r \in Nat
    BY <1>1
  <2>2. \A q \in Rest : q \in Nat /\ ~(q < r)
    BY <1>1, <1>3, <2>1 DEF Under
  <2> QED
    BY <2>1, <2>2
<1>5. PICK h \in N : r = to - h
  BY <1>3 DEF Rest
<1>6. \A n \in N : h >= n
  BY <1>4, <1>5 DEF Rest
<1>7. \E x \in N : \A y \in N : x >= y
  BY <1>6
<1>8. Max(N) \in N /\ \A y \in N : Max(N) >= y
  BY <1>7, Zenon DEF Max
<1> QED
  BY <1>8

(* What is asked for starts where the fetcher stands, and is within what    *)
(* was wanted.                                                              *)
LEMMA AskedToBounds ==
    ASSUME NEW me \in Fetcher, me.from <= me.until
    PROVE  /\ AskedTo(me) \in Nat /\ me.from \in Nat /\ me.until \in Nat
           /\ me.from <= AskedTo(me) /\ AskedTo(me) <= me.until
<1>1. me.from \in Nat /\ me.until \in Nat /\ me.size \in Widths
  BY HeightTyped DEF Fetcher
<1> QED
  BY <1>1 DEF AskedTo, Smaller, Widths

(* A refusal says what it may say, and a block it names is in the range: if *)
(* it is the first, no two blocks fit.                                      *)
LEMMA RefusalTyped ==
    ASSUME plan \in Plans, tip \in Height, NEW me \in Fetcher,
           me.from <= me.until, me.from <= tip, NEW err \in Refusals(me)
    PROVE  /\ err \in Refusal
           /\ err.kind = "named" => err.to <= AskedTo(me) /\ (err.to <= me.from => Crowded(me))
           /\ err.kind = "archive" => me.from < node.archive
<1> DEFINE to == AskedTo(me)
           Fit == {me.from} \cup {h \in me.from .. to : LogsIn(me.from, h) <= node.cap}
           last == LastThatFits(me.from, to)
<1>1. to \in Nat /\ me.from \in Nat /\ me.from <= to
  BY AskedToBounds
<1> HIDE DEF to
<1>2. last \in Fit /\ \A h \in Fit : h <= last
  <2>1. Fit \in SUBSET (0 .. to) /\ Fit # {}
    BY <1>1
  <2>2. last = Max(Fit)
    BY DEF LastThatFits
  <2> HIDE DEF Fit, last
  <2> QED
    BY <1>1, <2>1, <2>2, HighestExists
<1> HIDE DEF last
<1>3. last \in Nat /\ me.from <= last /\ last <= to
  BY <1>1, <1>2
<1>4. node.tooWide \subseteq {"stated", "wide", "mute"} /\ node.tooMany \subseteq {"named", "counted", "mute", "silent"}
  BY FetcherAssumption DEF node, Node
<1>5. err.to = last /\ err = [kind |-> err.kind, to |-> last]
  BY DEF Refusals, last, to
<1>6. \/ err.kind = "archive" /\ me.from < node.archive
      \/ err.kind \in node.tooWide
      \/ err.kind \in node.tooMany \ {"silent"} /\ TooMany(me)
  BY DEF Refusals
<1>7. err \in Refusal
  BY <1>3, <1>4, <1>5, <1>6 DEF Refusal
<1>8. ASSUME err.kind = "named", err.to <= me.from
      PROVE  Crowded(me)
  <2>1. LogsIn(me.from, to) > node.cap
    BY <1>4, <1>6, <1>8 DEF TooMany, to
  <2>2. node.cap \in Nat /\ LogsIn(me.from, to) \in Nat
    BY <1>1, PlanTyped, LogsGrow DEF Widths
  <2>3. CASE to = me.from
    <3>1. LogsIn(me.from, to) <= LogsIn(me.from, to + 1) /\ LogsIn(me.from, to + 1) \in Nat
      BY <1>1, LogsGrow
    <3> QED
      BY <2>1, <2>2, <2>3, <3>1 DEF Crowded
  <2>4. CASE to # me.from
    <3>1. me.from + 1 \in me.from .. to
      BY <1>1, <2>4
    <3>2. ~(me.from + 1 \in Fit)
      BY <1>1, <1>2, <1>3, <1>5, <1>8
    <3>3. ~(LogsIn(me.from, me.from + 1) <= node.cap)
      BY <3>1, <3>2
    <3>4. LogsIn(me.from, me.from + 1) \in Nat
      BY <1>1, LogsGrow
    <3> QED
      BY <2>2, <3>3, <3>4 DEF Crowded
  <2> QED
    BY <2>3, <2>4
<1> QED
  BY <1>3, <1>4, <1>5, <1>6, <1>7, <1>8 DEF to

-----------------------------------------------------------------------------
(* What a step makes of one fetcher.                                        *)
Sound(me) == me \in Fetcher /\ Underway(me)

(* Between cycles a fetcher keeps its hint and what it was told.            *)
LEMMA IdleSound ==
    ASSUME plan \in Plans, tip \in Height, NEW me \in Fetcher, me.reported \in {Nothing, node.cap}
    PROVE  Sound(Idle(me)) /\ \A hint \in Maybe(Start) : Sound([Idle(me) EXCEPT !.hint = hint])
<1>1. 0 \in Height /\ 0 \in Start /\ 0 <= tip
  BY HeightTyped DEF Height, Start
<1>2. Idle(me) \in Fetcher
  BY <1>1 DEF Fetcher, Idle
<1>3. Idle(me).pc = "idle" /\ Idle(me).latest = 0 /\ Idle(me).reported = me.reported
  BY DEF Fetcher, Idle
<1>4. ASSUME NEW hint \in Maybe(Start)
      PROVE  Sound([Idle(me) EXCEPT !.hint = hint])
  <2> DEFINE you == [Idle(me) EXCEPT !.hint = hint]
  <2>1. you \in Fetcher
    BY <1>2 DEF Fetcher
  <2>2. you.pc = "idle" /\ you.latest = 0 /\ you.reported = me.reported
    BY <1>2, <1>3 DEF Fetcher
  <2> HIDE DEF you
  <2>3. Sound(you)
    BY <1>1, <2>1, <2>2 DEF Sound, Underway
  <2> QED
    BY <2>3 DEF you
<1> QED
  BY <1>1, <1>2, <1>3, <1>4 DEF Sound, Underway

(* A fetcher that stops stands on the block it could not have.              *)
LEMMA StoppedSound ==
    ASSUME plan \in Plans, tip \in Height, NEW me \in Fetcher, me.reported \in {Nothing, node.cap},
           me.from <= tip,
           me.from < node.archive \/ LogsIn(me.from, me.from) >= suspectResultCount(me)
    PROVE  Sound(Stopped(me))
<1> DEFINE you == Stopped(me)
<1>1. 0 \in Height /\ 0 \in Start /\ 0 <= tip
  BY HeightTyped DEF Height, Start
<1>2. you \in Fetcher
  <2>1. Idle(me) \in Fetcher
    BY <1>1 DEF Fetcher, Idle
  <2> QED
    BY <2>1 DEF Stopped, Fetcher
<1>3. you.pc = "stopped" /\ you.from = me.from /\ you.latest = 0 /\ you.reported = me.reported
  BY DEF Fetcher, Idle, Stopped
<1> HIDE DEF you
<1>4. suspectResultCount(you) = suspectResultCount(me)
  BY <1>3 DEF suspectResultCount
<1>5. Sound(you)
  BY <1>1, <1>2, <1>3, <1>4 DEF Sound, Underway
<1> QED
  BY <1>5 DEF you

(* Only what Underway speaks of matters to it.                              *)
LEMMA UnderwayKept ==
    ASSUME NEW me, NEW you, Underway(me),
           you.pc = me.pc, you.from = me.from, you.latest = me.latest, you.requested = me.requested,
           you.until = me.until, you.to = me.to, you.short = me.short, you.reported = me.reported
    PROVE  Underway(you)
<1>1. Crowded(you) = Crowded(me) /\ suspectResultCount(you) = suspectResultCount(me)
  BY DEF Crowded, suspectResultCount
<1> QED
  BY <1>1 DEF Underway, Reaches

(* A failure uses up a try, or ends the cycle.                              *)
LEMMA FailedSound ==
    ASSUME plan \in Plans, tip \in Height, NEW me \in Fetcher, me.reported \in {Nothing, node.cap},
           NEW again, Sound(again), again.tries = me.tries
    PROVE  Sound(Failed(me, again))
<1>1. CASE me.tries > 1
  <2> DEFINE you == [again EXCEPT !.tries = @ - 1]
  <2>1. me.tries \in Nat
    BY DEF Fetcher
  <2>2. again.tries - 1 \in Nat
    BY <1>1, <2>1
  <2>3. you \in Fetcher
    BY <2>2 DEF Fetcher, Sound
  <2>4. Underway(you)
    <3>1. /\ you.pc = again.pc /\ you.from = again.from /\ you.latest = again.latest
          /\ you.requested = again.requested /\ you.until = again.until /\ you.to = again.to
          /\ you.short = again.short /\ you.reported = again.reported
      BY DEF Fetcher, Sound
    <3> HIDE DEF you
    <3> QED
      BY <3>1, UnderwayKept DEF Sound
  <2> QED
    BY <1>1, <2>3, <2>4 DEF Failed, Sound
<1>2. CASE ~(me.tries > 1)
  BY <1>2, IdleSound DEF Failed
<1> QED
  BY <1>1, <1>2

(* A refused fetcher asks for less, or again for what it wanted, or gives   *)
(* up the cycle, or stops where the archive begins.                         *)
LEMMA RefusedSound ==
    ASSUME plan \in Plans, tip \in Height, NEW me, Sound(me), me.pc = "fetch",
           NEW err \in Refusal,
           err.kind = "named" => err.to <= AskedTo(me) /\ (err.to <= me.from => Crowded(me)),
           err.kind = "archive" => me.from < node.archive
    PROVE  Sound(RefusedBy(me, err))
<1> DEFINE told == recordReportedResultCap(me, reportedResultCapFromError(err))
           narrowed == Narrowed(told, err, AskedTo(me))
<1>1. /\ me \in Fetcher /\ me.reported \in {Nothing, node.cap}
      /\ me.latest <= tip /\ me.from <= me.latest /\ me.from <= me.until /\ me.from <= me.requested
      /\ Reaches(me, me.until) /\ Reaches(me, me.requested)
  BY DEF Sound, Underway
<1>2. /\ AskedTo(me) \in Nat /\ me.from \in Nat /\ me.until \in Nat
      /\ me.from <= AskedTo(me) /\ AskedTo(me) <= me.until
  BY <1>1, AskedToBounds
<1>3. me.latest \in Nat /\ tip \in Nat /\ me.requested \in Nat
  BY <1>1, HeightTyped DEF Fetcher
<1>4. /\ told \in Fetcher /\ told.reported \in {Nothing, node.cap}
      /\ told.pc = me.pc /\ told.from = me.from /\ told.latest = me.latest
      /\ told.requested = me.requested /\ told.until = me.until /\ told.to = me.to
      /\ told.short = me.short /\ told.retry = me.retry /\ told.tries = me.tries
  <2>1. CASE told = me
    BY <1>1, <2>1
  <2>2. CASE told # me
    <3>1. told = [me EXCEPT !.reported = node.cap]
      BY <2>2 DEF recordReportedResultCap, reportedResultCapFromError
    <3>2. node.cap \in Widths
      BY PlanTyped
    <3> HIDE DEF told
    <3>3. told \in Fetcher
      BY <1>1, <3>1, <3>2 DEF Fetcher, Maybe
    <3> QED
      BY <1>1, <3>1, <3>3 DEF Fetcher
  <2> QED
    BY <2>1, <2>2
<1>5. RefusedBy(me, err) =
        IF err.kind = "archive" THEN Stopped(me)
        ELSE IF me.retry = 0 THEN Failed(told, Asking(told, told.requested))
        ELSE [narrowed EXCEPT !.until = narrowed.from + narrowed.size - 1, !.retry = @ - 1]
  BY DEF RefusedBy, archiveRefusalFromError
<1> HIDE DEF told
<1>6. CASE err.kind = "archive"
  <2>1. me.from <= tip
    BY <1>1, <1>2, <1>3
  <2> QED
    BY <1>1, <1>5, <1>6, <2>1, StoppedSound
<1>7. CASE err.kind # "archive" /\ me.retry = 0
  <2> DEFINE again == Asking(told, told.requested)
  <2>1. plan.numRetry \in Nat
    BY PlanTyped DEF Widths
  <2>2. again \in Fetcher
    BY <1>3, <1>4, <2>1 DEF Fetcher, Asking
  <2>3. /\ again.pc = "fetch" /\ again.from = me.from /\ again.latest = me.latest
        /\ again.requested = me.requested /\ again.until = me.requested
        /\ again.reported = told.reported /\ again.tries = told.tries
    BY <1>4 DEF Fetcher, Asking
  <2> HIDE DEF again
  <2>4. Reaches(again, me.requested)
    BY <1>1, <2>3 DEF Reaches, Crowded
  <2>5. Sound(again)
    BY <1>1, <1>4, <2>2, <2>3, <2>4 DEF Sound, Underway
  <2>6. Sound(Failed(told, again))
    BY <1>4, <2>3, <2>5, FailedSound
  <2> QED
    BY <1>5, <1>7, <2>6 DEF again
<1>8. CASE err.kind # "archive" /\ me.retry # 0
  <2> DEFINE until == narrowed.from + narrowed.size - 1
             you == [narrowed EXCEPT !.until = until, !.retry = @ - 1]
  <2>1. /\ Learns(told, narrowed)
        /\ \/ told.from + narrowed.size - 1 <= AskedTo(me)
           \/ err.kind = "named" /\ err.to <= told.from
    BY <1>2, <1>4, NarrowedLearns
  <2> HIDE DEF narrowed
  <2>2. narrowed \in Fetcher /\ narrowed.size \in Widths /\ narrowed.from = me.from /\ narrowed.retry = me.retry
    BY <1>4, <2>1 DEF Learns, Fetcher
  <2>3. until \in Nat /\ me.from <= until
    BY <1>2, <2>2 DEF Widths
  <2>4. narrowed.retry - 1 \in Nat
    BY <1>1, <1>8, <2>2 DEF Fetcher
  <2>5. until <= me.until \/ Crowded(me)
    BY <1>2, <1>4, <2>1, <2>2, <2>3
  <2> HIDE DEF until
  <2>6. you \in Fetcher
    BY <2>2, <2>3, <2>4 DEF Fetcher
  <2>7. /\ you.pc = "fetch" /\ you.from = me.from /\ you.latest = me.latest
        /\ you.requested = me.requested /\ you.until = until /\ you.reported = told.reported
    BY <1>4, <2>1, <2>2 DEF Learns, Fetcher
  <2>8. RefusedBy(me, err) = you
    BY <1>5, <1>8 DEF until
  <2> HIDE DEF you
  <2>9. Reaches(you, until) /\ Reaches(you, me.requested)
    BY <1>1, <1>2, <1>3, <2>3, <2>5, <2>7 DEF Reaches, Crowded
  <2> QED
    BY <1>1, <1>4, <2>3, <2>6, <2>7, <2>8, <2>9 DEF Sound, Underway
<1> QED
  BY <1>6, <1>7, <1>8

(* The numbers of a fetcher.                                                *)
LEMMA FetcherTyped ==
    ASSUME tip \in Height, NEW me \in Fetcher
    PROVE  /\ me.from \in Nat /\ me.from \in Start /\ me.until \in Nat /\ me.requested \in Nat
           /\ me.latest \in Nat /\ me.latest <= MaxHeight /\ me.latest \in Height
           /\ me.to \in Nat /\ me.to \in Height
           /\ tip \in Nat /\ tip <= MaxHeight /\ MaxHeight \in Nat
<1>1. me.from \in Start /\ me.until \in Nat /\ me.requested \in Nat /\ me.latest \in Height /\ me.to \in Height
  BY DEF Fetcher
<1>2. me.from \in Nat /\ MaxHeight \in Nat
  BY <1>1, HeightTyped
<1>3. /\ me.latest \in Nat /\ me.latest <= MaxHeight /\ me.to \in Nat
      /\ tip \in Nat /\ tip <= MaxHeight
  BY <1>1, <1>2 DEF Height
<1> QED
  BY <1>1, <1>2, <1>3

(* What comes back for a range: all of it, or the cap in silence.           *)
LEMMA AnswerTyped ==
    ASSUME plan \in Plans, tip \in Height, NEW me, Sound(me), me.pc = "fetch", NEW answer \in Answers(me)
    PROVE  LET logs == LogsIn(me.from, AskedTo(me)) IN
           /\ answer.logs \in Nat /\ logs \in Nat /\ answer.logs <= logs
           /\ \/ answer.short = FALSE /\ logs <= node.cap
              \/ answer.short = TRUE /\ answer.logs = node.cap /\ "silent" \in node.tooMany
<1> DEFINE logs == LogsIn(me.from, AskedTo(me))
<1>1. me \in Fetcher /\ me.from <= me.until /\ me.from <= me.latest /\ me.latest <= tip
  BY DEF Sound, Underway
<1>2. AskedTo(me) \in Nat /\ me.from \in Nat /\ me.from <= AskedTo(me)
  BY <1>1, AskedToBounds
<1>3. me.from <= tip
  BY <1>1, FetcherTyped
<1>4. logs \in Nat
  BY <1>2, <1>3, LogsGrow
<1>5. node.cap \in Nat
  BY PlanTyped DEF Widths
<1> HIDE DEF logs
<1>6. CASE ~TooMany(me)
  <2>1. answer = [logs |-> logs, short |-> FALSE]
    BY <1>6 DEF Answers, logs
  <2>2. ~(logs > node.cap)
    BY <1>6 DEF TooMany, logs
  <2> QED
    BY <1>4, <1>5, <2>1, <2>2 DEF logs
<1>7. CASE TooMany(me)
  <2>1. answer = [logs |-> node.cap, short |-> TRUE] /\ "silent" \in node.tooMany
    BY <1>7 DEF Answers
  <2>2. logs > node.cap
    BY <1>7 DEF TooMany, logs
  <2> QED
    BY <1>4, <1>5, <2>1, <2>2 DEF logs
<1> QED
  BY <1>6, <1>7

(* A cap that is kept in silence is always suspicious.                      *)
LEMMA SilentIsSuspect ==
    ASSUME SilenceIsNoticed, plan \in Plans, "silent" \in node.tooMany,
           NEW me, me.reported \in {Nothing, node.cap}
    PROVE  Suspect(me, node.cap)
<1>1. IF plan.asserted # Nothing THEN plan.asserted <= node.cap ELSE plan.default <= node.cap
  BY DEF SilenceIsNoticed, node
<1>2. node.cap \in Nat /\ plan.asserted \in Maybe(Nat) /\ plan.default \in Nat /\ Nothing \notin Nat
  BY PlanTyped, FetcherAssumption DEF Widths, Maybe
<1> QED
  BY <1>1, <1>2 DEF Suspect, suspectResultCount, Maybe

(* A range that was answered is halved while its size is suspicious, pushed *)
(* if it is whole, and never ends above the tip it was cut to.              *)
LEMMA AnsweredSound ==
    ASSUME SilenceIsNoticed, plan \in Plans, tip \in Height, NEW me, Sound(me), me.pc = "fetch",
           NEW answer \in Answers(me)
    PROVE  LET to == AskedTo(me)
               wide == Widened(me, to, answer.logs)
               half == wide.from + (to - wide.from) \div 2
           IN Sound(IF Suspect(wide, answer.logs)
                    THEN IF to <= wide.from THEN Stopped(wide)
                         ELSE [Asking(Calls(wide, "fetch"), half) EXCEPT !.requested = half]
                    ELSE IF to > wide.latest THEN Stopped(wide)
                    ELSE [Calls(wide, "push") EXCEPT !.to = to, !.short = answer.short])
<1> DEFINE to == AskedTo(me)
           logs == LogsIn(me.from, to)
           wide == Widened(me, to, answer.logs)
           half == wide.from + (to - wide.from) \div 2
           asks == [Asking(Calls(wide, "fetch"), half) EXCEPT !.requested = half]
           sends == [Calls(wide, "push") EXCEPT !.to = to, !.short = answer.short]
<1>1. /\ me \in Fetcher /\ me.reported \in {Nothing, node.cap}
      /\ me.latest <= tip /\ me.from <= me.latest /\ me.from <= me.until
      /\ Reaches(me, me.until)
  BY DEF Sound, Underway
<1>2. to \in Nat /\ me.from \in Nat /\ me.until \in Nat /\ me.from <= to /\ to <= me.until
  BY <1>1, AskedToBounds
<1>3. me.latest \in Nat /\ tip \in Nat /\ me.from <= tip
  BY <1>1, FetcherTyped
<1>4. /\ answer.logs \in Nat /\ logs \in Nat /\ answer.logs <= logs
      /\ \/ answer.short = FALSE /\ logs <= node.cap
         \/ answer.short = TRUE /\ answer.logs = node.cap /\ "silent" \in node.tooMany
  BY AnswerTyped
<1>5. Learns(me, wide)
  BY <1>1, <1>2, <1>4, WidenedLearns
<1> HIDE DEF to, logs, wide
<1>6. /\ wide \in Fetcher /\ wide.pc = "fetch" /\ wide.from = me.from /\ wide.latest = me.latest
      /\ wide.reported = me.reported
  BY <1>5 DEF Learns
<1>7. answer.short = TRUE => Suspect(wide, answer.logs)
  BY <1>1, <1>4, <1>6, SilentIsSuspect
<1>8. plan.numRetry \in Nat /\ plan.attempts \in Nat /\ node.cap \in Nat
  BY PlanTyped DEF Widths
<1>9. ASSUME Suspect(wide, answer.logs), to <= wide.from
      PROVE  Sound(Stopped(wide))
  <2>1. to = me.from
    BY <1>2, <1>6, <1>9
  <2>2. LogsIn(wide.from, wide.from) = logs
    BY <1>6, <2>1 DEF logs
  <2>3. suspectResultCount(wide) \in Nat
    BY <1>1, <1>6, <1>8, PlanTyped, FetcherAssumption DEF suspectResultCount, Maybe, Widths
  <2>4. logs >= suspectResultCount(wide)
    BY <1>4, <1>9, <2>3 DEF Suspect
  <2> QED
    BY <1>1, <1>3, <1>6, <2>2, <2>4, StoppedSound
<1>10. ASSUME ~(to <= wide.from)
       PROVE  Sound(asks)
  <2>1. half \in Nat /\ me.from <= half /\ half <= to
    BY <1>2, <1>6
  <2> HIDE DEF half
  <2>2. Reaches(me, half)
    BY <1>1, <1>2, <1>3, <2>1 DEF Reaches
  <2>3. Asking(Calls(wide, "fetch"), half) \in Fetcher
    BY <1>6, <1>8, <2>1 DEF Fetcher, Asking, Calls
  <2>4. asks \in Fetcher
    BY <2>1, <2>3 DEF Fetcher
  <2>5. /\ asks.pc = "fetch" /\ asks.from = me.from /\ asks.latest = me.latest
        /\ asks.until = half /\ asks.requested = half /\ asks.reported = me.reported
    BY <1>6 DEF Fetcher, Asking, Calls
  <2> HIDE DEF asks
  <2>6. Reaches(asks, half)
    BY <2>2, <2>5 DEF Reaches, Crowded
  <2> QED
    BY <1>1, <2>1, <2>4, <2>5, <2>6 DEF Sound, Underway
<1>11. ASSUME ~Suspect(wide, answer.logs)
       PROVE  ~(to > wide.latest)
  <2>1. logs <= node.cap
    BY <1>4, <1>7, <1>11
  <2>2. SUFFICES ASSUME to > me.latest PROVE FALSE
    BY <1>6
  <2>3. Crowded(me)
    BY <1>1, <1>2, <1>3, <2>2 DEF Reaches
  <2>4. me.from + 1 \in Nat /\ me.from + 1 <= to
    BY <1>1, <1>2, <1>3, <2>2
  <2>5. LogsIn(me.from, me.from + 1) \in Nat /\ LogsIn(me.from, me.from + 1) <= logs
    BY <1>2, <1>3, <2>4, LogsGrow DEF logs
  <2> QED
    BY <1>4, <1>8, <2>1, <2>3, <2>5 DEF Crowded
<1>12. ASSUME ~Suspect(wide, answer.logs), ~(to > wide.latest)
       PROVE  Sound(sends)
  <2>1. answer.short = FALSE
    BY <1>4, <1>7, <1>12
  <2>2. to \in Height /\ to <= me.latest
    BY <1>1, <1>2, <1>6, <1>12, FetcherTyped DEF Height
  <2>3. Calls(wide, "push") \in Fetcher
    BY <1>6, <1>8 DEF Fetcher, Calls
  <2>4. sends \in Fetcher
    BY <2>1, <2>2, <2>3 DEF Fetcher
  <2>5. /\ sends.pc = "push" /\ sends.from = me.from /\ sends.latest = me.latest
        /\ sends.to = to /\ sends.short = FALSE /\ sends.reported = me.reported
    BY <1>6, <2>1 DEF Fetcher, Calls
  <2> HIDE DEF sends
  <2> QED
    BY <1>1, <1>2, <2>2, <2>4, <2>5 DEF Sound, Underway
<1> QED
  BY <1>9, <1>10, <1>11, <1>12 DEF to, wide

-----------------------------------------------------------------------------
(* Where the receiver wants the next batch to start.                        *)
LEMMA ExpectedTyped ==
    ASSUME NEW s \in LastSync
    PROVE  /\ getFromBlock(s) \in Start /\ getFromBlock(s) \in Nat
           /\ getFromBlock(s) = StartBlock \/ (s.latestBlock # 0 /\ getFromBlock(s) <= s.lastToBlock + 1)
<1>1. /\ s.latestBlock \in Nat /\ s.latestBlock <= MaxHeight
      /\ s.lastToBlock \in Nat /\ s.lastToBlock <= MaxHeight
  BY HeightTyped DEF LastSync, Height
<1>2. StartBlock \in Nat /\ StartBlock <= MaxHeight /\ MaxHeight \in Nat /\ Finality \in Nat
  BY HeightAssumption, FinalityAssumption DEF Height
<1> QED
  BY <1>1, <1>2 DEF getFromBlock, Larger, Smaller, Start

(* A start the receiver named is fetched from, or there is nothing to do.   *)
LEMMA FetchingSound ==
    ASSUME plan \in Plans, tip \in Height, NEW me \in Fetcher, me.reported \in {Nothing, node.cap},
           me.latest <= tip, NEW from \in Start
    PROVE  Sound(Fetching(me, from))
<1>1. CASE from > me.latest
  BY <1>1, IdleSound DEF Fetching
<1>2. CASE ~(from > me.latest)
  <2> DEFINE you == [Asking(Calls(me, "fetch"), me.latest) EXCEPT !.from = from, !.requested = me.latest]
  <2>1. /\ me.latest \in Nat /\ from \in Nat /\ plan.numRetry \in Nat /\ plan.attempts \in Nat
    BY FetcherTyped, HeightTyped, PlanTyped DEF Widths
  <2>2. you \in Fetcher
    BY <2>1 DEF Fetcher, Asking, Calls
  <2>3. /\ you.pc = "fetch" /\ you.from = from /\ you.latest = me.latest
        /\ you.until = me.latest /\ you.requested = me.latest /\ you.reported = me.reported
    BY DEF Fetcher, Asking, Calls
  <2>4. Fetching(me, from) = you
    BY <1>2 DEF Fetching
  <2> HIDE DEF you
  <2>5. from <= me.latest
    BY <1>2, <2>1
  <2>6. Reaches(you, me.latest)
    BY <2>1, <2>3 DEF Reaches
  <2> QED
    BY <2>2, <2>3, <2>4, <2>5, <2>6 DEF Sound, Underway
<1> QED
  BY <1>1, <1>2

(* A batch that the receiver takes joins on to what it has, and is whole.   *)
LEMMA ReceivesWhole ==
    ASSUME IInv, NEW s \in plan.senders, At(s, "push"), receive(fetcher[s])
    PROVE  /\ sync' \in LastSync /\ whole' \subseteq Height
           /\ sync'.latestBlock # 0 => StartBlock .. sync'.lastToBlock \subseteq whole'
<1> DEFINE me == fetcher[s]
<1>1. /\ me \in Fetcher /\ me.short = FALSE /\ me.from <= me.to /\ sync \in LastSync /\ whole \subseteq Height
      /\ sync.latestBlock # 0 => StartBlock .. sync.lastToBlock \subseteq whole
  <2>1. me \in Fetcher /\ Underway(me) /\ me.pc = "push"
    BY DEF IInv, ReceivedWhole, TypeOK, At
  <2> QED
    BY <2>1 DEF IInv, ReceivedWhole, TypeOK, Underway
<1>2. /\ me.from = getFromBlock(sync)
      /\ sync' = [sync EXCEPT !.latestBlock = me.latest, !.lastToBlock = me.to]
      /\ whole' = whole \cup (me.from .. me.to)
  BY <1>1 DEF receive
<1> HIDE DEF me
<1>3. tip \in Height
  <2>1. tip \in StartBlock .. MaxHeight
    BY DEF IInv, ReceivedWhole, TypeOK
  <2>2. StartBlock \in Nat /\ MaxHeight \in Nat
    BY HeightAssumption DEF Height
  <2> QED
    BY <2>1, <2>2 DEF Height
<1>4. me.from \in Nat /\ me.to \in Height /\ me.to \in Nat /\ me.latest \in Height
  BY <1>1, <1>3, FetcherTyped
<1>5. sync' \in LastSync
  BY <1>1, <1>2, <1>4 DEF LastSync
<1>6. whole' \subseteq Height
  <2>1. MaxHeight \in Nat /\ me.to <= MaxHeight
    BY <1>4, HeightTyped DEF Height
  <2>2. me.from .. me.to \subseteq Height
    BY <1>4, <2>1 DEF Height
  <2> QED
    BY <1>1, <1>2, <2>2
<1>7. sync'.lastToBlock = me.to
  BY <1>1, <1>2 DEF LastSync
<1>8. StartBlock .. me.to \subseteq whole'
  <2>1. me.from = StartBlock \/ (sync.latestBlock # 0 /\ me.from <= sync.lastToBlock + 1)
    BY <1>1, <1>2, ExpectedTyped
  <2>2. StartBlock \in Nat /\ sync.lastToBlock \in Nat
    BY <1>1, HeightAssumption, HeightTyped DEF LastSync
  <2> QED
    BY <1>1, <1>2, <1>4, <2>1, <2>2
<1> QED
  BY <1>5, <1>6, <1>7, <1>8

-----------------------------------------------------------------------------
(* The parts of the invariant.                                              *)
LEMMA InvariantParts ==
    ASSUME IInv
    PROVE  /\ plan \in Plans /\ tip \in Height /\ StartBlock <= tip
           /\ fetcher \in [plan.senders -> Fetcher] /\ sync \in LastSync
           /\ \A s \in plan.senders : Sound(fetcher[s]) /\ fetcher[s].reported \in {Nothing, node.cap}
                                        /\ fetcher[s].latest <= tip
<1>1. tip \in Height /\ StartBlock <= tip
  <2>1. tip \in StartBlock .. MaxHeight
    BY DEF IInv, ReceivedWhole, TypeOK
  <2>2. StartBlock \in Nat /\ MaxHeight \in Nat
    BY HeightAssumption DEF Height
  <2> QED
    BY <2>1, <2>2 DEF Height
<1>2. plan \in Plans /\ fetcher \in [plan.senders -> Fetcher] /\ sync \in LastSync
  BY DEF IInv, ReceivedWhole, TypeOK
<1>3. \A s \in plan.senders : Sound(fetcher[s])
  BY <1>2 DEF IInv, Sound
<1> QED
  BY <1>1, <1>2, <1>3 DEF Sound, Underway

(* A step of one fetcher leaves the others as they are.                     *)
LEMMA OneFetcherMoves ==
    ASSUME IInv, NEW s \in plan.senders, NEW you, Sound(you), Becomes(s, you), plan' = plan, tip' = tip
    PROVE  /\ fetcher' \in [plan'.senders -> Fetcher]
           /\ \A t \in plan'.senders : Underway(fetcher[t])'
<1>1. fetcher \in [plan.senders -> Fetcher] /\ \A t \in plan.senders : Underway(fetcher[t])
  BY InvariantParts DEF Sound
<1>2. fetcher' = [fetcher EXCEPT ![s] = you] /\ you \in Fetcher /\ Underway(you)
  BY DEF Becomes, Sound
<1>3. fetcher' \in [plan'.senders -> Fetcher]
  BY <1>1, <1>2
<1>4. \A t \in plan.senders : Underway(fetcher'[t])
  BY <1>1, <1>2
<1>5. ASSUME NEW t \in plan.senders
      PROVE  Underway(fetcher[t])' <=> Underway(fetcher'[t])
  <2>1. node' = node
    BY DEF node
  <2>2. \A from, to : LogsIn(from, to)' = LogsIn(from, to)
    BY <2>1 DEF LogsIn
  <2>3. suspectResultCount(fetcher[t])' = suspectResultCount(fetcher'[t])
    BY DEF suspectResultCount
  <2>4. Crowded(fetcher[t])' <=> Crowded(fetcher'[t])
    BY <2>1, <2>2 DEF Crowded
  <2> QED
    BY <2>1, <2>2, <2>3, <2>4 DEF Underway, Reaches
<1> QED
  BY <1>3, <1>4, <1>5

(* A step that only the fetcher sees.                                       *)
LEMMA AloneKeeps ==
    ASSUME IInv, NEW s \in plan.senders, NEW you, Sound(you), Becomes(s, you),
           plan' = plan, tip' = tip, sync' = sync, whole' = whole,
           losses' \in 0 .. plan.losses, faults' \in 0 .. plan.faults, restarts' \in 0 .. plan.restarts
    PROVE  IInv'
BY OneFetcherMoves DEF IInv, ReceivedWhole, TypeOK

(* A fetcher that asks where to start, or how high the chain is.            *)
LEMMA WaitingSound ==
    ASSUME plan \in Plans, NEW me \in Fetcher, me.reported \in {Nothing, node.cap}, me.latest <= tip,
           NEW pc \in {"ask", "tip"}, NEW hint \in Maybe(Start), NEW from \in Start
    PROVE  /\ Sound(Calls(me, pc))
           /\ Sound([Calls(me, pc) EXCEPT !.from = from])
           /\ Sound([Calls(me, pc) EXCEPT !.hint = hint, !.from = from])
<1>1. plan.attempts \in Nat
  BY PlanTyped DEF Widths
<1> DEFINE calls == Calls(me, pc)
           one == [calls EXCEPT !.from = from]
           two == [calls EXCEPT !.hint = hint, !.from = from]
<1>2. calls \in Fetcher /\ calls.pc = pc /\ calls.reported = me.reported /\ calls.latest = me.latest
  BY <1>1 DEF Fetcher, Calls
<1> HIDE DEF calls
<1>3. one \in Fetcher /\ one.pc = pc /\ one.reported = me.reported /\ one.latest = me.latest
  BY <1>2 DEF Fetcher
<1>4. two \in Fetcher /\ two.pc = pc /\ two.reported = me.reported /\ two.latest = me.latest
  BY <1>2 DEF Fetcher
<1> HIDE DEF one, two
<1>5. Sound(calls) /\ Sound(one) /\ Sound(two)
  BY <1>2, <1>3, <1>4 DEF Sound, Underway
<1> QED
  BY <1>5 DEF calls, one, two

(* Every step keeps the invariant.                                          *)
LEMMA StepKeeps ==
    ASSUME SilenceIsNoticed, IInv, [Next]_vars
    PROVE  IInv'
<1>1. /\ plan \in Plans /\ tip \in Height /\ StartBlock <= tip
      /\ fetcher \in [plan.senders -> Fetcher] /\ sync \in LastSync
      /\ losses \in 0 .. plan.losses /\ faults \in 0 .. plan.faults /\ restarts \in 0 .. plan.restarts
      /\ plan.losses \in Nat /\ plan.faults \in Nat /\ plan.restarts \in Nat
  BY InvariantParts, FetcherAssumption DEF IInv, ReceivedWhole, TypeOK
<1>2. ASSUME NEW s \in plan.senders
      PROVE  /\ Sound(fetcher[s]) /\ fetcher[s] \in Fetcher /\ fetcher[s].latest <= tip
             /\ fetcher[s].reported \in {Nothing, node.cap}
             /\ fetcher[s].from \in Start /\ fetcher[s].from \in Nat
             /\ fetcher[s].hint \in Maybe(Start)
  <2>1. Sound(fetcher[s]) /\ fetcher[s].reported \in {Nothing, node.cap} /\ fetcher[s].latest <= tip
    BY InvariantParts
  <2> QED
    BY <1>1, <2>1, FetcherTyped DEF Sound, Fetcher
<1>3. ASSUME NEW s \in plan.senders, NEW you, Alone(s, you), Sound(you)
      PROVE  IInv'
  BY <1>1, <1>3, AloneKeeps DEF Alone, counters
<1>4. CASE Mine
  <2>1. /\ tip' = tip + 1 /\ tip < MaxHeight /\ plan' = plan /\ fetcher' = fetcher /\ sync' = sync
        /\ whole' = whole /\ losses' = losses /\ faults' = faults /\ restarts' = restarts
    BY <1>4 DEF Mine, counters
  <2>2. tip \in Nat /\ StartBlock \in Nat /\ MaxHeight \in Nat
    BY <1>1, HeightAssumption, HeightTyped
  <2>3. tip' \in Height /\ tip' \in StartBlock .. MaxHeight /\ tip <= tip'
    BY <1>1, <2>1, <2>2 DEF Height
  <2>4. node' = node
    BY <2>1 DEF node
  <2>5. ASSUME NEW s \in plan.senders
        PROVE  Underway(fetcher[s])'
    <3> DEFINE me == fetcher[s]
    <3>1. fetcher'[s] = me /\ me \in Fetcher /\ Underway(me) /\ me.from \in Nat /\ me.latest \in Nat
      BY <1>1, <1>2, <2>1, FetcherTyped DEF Sound
    <3> HIDE DEF me
    <3>2. me.latest <= tip => me.latest <= tip'
      BY <2>1, <2>2, <3>1
    <3>3. suspectResultCount(fetcher[s])' = suspectResultCount(me)
      BY <2>1, <3>1 DEF suspectResultCount
    <3>4. ASSUME NEW to \in Nat, me.from <= tip, me.from <= to
          PROVE  /\ LogsIn(me.from, to) \in Nat
                 /\ Carried(me.from, to, tip') \in Nat
                 /\ LogsIn(me.from, to) <= Carried(me.from, to, tip')
      <4>1. LogsIn(me.from, to) = Carried(me.from, to, tip)
        BY DEF LogsIn, Carried
      <4>2. me.from <= tip' /\ to <= to
        BY <2>1, <2>2, <3>1, <3>4
      <4>3. /\ Carried(me.from, to, tip) \in Nat
            /\ Carried(me.from, to, tip) <= Carried(me.from, to, tip')
        BY <1>1, <2>3, <3>1, <3>4, <4>2, CarriedGrows
      <4>4. tip' <= tip'
        BY <2>1, <2>2
      <4>5. Carried(me.from, to, tip') \in Nat
        BY <1>1, <2>3, <3>1, <3>4, <4>2, <4>4, CarriedGrows
      <4> QED
        BY <4>1, <4>3, <4>5
    <3>5. /\ LogsIn(fetcher[s].from, fetcher[s].from + 1)' = Carried(me.from, me.from + 1, tip')
          /\ LogsIn(fetcher[s].from, fetcher[s].from)' = Carried(me.from, me.from, tip')
      BY <2>4, <3>1 DEF LogsIn, Carried
    <3>6. ASSUME me.from <= tip, Crowded(me)
          PROVE  Crowded(fetcher[s])'
      <4>1. LogsIn(me.from, me.from + 1) > node.cap /\ node.cap \in Nat
        BY <1>1, <3>6, PlanTyped DEF Crowded, Widths
      <4>2. /\ LogsIn(me.from, me.from + 1) \in Nat
            /\ Carried(me.from, me.from + 1, tip') \in Nat
            /\ LogsIn(me.from, me.from + 1) <= Carried(me.from, me.from + 1, tip')
        BY <3>1, <3>4, <3>6
      <4>3. Carried(me.from, me.from + 1, tip') > node.cap
        BY <4>1, <4>2
      <4> QED
        BY <2>4, <3>5, <4>3 DEF Crowded
    <3>7. ASSUME me.from <= tip, LogsIn(me.from, me.from) >= suspectResultCount(me)
          PROVE  LogsIn(fetcher[s].from, fetcher[s].from)' >= suspectResultCount(fetcher[s])'
      <4>1. /\ LogsIn(me.from, me.from) \in Nat
            /\ Carried(me.from, me.from, tip') \in Nat
            /\ LogsIn(me.from, me.from) <= Carried(me.from, me.from, tip')
        BY <3>1, <3>4, <3>7
      <4>2. suspectResultCount(me) \in Nat
        BY <1>1, <3>1, PlanTyped DEF suspectResultCount, Underway, Maybe, Widths
      <4> QED
        BY <3>3, <3>5, <3>7, <4>1, <4>2
    <3>8. me.pc = "fetch" => me.from <= tip
      BY <1>1, <2>2, <3>1 DEF Underway
    <3>9. me.from <= tip => me.from <= tip'
      BY <2>1, <2>2, <3>1
    <3> QED
      BY <2>1, <2>4, <3>1, <3>2, <3>8, <3>9, <3>6, <3>7 DEF Underway, Reaches
  <2> QED
    BY <1>1, <2>1, <2>3, <2>5 DEF IInv, ReceivedWhole, TypeOK
<1>5. ASSUME NEW s \in plan.senders, Begin(s)
      PROVE  IInv'
  <2> DEFINE me == fetcher[s]
             you == IF me.hint = Nothing THEN Calls(me, "ask") ELSE [Calls(me, "tip") EXCEPT !.from = me.hint]
  <2>1. Alone(s, you)
    BY <1>5 DEF Begin
  <2>2. Sound(you)
    <3>1. CASE me.hint = Nothing
      <4>1. Sound(Calls(me, "ask"))
        BY <1>1, <1>2, WaitingSound
      <4> QED
        BY <3>1, <4>1
    <3>2. CASE me.hint # Nothing
      <4>1. me.hint \in Start
        BY <1>2, <3>2 DEF Maybe
      <4>2. Sound([Calls(me, "tip") EXCEPT !.from = me.hint])
        BY <1>1, <1>2, <4>1, WaitingSound
      <4> QED
        BY <3>2, <4>2
    <3> QED
      BY <3>1, <3>2
  <2> QED
    BY <1>3, <2>1, <2>2
<1>6. ASSUME NEW s \in plan.senders, Ask(s)
      PROVE  IInv'
  <2>1. getFromBlock(sync) \in Start /\ getFromBlock(sync) \in Maybe(Start)
    BY <1>1, ExpectedTyped DEF Maybe
  <2>2. Sound([Calls(fetcher[s], "tip") EXCEPT !.hint = getFromBlock(sync), !.from = getFromBlock(sync)])
    BY <1>1, <1>2, <2>1, WaitingSound
  <2> QED
    BY <1>3, <1>6, <2>2 DEF Ask
<1>7. ASSUME NEW s \in plan.senders, ReadTip(s)
      PROVE  IInv'
  <2> DEFINE me == [fetcher[s] EXCEPT !.latest = tip]
  <2>1. me \in Fetcher /\ me.reported = fetcher[s].reported /\ me.latest = tip
    BY <1>1, <1>2 DEF Fetcher
  <2>2. tip <= tip
    BY <1>1, HeightTyped
  <2> HIDE DEF me
  <2>3. Sound(Fetching(me, fetcher[s].from))
    BY <1>1, <1>2, <2>1, <2>2, FetchingSound
  <2> QED
    BY <1>3, <1>7, <2>3 DEF ReadTip, me
<1>8. ASSUME NEW s \in plan.senders, Unavailable(s)
      PROVE  IInv'
  <2>1. Sound(Failed(fetcher[s], fetcher[s]))
    BY <1>1, <1>2, FailedSound
  <2>2. /\ Becomes(s, Failed(fetcher[s], fetcher[s])) /\ plan' = plan /\ tip' = tip /\ sync' = sync
        /\ whole' = whole /\ losses' = losses /\ restarts' = restarts
        /\ faults' = faults + 1 /\ faults < plan.faults
    BY <1>8 DEF Unavailable
  <2> QED
    BY <1>1, <2>1, <2>2, AloneKeeps
<1>9. ASSUME NEW s \in plan.senders, Refused(s)
      PROVE  IInv'
  <2>1. PICK err \in Refusals(fetcher[s]) : Alone(s, RefusedBy(fetcher[s], err))
    BY <1>9 DEF Refused
  <2>2. /\ fetcher[s].pc = "fetch" /\ fetcher[s].from <= fetcher[s].until
        /\ fetcher[s].from <= fetcher[s].latest
    BY <1>2, <1>9 DEF Refused, At, Sound, Underway
  <2>3. fetcher[s].from <= tip
    BY <1>1, <1>2, <2>2, FetcherTyped
  <2>4. Sound(RefusedBy(fetcher[s], err))
    BY <1>1, <1>2, <2>2, <2>3, RefusalTyped, RefusedSound
  <2> QED
    BY <1>3, <2>1, <2>4
<1>10. ASSUME NEW s \in plan.senders, NodeFails(s)
       PROVE  IInv'
  <2> DEFINE err == [kind |-> "mute", to |-> 0]
  <2>1. err \in Refusal /\ err.kind = "mute"
    BY DEF Refusal
  <2> HIDE DEF err
  <2>2. fetcher[s].pc = "fetch"
    BY <1>10 DEF NodeFails, At
  <2>3. Sound(RefusedBy(fetcher[s], err))
    BY <1>1, <1>2, <2>1, <2>2, RefusedSound
  <2>4. /\ Becomes(s, RefusedBy(fetcher[s], err)) /\ plan' = plan /\ tip' = tip /\ sync' = sync
        /\ whole' = whole /\ losses' = losses /\ restarts' = restarts
        /\ faults' = faults + 1 /\ faults < plan.faults
    BY <1>10 DEF NodeFails, err
  <2> QED
    BY <1>1, <2>3, <2>4, AloneKeeps
<1>11. ASSUME NEW s \in plan.senders, Answered(s)
       PROVE  IInv'
  <2>1. fetcher[s].pc = "fetch"
    BY <1>11 DEF Answered, At
  <2>2. PICK answer \in Answers(fetcher[s]) :
          LET to == AskedTo(fetcher[s])
              me == Widened(fetcher[s], to, answer.logs)
              half == me.from + (to - me.from) \div 2
          IN Alone(s, IF Suspect(me, answer.logs)
                      THEN IF to <= me.from THEN Stopped(me)
                           ELSE [Asking(Calls(me, "fetch"), half) EXCEPT !.requested = half]
                      ELSE IF to > me.latest THEN Stopped(me)
                      ELSE [Calls(me, "push") EXCEPT !.to = to, !.short = answer.short])
    BY <1>11 DEF Answered
  <2> QED
    BY <1>1, <1>2, <1>3, <2>1, <2>2, AnsweredSound
<1>12. ASSUME NEW s \in plan.senders, Pushed(s)
       PROVE  IInv'
  <2>1. /\ At(s, "push") /\ receive(fetcher[s])
        /\ Becomes(s, [Idle(fetcher[s]) EXCEPT !.hint = getFromBlock(sync')])
        /\ plan' = plan /\ tip' = tip /\ losses' = losses /\ faults' = faults /\ restarts' = restarts
    BY <1>12 DEF Pushed, counters
  <2>2. /\ sync' \in LastSync /\ whole' \subseteq Height
        /\ sync'.latestBlock # 0 => StartBlock .. sync'.lastToBlock \subseteq whole'
    BY <2>1, ReceivesWhole
  <2>3. getFromBlock(sync') \in Maybe(Start)
    BY <2>2, ExpectedTyped DEF Maybe
  <2>4. Sound([Idle(fetcher[s]) EXCEPT !.hint = getFromBlock(sync')])
    BY <1>1, <1>2, <2>3, IdleSound
  <2> QED
    BY <1>1, <2>1, <2>2, <2>4, OneFetcherMoves DEF IInv, ReceivedWhole, TypeOK
<1>13. ASSUME NEW s \in plan.senders, Corrected(s)
       PROVE  IInv'
  <2> DEFINE me == [fetcher[s] EXCEPT !.hint = getFromBlock(sync), !.corrections = @ + 1]
  <2>1. getFromBlock(sync) \in Start /\ getFromBlock(sync) \in Maybe(Start)
    BY <1>1, ExpectedTyped DEF Maybe
  <2>2. me \in Fetcher /\ me.reported = fetcher[s].reported /\ me.latest = fetcher[s].latest
    <3>1. fetcher[s].corrections + 1 \in Nat
      BY <1>2 DEF Fetcher
    <3>2. me \in Fetcher
      BY <1>2, <2>1, <3>1 DEF Fetcher
    <3> QED
      BY <1>2, <3>2 DEF Fetcher
  <2>3. Alone(s, IF me.corrections > plan.maxCorrections THEN Idle(me) ELSE Fetching(me, getFromBlock(sync)))
    BY <1>13 DEF Corrected
  <2> HIDE DEF me
  <2>4. Sound(Idle(me)) /\ Sound(Fetching(me, getFromBlock(sync)))
    BY <1>1, <1>2, <2>1, <2>2, IdleSound, FetchingSound
  <2> QED
    BY <1>3, <2>3, <2>4
<1>14. ASSUME NEW s \in plan.senders, PushLost(s)
       PROVE  IInv'
  <2> DEFINE hint == IF fetcher[s].tries > 1 THEN fetcher[s].hint ELSE Nothing
             me == [fetcher[s] EXCEPT !.hint = hint]
  <2>1. /\ At(s, "push") /\ (UNCHANGED <<sync, whole>> \/ receive(fetcher[s]))
        /\ Becomes(s, NotAcknowledged(fetcher[s]))
        /\ plan' = plan /\ tip' = tip /\ faults' = faults /\ restarts' = restarts
        /\ losses' = losses + 1 /\ losses < plan.losses
    BY <1>14 DEF PushLost
  <2>2. /\ sync' \in LastSync /\ whole' \subseteq Height
        /\ sync'.latestBlock # 0 => StartBlock .. sync'.lastToBlock \subseteq whole'
    <3>1. CASE UNCHANGED <<sync, whole>>
      BY <3>1 DEF IInv, ReceivedWhole, TypeOK
    <3>2. CASE receive(fetcher[s])
      BY <2>1, <3>2, ReceivesWhole
    <3> QED
      BY <2>1, <3>1, <3>2
  <2>3. hint \in Maybe(Start)
    BY <1>2 DEF Maybe
  <2>4. NotAcknowledged(fetcher[s]) = Failed(me, fetcher[s])
    BY DEF NotAcknowledged
  <2> HIDE DEF hint
  <2>5. me \in Fetcher /\ me.reported = fetcher[s].reported /\ me.tries = fetcher[s].tries
    BY <1>2, <2>3 DEF Fetcher
  <2> HIDE DEF me
  <2>6. Sound(NotAcknowledged(fetcher[s]))
    BY <1>1, <1>2, <2>4, <2>5, FailedSound
  <2>7. losses' \in 0 .. plan.losses
    BY <1>1, <2>1
  <2> QED
    BY <1>1, <2>1, <2>2, <2>6, <2>7, OneFetcherMoves DEF IInv, ReceivedWhole, TypeOK
<1>15. ASSUME NEW s \in plan.senders, Restart(s)
       PROVE  IInv'
  <2>1. /\ Becomes(s, NewFetcher) /\ plan' = plan /\ tip' = tip /\ sync' = sync
        /\ whole' = whole /\ losses' = losses /\ faults' = faults
        /\ restarts' = restarts + 1 /\ restarts < plan.restarts
    BY <1>15 DEF Restart
  <2>2. Sound(NewFetcher)
    <3>1. 0 <= tip
      BY <1>1, HeightTyped
    <3> QED
      BY <1>1, <3>1, NewTyped DEF Sound, Underway
  <2>3. restarts' \in 0 .. plan.restarts
    BY <1>1, <2>1
  <2> QED
    BY <1>1, <2>1, <2>2, <2>3, AloneKeeps
<1>16. CASE UNCHANGED vars
  <2>1. /\ plan' = plan /\ tip' = tip /\ fetcher' = fetcher /\ sync' = sync /\ whole' = whole
        /\ losses' = losses /\ faults' = faults /\ restarts' = restarts
    BY <1>16 DEF vars, counters
  <2> QED
    BY <2>1 DEF IInv, ReceivedWhole, TypeOK, Underway, Reaches, Crowded, LogsIn, suspectResultCount, node
<1>17. CASE \E s \in plan.senders : Cycle(s) \/ Unavailable(s) \/ NodeFails(s) \/ PushLost(s) \/ Restart(s)
  BY <1>17, <1>5, <1>6, <1>7, <1>8, <1>9, <1>10, <1>11, <1>12, <1>13, <1>14, <1>15 DEF Cycle
<1> QED
  BY <1>4, <1>16, <1>17 DEF Next

(* The invariant holds at the start.                                        *)
LEMMA InitInvariant == Init => IInv
<1> SUFFICES ASSUME Init PROVE IInv
  OBVIOUS
<1>1. /\ plan \in Plans /\ tip \in StartBlock .. MaxHeight /\ fetcher = [s \in plan.senders |-> NewFetcher]
      /\ sync = FreshSync /\ whole = {} /\ losses = 0 /\ faults = 0 /\ restarts = 0
  BY DEF Init
<1>2. plan.losses \in Nat /\ plan.faults \in Nat /\ plan.restarts \in Nat
  BY <1>1, FetcherAssumption
<1>3. NewFetcher \in Fetcher /\ Underway(NewFetcher)
  <2>1. StartBlock \in Nat /\ MaxHeight \in Nat
    BY HeightAssumption DEF Height
  <2>2. 0 <= tip
    BY <1>1, <2>1
  <2> QED
    BY <1>1, <2>2, NewTyped DEF Underway
<1>4. sync \in LastSync /\ sync.latestBlock = 0
  BY <1>1, HeightAssumption DEF FreshSync, LastSync, Height
<1>5. fetcher \in [plan.senders -> Fetcher] /\ \A s \in plan.senders : Underway(fetcher[s])
  BY <1>1, <1>3
<1> QED
  BY <1>1, <1>2, <1>4, <1>5 DEF IInv, ReceivedWhole, TypeOK

(* Whatever is refused, cut, lost, sent twice, or asked again after a death *)
(* (getLogs, fetchCompleteRange, fetchAndPush, receive), the invariant      *)
(* holds.                                                                   *)
THEOREM Invariance ==
    ASSUME SilenceIsNoticed
    PROVE  Spec => []IInv
<1>1. Init => IInv
  BY InitInvariant
<1>2. IInv /\ [Next]_vars => IInv'
  BY StepKeeps
<1> QED
  BY <1>1, <1>2, PTL DEF Spec

(* The receiver has every log of every block up to its cursor, for every    *)
(* node, configuration, chain and number of fetchers: a range whose size    *)
(* is suspicious is never pushed, and what is pushed joins on to what was   *)
(* received (fetchCompleteRange, receive).                                  *)
THEOREM ReceiverHasWhole ==
    ASSUME SilenceIsNoticed
    PROVE  Spec => []ReceivedWhole
<1>1. IInv => ReceivedWhole
  BY DEF IInv
<1> QED
  BY <1>1, Invariance, PTL

(* A fetcher stops only on a block the node does not serve, or one whose    *)
(* logs alone look cut. The end of a range that a refusal widened past the  *)
(* tip (RangeLogFetcher.getLogs) never stops it: such a range is refused    *)
(* again, or is suspicious, before it is checked against the tip.           *)
THEOREM StopsAreJustified ==
    ASSUME SilenceIsNoticed
    PROVE  Spec => []StopsOnlyForGood
<1>1. IInv => StopsOnlyForGood
  BY DEF IInv, Underway, StopsOnlyForGood
<1> QED
  BY <1>1, Invariance, PTL
=============================================================================
