----------------------------- MODULE LogFetcher ------------------------------
(***************************************************************************)
(* The fetching half of a split deployment. A fetcher holds no cursor: it  *)
(* asks the receiver where to start, or trusts the hint of its last        *)
(* answer, fetches a range as wide as the node will answer, and pushes it. *)
(* How wide that is it learns from the node's refusals, and whether an     *)
(* answer is whole it can only tell from its size. A range that is pushed  *)
(* short is read by the receiver as a reorg.                               *)
(*                                                                         *)
(* The receiver's cursor is LastSync without its window: what a batch does *)
(* to the stream is SharedStream's, what matters here is that the batches  *)
(* are whole and contiguous, and that they keep coming.                    *)
(***************************************************************************)
EXTENDS ReorgWindow, FiniteSetsExt

CONSTANTS
    Nothing,
    Senders,    \* fetchers of one source
    Plans       \* a node, how the fetchers are configured, and what may go wrong

Widths == Nat \ {0}
Maybe(S) == S \cup {Nothing}

(* Where a range may start: above the last block there is, too.             *)
Start == 0 .. MaxHeight + 1

(* A node caps the blocks of a query (span) and the logs of an answer       *)
(* (cap), and has its ways to say so: in words about blocks (stated), under *)
(* a code of its own (wide), by naming the block to stop at (named), by     *)
(* counting logs (counted), without a word (mute), or not at all (silent).  *)
(* Blocks below archive it does not serve. Which logs there are is said by  *)
(* how many lie below each height.                                          *)
Node == [below : [Start -> Nat], span : Widths, cap : Widths,
         tooWide : (SUBSET {"stated", "wide", "mute"}) \ {{}},
         tooMany : (SUBSET {"named", "counted", "mute", "silent"}) \ {{}},
         archive : Height]

LearnedRange == [ceiling : Maybe(Widths), safe : Maybe(Widths), size : Widths]

ASSUME FetcherAssumption ==
    /\ Nothing \notin Nat
    /\ \A p \in Plans :
        /\ p.senders \subseteq Senders
        /\ p.node \in Node
        /\ \A g, h \in Start : g <= h => p.node.below[g] <= p.node.below[h]
        /\ p.maxBlocks \in Widths /\ p.maxEvents \in Widths /\ p.numRetry \in Widths /\ p.attempts \in Widths
        /\ p.learned \in [ceiling : Maybe(Nat), safe : Maybe(Nat), size : Maybe(Nat)]
        /\ p.asserted \in Maybe(Widths) /\ p.default \in Widths
        /\ {p.maxCorrections, p.losses, p.faults, p.restarts} \subseteq Nat

VARIABLES
    plan,       \* it never changes
    tip,        \* the node: the height of the chain
    fetcher,    \* the fetchers
    sync,       \* the receiver: its cursor
    whole,      \* the receiver: the blocks it was sent with all their logs
    losses, faults, restarts

counters == <<losses, faults, restarts>>
vars == <<plan, tip, fetcher, sync, whole, counters>>

node == plan.node

Percent == 80       \* percentageToReach
AtStart == 2        \* numBlocksToFetchAtStart

Fetcher ==
    [pc : {"idle", "ask", "tip", "fetch", "push", "stopped"},
     hint : Maybe(Start), from : Start, latest : Height,
     requested : Nat, until : Nat, retry : Nat, tries : Nat, corrections : Nat,
     to : Height, short : BOOLEAN,
     ceiling : Maybe(Widths), safe : Maybe(Widths), size : Widths, reported : Maybe(Widths)]

-----------------------------------------------------------------------------
(* What the range fetcher knows of its node.                                *)

(* The only writer of the ceiling: it only ever lowers, and a safe span it  *)
(* contradicts is dropped.                                                  *)
lowerBlockCeilingTo(me, cap) ==
    IF cap = Nothing \/ cap = 0 THEN me
    ELSE LET ceiling == Smaller(IF me.ceiling = Nothing THEN plan.maxBlocks ELSE me.ceiling, cap)
         IN [me EXCEPT !.ceiling = ceiling, !.safe = IF @ # Nothing /\ @ >= ceiling THEN Nothing ELSE @]

(* configuredSpan                                                           *)
Configured(width) == width # Nothing /\ width # 0

(* What an earlier run reported, where it could be right.                   *)
seedLearnedRange(me, seed) ==
    LET capped == lowerBlockCeilingTo(me, seed.ceiling)
    IN [capped EXCEPT
          !.safe = IF Configured(seed.safe) /\ (capped.ceiling # Nothing => seed.safe < capped.ceiling)
                   THEN Smaller(seed.safe, plan.maxBlocks) ELSE @,
          !.size = IF Configured(seed.size) THEN Smaller(seed.size, plan.maxBlocks) ELSE @]

(* A process that has just started.                                         *)
NewFetcher ==
    seedLearnedRange(
        [pc |-> "idle", hint |-> Nothing, from |-> 0, latest |-> 0, requested |-> 0, until |-> 0,
         retry |-> 0, tries |-> 0, corrections |-> 0, to |-> 0, short |-> FALSE,
         ceiling |-> Nothing, safe |-> Nothing, size |-> Smaller(AtStart, plan.maxBlocks),
         reported |-> Nothing],
        plan.learned)

(* Between what was answered and what was refused, and never no block.      *)
Bisected(me) ==
    IF me.safe = Nothing THEN Larger(1, me.ceiling - 1)
    ELSE Larger(1, Smaller(me.safe + (me.ceiling - me.safe) \div 2, me.ceiling - 1))

(* The readers of a refusal.                                                *)
getNewToBlockFromError(err) == IF err.kind = "named" THEN err.to ELSE Nothing
statedBlockCapFromError(err) == IF err.kind = "stated" THEN node.span ELSE Nothing
reportedResultCapFromError(err) == IF err.kind \in {"named", "counted"} THEN node.cap ELSE Nothing
archiveRefusalFromError(err) == err.kind = "archive"

(* Only a lower report counts.                                              *)
recordReportedResultCap(me, cap) ==
    IF cap = Nothing \/ (me.reported # Nothing /\ cap >= me.reported) THEN me
    ELSE [me EXCEPT !.reported = cap]

(* A refusal that teaches nothing.                                          *)
WidthKept(me, err, to) == me.size

(* The width asked for after a refusal of from .. to.                       *)
NextWidth(me, err, to) ==
    LET clue == getNewToBlockFromError(err)
        wanted == clue - me.from + 1
        refused == to - me.from
    IN IF clue # Nothing
       THEN IF wanted > 1 THEN (wanted * Percent) \div 100 ELSE me.size
       ELSE IF refused > 1 THEN refused \div 2 ELSE 1

(* A refusal narrows what is asked next, under the ceiling it may lower.    *)
Narrowed(me, err, to) ==
    LET stated == lowerBlockCeilingTo(me, statedBlockCapFromError(err))
        capped == IF err.kind = "wide" THEN lowerBlockCeilingTo(stated, to - me.from) ELSE stated
        sized == [capped EXCEPT !.size = NextWidth(me, err, to)]
    IN IF sized.ceiling # Nothing /\ sized.ceiling < sized.size
       THEN [sized EXCEPT !.size = Bisected(sized)] ELSE sized

(* An answer of n logs for from .. to sets the next width: half way to the  *)
(* ceiling, or as many blocks as should fill 80% of an answer.              *)
Widened(me, to, n) ==
    LET width == to - me.from + 1
        target == Larger(1, (plan.maxEvents * Percent) \div 100)
        safe == [me EXCEPT !.safe = IF @ = Nothing THEN width ELSE Larger(@, width)]
    IN [safe EXCEPT !.size =
          IF safe.ceiling # Nothing THEN Bisected(safe)
          ELSE IF n = 0 THEN plan.maxBlocks
          ELSE Smaller(plan.maxBlocks, Larger(1, (target * width) \div n))]

-----------------------------------------------------------------------------
(* What the node answers.                                                   *)

LogsIn(from, to) == node.below[Smaller(to, tip) + 1] - node.below[from]

(* A range as wide as the node is thought to answer, whatever was asked.    *)
AskedToSize(me) == me.from + me.size - 1

(* The range getLogs asks for.                                              *)
AskedTo(me) == Smaller(me.until, me.from + me.size - 1)

TooWide(me) == AskedTo(me) - me.from >= node.span
TooMany(me) == LogsIn(me.from, AskedTo(me)) > node.cap

(* The block a node names: the last one whose logs still fit.               *)
LastThatFits(from, to) == Max({from} \cup {h \in from .. to : LogsIn(from, h) <= node.cap})

Refusals(me) ==
    LET kinds == IF me.from < node.archive THEN {"archive"}
                 ELSE IF TooWide(me) THEN node.tooWide
                 ELSE IF TooMany(me) THEN node.tooMany \ {"silent"}
                 ELSE {}
    IN {[kind |-> k, to |-> LastThatFits(me.from, AskedTo(me))] : k \in kinds}

(* How many logs came back, and whether some were left out.                 *)
Answers(me) ==
    IF me.from < node.archive \/ TooWide(me) THEN {}
    ELSE IF ~TooMany(me) THEN {[logs |-> LogsIn(me.from, AskedTo(me)), short |-> FALSE]}
    ELSE {[logs |-> node.cap, short |-> TRUE] : k \in node.tooMany \cap {"silent"}}

-----------------------------------------------------------------------------
(* One cycle of a fetcher.                                                  *)

Becomes(s, me) == fetcher' = [fetcher EXCEPT ![s] = me]
Alone(s, me) == Becomes(s, me) /\ UNCHANGED <<plan, tip, sync, whole, counters>>

At(s, pc) == fetcher[s].pc = pc

(* A call that withRetries makes, with all its attempts left.               *)
Calls(me, pc) == [me EXCEPT !.pc = pc, !.tries = plan.attempts]

(* Between cycles only the hint and what was learned remain.                *)
Idle(me) ==
    [me EXCEPT !.pc = "idle", !.from = 0, !.latest = 0, !.requested = 0, !.until = 0, !.retry = 0,
               !.tries = 0, !.corrections = 0, !.to = 0, !.short = FALSE]

Stopped(me) == [Idle(me) EXCEPT !.pc = "stopped", !.from = me.from]

Asking(me, to) == [me EXCEPT !.pc = "fetch", !.until = to, !.retry = plan.numRetry]

(* fetchCompleteRange, from a start the receiver named.                     *)
Fetching(me, from) ==
    IF from > me.latest THEN Idle(me)
    ELSE [Asking(Calls(me, "fetch"), me.latest) EXCEPT !.from = from, !.requested = me.latest]

(* Any failure that is worth another try.                                   *)
Failed(me, again) == IF me.tries > 1 THEN [again EXCEPT !.tries = @ - 1] ELSE Idle(me)

Begin(s) ==
    /\ At(s, "idle")
    /\ LET me == fetcher[s]
       IN Alone(s, IF me.hint = Nothing THEN Calls(me, "ask") ELSE [Calls(me, "tip") EXCEPT !.from = me.hint])

(* askWhereToStart                                                          *)
Ask(s) ==
    /\ At(s, "ask")
    /\ Alone(s, [Calls(fetcher[s], "tip") EXCEPT !.hint = getFromBlock(sync), !.from = getFromBlock(sync)])

ReadTip(s) ==
    /\ At(s, "tip")
    /\ Alone(s, Fetching([fetcher[s] EXCEPT !.latest = tip], fetcher[s].from))

(* The receiver or the node does not answer.                                *)
Unavailable(s) ==
    /\ faults < plan.faults
    /\ At(s, "ask") \/ At(s, "tip")
    /\ Becomes(s, Failed(fetcher[s], fetcher[s]))
    /\ faults' = faults + 1
    /\ UNCHANGED <<plan, tip, sync, whole, losses, restarts>>

(* getLogs, refused: what the refusal says narrows the next request, while  *)
(* this call has a retry left. The narrowed end is not capped again.        *)
RefusedBy(me, err) ==
    LET told == recordReportedResultCap(me, reportedResultCapFromError(err))
        narrowed == Narrowed(told, err, AskedTo(me))
    IN IF archiveRefusalFromError(err) THEN Stopped(me)
       ELSE IF me.retry = 0 THEN Failed(told, Asking(told, told.requested))
       ELSE [narrowed EXCEPT !.until = narrowed.from + narrowed.size - 1, !.retry = @ - 1]

Refused(s) ==
    /\ At(s, "fetch")
    /\ \E err \in Refusals(fetcher[s]) : Alone(s, RefusedBy(fetcher[s], err))

(* A node that fails for a moment looks like one that refuses.              *)
NodeFails(s) ==
    /\ faults < plan.faults
    /\ At(s, "fetch")
    /\ Becomes(s, RefusedBy(fetcher[s], [kind |-> "mute", to |-> 0]))
    /\ faults' = faults + 1
    /\ UNCHANGED <<plan, tip, sync, whole, losses, restarts>>

(* suspectResultCount: what is asserted, or what the node reported.         *)
suspectResultCount(me) ==
    IF plan.asserted # Nothing THEN plan.asserted
    ELSE IF me.reported # Nothing THEN me.reported
    ELSE plan.default

(* A count that is believed when it meets the cap exactly.                  *)
SuspectAbove(me, logs) == logs > suspectResultCount(me)

Suspect(me, logs) == logs >= suspectResultCount(me)

(* The range was answered: believe it, or ask for half of it.               *)
Answered(s) ==
    /\ At(s, "fetch")
    /\ \E answer \in Answers(fetcher[s]) :
         LET to == AskedTo(fetcher[s])
             me == Widened(fetcher[s], to, answer.logs)
             half == me.from + (to - me.from) \div 2
         IN Alone(s, IF Suspect(me, answer.logs)
                     THEN IF to <= me.from THEN Stopped(me)
                          ELSE [Asking(Calls(me, "fetch"), half) EXCEPT !.requested = half]
                     ELSE IF to > me.latest THEN Stopped(me)     \* assertWellFormed
                     ELSE [Calls(me, "push") EXCEPT !.to = to, !.short = answer.short])

-----------------------------------------------------------------------------
(* The receiver takes a batch that starts where its cursor says, and reads  *)
(* a log that is missing from it as one that was reorged away.              *)
receive(me) ==
    /\ me.from = getFromBlock(sync)
    /\ sync' = [sync EXCEPT !.latestBlock = me.latest, !.lastToBlock = me.to]
    /\ whole' = IF me.short THEN whole \ (me.from .. me.to) ELSE whole \cup (me.from .. me.to)

Pushed(s) ==
    /\ At(s, "push")
    /\ receive(fetcher[s])
    /\ Becomes(s, [Idle(fetcher[s]) EXCEPT !.hint = getFromBlock(sync')])
    /\ UNCHANGED <<plan, tip, counters>>

(* A 409 carries where to start, and is taken as often as the cycle allows. *)
Corrected(s) ==
    LET expected == getFromBlock(sync)
        me == [fetcher[s] EXCEPT !.hint = expected, !.corrections = @ + 1]
    IN /\ At(s, "push")
       /\ fetcher[s].from # expected
       /\ Alone(s, IF me.corrections > plan.maxCorrections THEN Idle(me) ELSE Fetching(me, expected))

(* The batch is lost, or its acknowledgement is: the same batch is sent     *)
(* again, and a sender that gives up forgets where it was.                  *)
NotAcknowledged(me) == Failed([me EXCEPT !.hint = IF me.tries > 1 THEN @ ELSE Nothing], me)

PushLost(s) ==
    /\ losses < plan.losses
    /\ At(s, "push")
    /\ UNCHANGED <<sync, whole>> \/ receive(fetcher[s])
    /\ Becomes(s, NotAcknowledged(fetcher[s]))
    /\ losses' = losses + 1
    /\ UNCHANGED <<plan, tip, faults, restarts>>

(* A process that died, or that somebody looked after.                      *)
Restart(s) ==
    /\ restarts < plan.restarts
    /\ Becomes(s, NewFetcher)
    /\ restarts' = restarts + 1
    /\ UNCHANGED <<plan, tip, sync, whole, losses, faults>>

Mine ==
    /\ tip < MaxHeight
    /\ tip' = tip + 1
    /\ UNCHANGED <<plan, fetcher, sync, whole, counters>>

-----------------------------------------------------------------------------
Init ==
    /\ plan \in Plans
    /\ tip \in StartBlock .. MaxHeight
    /\ fetcher = [s \in plan.senders |-> NewFetcher]
    /\ sync = FreshSync
    /\ whole = {}
    /\ losses = 0 /\ faults = 0 /\ restarts = 0

Cycle(s) ==
    \/ Begin(s) \/ Ask(s) \/ ReadTip(s) \/ Refused(s) \/ Answered(s)
    \/ Pushed(s) \/ Corrected(s)

Next ==
    \/ Mine
    \/ \E s \in plan.senders :
         \/ Cycle(s)
         \/ Unavailable(s) \/ NodeFails(s) \/ PushLost(s) \/ Restart(s)

Spec == Init /\ [][Next]_vars

(* The loop of a host runs one cycle after another until one is fatal.      *)
FairSpec == Spec /\ \A s \in Senders : WF_vars(s \in plan.senders /\ Cycle(s))

-----------------------------------------------------------------------------
TypeOK ==
    /\ plan \in Plans /\ tip \in StartBlock .. MaxHeight
    /\ fetcher \in [plan.senders -> Fetcher]
    /\ sync \in LastSync /\ whole \subseteq Height
    /\ losses \in 0 .. plan.losses /\ faults \in 0 .. plan.faults /\ restarts \in 0 .. plan.restarts

(* Whatever the node caps and however it says so, and whatever is lost,     *)
(* sent twice or sent by two, the receiver has every log of every block up  *)
(* to its cursor, once it has one: a short range is never pushed for a      *)
(* whole one.                                                               *)
ReceivedWhole ==
    TypeOK /\ (sync.latestBlock # 0 => StartBlock .. sync.lastToBlock \subseteq whole)

(* A fetcher stops for a human only on a block that cannot be had: one the  *)
(* node does not serve, or one whose logs alone look cut. Every other       *)
(* refusal it learns from.                                                  *)
StopsOnlyForGood ==
    \A s \in plan.senders :
        LET me == fetcher[s]
        IN me.pc = "stopped" =>
            me.from < node.archive \/ LogsIn(me.from, me.from) >= suspectResultCount(me)

(* A fetcher that is not stopped brings the receiver to the tip, however    *)
(* narrow the ranges it has learned to ask for.                             *)
CatchesUp ==
    tip = MaxHeight ~> (sync.lastToBlock = MaxHeight \/ \A s \in plan.senders : fetcher[s].pc = "stopped")
=============================================================================
