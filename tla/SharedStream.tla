----------------------------- MODULE SharedStream -----------------------------
(***************************************************************************)
(* The receiving deployment: fetchers push block ranges over the wire, one *)
(* writer per stream derives what each range means and appends it to the   *)
(* stored emission stream, and every generation folds that stream, either  *)
(* by taking the delta just appended (follow) or by reading a bounded      *)
(* chunk of the rows back (more).                                          *)
(*                                                                         *)
(* A row is a block's logs, applied or retracted; `seq` is its position.   *)
(* Rows and the coverage claim are written in one atomic batch. A fold     *)
(* keeps no position in memory: its cursor is read back before every       *)
(* advance, and one advance of a fold runs at a time. A delivered batch is *)
(* one atomic step here; IndexCycle opens it up.                           *)
(***************************************************************************)
EXTENDS Chain, Sequences, SequencesExt, FiniteSets

CONSTANTS
    Nothing,
    Folds,          \* the generations over the stream
    Senders,        \* fetchers, or one fetcher and the retries of its sends
    MayReturn,      \* a reorg may bring back a block the stream has retracted
    TornChunks,     \* a failure may come between two batches of one advance
    Deployments     \* how the parts are configured, and what may go wrong

ASSUME StreamAssumption ==
    /\ TornChunks \in BOOLEAN /\ MayReturn \in BOOLEAN
    /\ \A d \in Deployments :
        /\ d.deliver \in BOOLEAN /\ d.senders \subseteq Senders
        /\ d.budgets \subseteq Nat \ {0} /\ d.feedBatch \in Nat \ {0}
        /\ d.height \in Height /\ d.minRise \in Nat
        /\ d.reorgs \in Nat /\ d.crashes \in Nat /\ d.faults \in Nat

VARIABLES
    deployment, \* the deployment this behaviour is of: it never changes
    rows,       \* the stored emissions, in seq order
    coverage,   \* the stream's claim, Nothing while no batch was ever stored
    applied,    \* per fold: the blocks in its state
    cursor,     \* per fold: its durable checkpoint
    requests,   \* per sender: where its batch has got to
    work,       \* per fold: the advance it is in the middle of
    reorgs, crashes, faults

streamVars == <<rows, coverage>>
foldVars == <<applied, cursor>>
budgetVars == <<deployment, reorgs, crashes, faults>>
vars == <<deployment, branch, tip, rows, coverage, applied, cursor, requests, work, reorgs, crashes, faults>>

Deliver == deployment.deliver        \* the writer was given a deliver callback
Budgets == deployment.budgets        \* maxEmissions of a chunk; none where no host calls rebuildMore
FeedBatch == deployment.feedBatch    \* feedBatchSize
MinRise == deployment.minRise        \* how much the tip rises with a reorg, at least
MaxReorgs == deployment.reorgs
MaxCrashes == deployment.crashes
MaxFaults == deployment.faults

Row == [block : Block, removed : BOOLEAN]
Coverage == [latestBlock : Height, lastToBlock : Height]

Init ==
    /\ deployment \in Deployments
    /\ ChainInit
    /\ rows = <<>> /\ coverage = Nothing
    /\ applied = [f \in Folds |-> {}]
    /\ cursor = [f \in Folds |-> Nothing]
    /\ requests = [s \in Senders |-> Nothing]
    /\ work = [f \in Folds |-> Nothing]
    /\ reorgs = 0 /\ crashes = 0 /\ faults = 0

-----------------------------------------------------------------------------
(* The stored stream.                                                       *)

Mentions(rs, b) == {i \in DOMAIN rs : rs[i].block = b}

(* What the rows leave standing: a block whose last mention applies it.     *)
Alive(rs) == {rs[i].block : i \in {j \in DOMAIN rs :
                /\ ~rs[j].removed
                /\ \A k \in Mentions(rs, rs[j].block) : k > j => ~rs[k].removed}}

(* A window that keeps both branches of a reorg: the retractions are        *)
(* filtered out instead of honoured.                                        *)
WindowUnfiltered(rs, through) ==
    {b \in {rs[i].block : i \in {j \in DOMAIN rs : ~rs[j].removed}} : through - b.num <= Finality}

windowOfStoredStream(rs, through) == {b \in Alive(rs) : through - b.num <= Finality}

(* lastSyncOf: a claim, and the window walked out of the rows as they are   *)
(* now. The rows are read after the claim.                                  *)
lastSyncOf(claim) ==
    IF claim = Nothing
    THEN FreshSync
    ELSE [latestBlock |-> claim.latestBlock, lastToBlock |-> claim.lastToBlock,
          window |-> windowOfStoredStream(rows, claim.lastToBlock)]

(* expectedFromBlock: where the next batch must start.                      *)
expectedFromBlock == getFromBlock(lastSyncOf(coverage))

InOrder(S) == SetToSortSeq(S, LAMBDA a, b : a.num < b.num)

(* The emissions of a batch: every retraction, then every application.      *)
Emissions(delta) ==
    [i \in 1 .. Cardinality(delta.retract) |->
        [block |-> InOrder(delta.retract)[i], removed |-> TRUE]]
    \o [i \in 1 .. Cardinality(delta.apply) |->
        [block |-> InOrder(delta.apply)[i], removed |-> FALSE]]

-----------------------------------------------------------------------------
(* The chain and the fetchers.                                              *)

Mine ==
    /\ tip < deployment.height
    /\ NewBlock
    /\ UNCHANGED <<streamVars, foldVars, requests, work, budgetVars>>

Reorg(b, t) ==
    /\ reorgs < MaxReorgs
    /\ b # branch
    /\ t >= tip + MinRise
    /\ MayReturn \/ \A i \in DOMAIN rows :
        LET r == rows[i].block IN b[r.num] = r.hash => branch[r.num] = r.hash
    /\ SwitchTo(b, t)
    /\ reorgs' = reorgs + 1
    /\ UNCHANGED <<streamVars, foldVars, requests, work, crashes, faults, deployment>>

(* fetchAndPush: a whole range, from where the receiver said the next batch *)
(* starts, up to the tip or as far as the span reaches.                     *)
FetchAndPush(s, to) ==
    LET from == expectedFromBlock
    IN /\ s \in deployment.senders
       /\ requests[s] = Nothing
       /\ to \in from .. tip
       /\ to >= Smaller(tip, from + Finality)
       /\ requests' = [requests EXCEPT ![s] =
                [stage |-> "sent",
                 batch |-> [from |-> from, to |-> to, latest |-> tip, logs |-> LogsOf(branch, from, to)]]]
       /\ UNCHANGED <<chainVars, streamVars, foldVars, work, budgetVars>>

(* The batch is lost on the way, or the fetcher gives up on it.             *)
Lose(s) ==
    /\ requests[s] # Nothing
    /\ requests[s].stage = "sent"
    /\ faults < MaxFaults
    /\ faults' = faults + 1
    /\ requests' = [requests EXCEPT ![s] = Nothing]
    /\ UNCHANGED <<chainVars, streamVars, foldVars, work, reorgs, crashes, deployment>>

-----------------------------------------------------------------------------
(* The writer: StreamWriter.receive.                                        *)

(* readStreamCursor: the claim is read first.                               *)
ReadClaim(s) ==
    /\ requests[s] # Nothing
    /\ requests[s].stage = "sent"
    /\ requests' = [requests EXCEPT ![s] = [stage |-> "claimed", batch |-> @.batch, claim |-> coverage]]
    /\ UNCHANGED <<chainVars, streamVars, foldVars, work, budgetVars>>

(* The batch does not start where the stream resumes: 409, and the fetcher  *)
(* starts over from the block it is told.                                   *)
Correct(s) ==
    /\ requests[s] # Nothing
    /\ requests[s].stage = "claimed"
    /\ requests[s].batch.from # getFromBlock(lastSyncOf(requests[s].claim))
    /\ requests' = [requests EXCEPT ![s] = Nothing]
    /\ UNCHANGED <<chainVars, streamVars, foldVars, work, budgetVars>>

(* Read the tail, derive the emissions, refuse a hole.                      *)
Derive(s) ==
    LET batch == requests[s].batch
        claim == requests[s].claim
        delta == generateStreamToAppend(lastSyncOf(claim), batch.logs, batch.from, batch.to, batch.latest)
    IN /\ requests[s] # Nothing
       /\ requests[s].stage = "claimed"
       /\ batch.from = getFromBlock(lastSyncOf(claim))
       /\ claim # Nothing => batch.from <= claim.lastToBlock + 1
       /\ requests' = [requests EXCEPT ![s] =
                [stage |-> "derived", batch |-> batch, emissions |-> Emissions(delta), sync |-> delta.sync]]
       /\ UNCHANGED <<chainVars, streamVars, foldVars, work, budgetVars>>

(* A claim written ahead of its rows, outside their batch.                  *)
NumberAndClaim(s) ==
    /\ requests[s] # Nothing
    /\ requests[s].stage = "derived"
    /\ requests' = [requests EXCEPT ![s] =
            [stage |-> "numbered", batch |-> @.batch, emissions |-> @.emissions, sync |-> @.sync,
             seq |-> Len(rows)]]
    /\ coverage' = [latestBlock |-> requests[s].sync.latestBlock,
                    lastToBlock |-> requests[s].sync.lastToBlock]
    /\ UNCHANGED <<chainVars, rows, foldVars, work, budgetVars>>

(* appendEmissions: read the high-water mark the rows are numbered from.    *)
Number(s) ==
    /\ requests[s] # Nothing
    /\ requests[s].stage = "derived"
    /\ requests' = [requests EXCEPT ![s] =
            [stage |-> "numbered", batch |-> @.batch, emissions |-> @.emissions, sync |-> @.sync,
             seq |-> Len(rows)]]
    /\ UNCHANGED <<chainVars, streamVars, foldVars, work, budgetVars>>

(* The rows and the claim in one batch; the primary key refuses a number    *)
(* that is taken. Then the delta is offered to the folds.                   *)
AppendRows(s) ==
    /\ requests[s] # Nothing
    /\ requests[s].stage = "numbered"
    /\ requests[s].emissions # <<>> => requests[s].seq = Len(rows)
    /\ rows' = rows \o requests[s].emissions
    /\ coverage' = [latestBlock |-> requests[s].sync.latestBlock,
                    lastToBlock |-> requests[s].sync.lastToBlock]
    /\ requests' = [requests EXCEPT ![s] =
            [stage |-> "stored", batch |-> @.batch, emissions |-> @.emissions, sync |-> @.sync,
             todo |-> IF Deliver THEN Folds ELSE {}]]
    /\ UNCHANGED <<chainVars, foldVars, work, budgetVars>>

(* Two appends numbered from one mark: the second fails whole, and the      *)
(* fetcher sends again.                                                     *)
Conflict(s) ==
    /\ requests[s] # Nothing
    /\ requests[s].stage = "numbered"
    /\ requests[s].emissions # <<>> /\ requests[s].seq # Len(rows)
    /\ requests' = [requests EXCEPT ![s] = [stage |-> "sent", batch |-> @.batch]]
    /\ UNCHANGED <<chainVars, streamVars, foldVars, work, budgetVars>>

Respond(s) ==
    /\ requests[s] # Nothing
    /\ requests[s].stage = "stored"
    /\ requests[s].todo = {}
    /\ \A f \in Folds : work[f] # Nothing => work[f].sender # s
    /\ requests' = [requests EXCEPT ![s] = Nothing]
    /\ UNCHANGED <<chainVars, streamVars, foldVars, work, budgetVars>>

-----------------------------------------------------------------------------
(* The folds: GenerationRebuild.                                            *)

checkpoint(f) == IF cursor[f] = Nothing THEN FreshSync ELSE cursor[f]

(* Whether the walk retracts this block again before it applies it again.   *)
retractedLater(rs, i) ==
    \E k \in Mentions(rs, rs[i].block) :
        /\ k > i /\ rs[k].removed
        /\ \A j \in Mentions(rs, rs[i].block) : j <= i \/ j >= k

(* A replay that tells a re-read from a new block by membership alone.      *)
ReplayByMembership(sync, rs, to, latest) ==
    LET Step(acc, i) ==
            IF rs[i].removed = (rs[i].block \in acc.live)
            THEN [live |-> IF rs[i].removed THEN acc.live \ {rs[i].block} ELSE acc.live \cup {rs[i].block},
                  out |-> Append(acc.out, rs[i])]
            ELSE acc
        walk == FoldLeft(Step, [live |-> sync.window, out |-> <<>>], [i \in DOMAIN rs |-> i])
    IN [stream |-> walk.out,
        sync |-> [latestBlock |-> latest, lastToBlock |-> to,
                  window |-> {b \in walk.live : to - b.num <= Finality}]]

(* A replay that delivers what is applied and drops what is taken back.     *)
ReplayWithoutRetractions(sync, rs, to, latest) ==
    LET Step(acc, i) ==
            IF ~rs[i].removed /\ rs[i].block \notin acc.live
            THEN [live |-> acc.live \cup {rs[i].block}, out |-> Append(acc.out, rs[i])]
            ELSE acc
        walk == FoldLeft(Step, [live |-> sync.window, out |-> <<>>], [i \in DOMAIN rs |-> i])
    IN [stream |-> walk.out,
        sync |-> [latestBlock |-> latest, lastToBlock |-> to,
                  window |-> {b \in walk.live : to - b.num <= Finality}]]

(* Walk the rows: an application enters the window unless it is there or is *)
(* a branch this fold has already taken back, a retraction leaves it if it  *)
(* is there. What changes the window is delivered.                          *)
generateStreamFromReplay(sync, rs, to, latest) ==
    LET Reread(i) == rs[i].block.num <= sync.lastToBlock /\ retractedLater(rs, i)
        Step(acc, i) ==
            CASE rs[i].removed /\ rs[i].block \in acc.live ->
                    [live |-> acc.live \ {rs[i].block}, out |-> Append(acc.out, rs[i])]
              [] ~rs[i].removed /\ rs[i].block \notin acc.live /\ ~Reread(i) ->
                    [live |-> acc.live \cup {rs[i].block}, out |-> Append(acc.out, rs[i])]
              [] OTHER -> acc
        walk == FoldLeft(Step, [live |-> sync.window, out |-> <<>>], [i \in DOMAIN rs |-> i])
    IN [stream |-> walk.out,
        sync |-> [latestBlock |-> latest, lastToBlock |-> to,
                  window |-> {b \in walk.live : to - b.num <= Finality}]]

Folding(replay, s) == [stage |-> "folding", stream |-> replay.stream, sync |-> replay.sync,
                       begun |-> FALSE, sender |-> s]

(* follow: the delta just appended, to a fold that resumes where it starts. *)
Follow(s, f) ==
    /\ requests[s] # Nothing
    /\ requests[s].stage = "stored"
    /\ f \in requests[s].todo
    /\ work[f] = Nothing
    /\ getFromBlock(checkpoint(f)) = requests[s].batch.from
    /\ work' = [work EXCEPT ![f] =
            Folding(generateStreamFromReplay(checkpoint(f), requests[s].emissions,
                        requests[s].sync.lastToBlock, requests[s].sync.latestBlock), s)]
    /\ requests' = [requests EXCEPT ![s].todo = @ \ {f}]
    /\ UNCHANGED <<chainVars, streamVars, foldVars, budgetVars>>

Decline(s, f) ==
    /\ requests[s] # Nothing
    /\ requests[s].stage = "stored"
    /\ f \in requests[s].todo
    /\ work[f] = Nothing
    /\ getFromBlock(checkpoint(f)) # requests[s].batch.from
    /\ requests' = [requests EXCEPT ![s].todo = @ \ {f}]
    /\ UNCHANGED <<chainVars, streamVars, foldVars, work, budgetVars>>

(* more: the claim is read first. Without one there is nothing to do.       *)
More(f) ==
    /\ Budgets # {}
    /\ work[f] = Nothing
    /\ coverage # Nothing
    /\ work' = [work EXCEPT ![f] = [stage |-> "reading", claim |-> coverage, sender |-> Nothing]]
    /\ UNCHANGED <<chainVars, streamVars, foldVars, requests, budgetVars>>

(* The last block a chunk of `budget` rows may reach: below the block of    *)
(* the first row that does not fit, so that no block is cut in two.         *)
BudgetCut(from, through, budget) ==
    LET rest == {i \in DOMAIN rows : rows[i].block.num >= from}
        upTo(n) == Cardinality({i \in rest : rows[i].block.num <= n})
        over == {n \in Height : upTo(n) > budget}
    IN IF over = {} THEN through ELSE (CHOOSE n \in over : \A m \in over : n <= m) - 1

(* A chunk that may end below what the fold already has: a block with more  *)
(* rows than the budget is never passed.                                    *)
ChunkEndNoFloor(f, budget) ==
    Smaller(work[f].claim.lastToBlock,
            BudgetCut(getFromBlock(checkpoint(f)), work[f].claim.lastToBlock, budget))

(* Then the rows, cut at a block boundary but past what was folded already. *)
ChunkEnd(f, budget) ==
    LET sync == checkpoint(f)
        from == getFromBlock(sync)
        through == work[f].claim.lastToBlock
    IN Smaller(through, Larger(BudgetCut(from, through, budget), Larger(sync.lastToBlock + 1, from)))

(* The probe decides where the chunk ends.                                  *)
ProbeBlocks(f, budget) ==
    /\ work[f] # Nothing /\ work[f].stage = "reading"
    /\ work' = [work EXCEPT ![f] = [stage |-> "probed", claim |-> @.claim, end |-> ChunkEnd(f, budget), sender |-> Nothing]]
    /\ UNCHANGED <<chainVars, streamVars, foldVars, requests, budgetVars>>

Probed(f) == work[f] # Nothing /\ work[f].stage = "probed"

(* The stream has not moved since this fold consumed it.                    *)
NotMoved(f) ==
    /\ work[f].end = checkpoint(f).lastToBlock
    /\ work[f].claim.latestBlock = checkpoint(f).latestBlock

Consumed(f) ==
    /\ Probed(f)
    /\ NotMoved(f)
    /\ work' = [work EXCEPT ![f] = Nothing]
    /\ UNCHANGED <<chainVars, streamVars, foldVars, requests, budgetVars>>

(* readRange: the rows of the chunk, in seq order, as they are by then.     *)
ReadChunk(f) ==
    LET slice == SelectSeq(rows, LAMBDA r : r.block.num \in getFromBlock(checkpoint(f)) .. work[f].end)
    IN /\ Probed(f)
       /\ ~NotMoved(f)
       /\ work' = [work EXCEPT ![f] =
            Folding(generateStreamFromReplay(checkpoint(f), slice, @.end, @.claim.latestBlock), Nothing)]
       /\ UNCHANGED <<chainVars, streamVars, foldVars, requests, budgetVars>>

-----------------------------------------------------------------------------
(* Delivery: batchStreamForDelivery and the process calls it cuts.          *)

(* The first rows of a stream that go into one call: the retractions it     *)
(* starts with, then applications up to the batch size.                     *)
BatchEnd(es) ==
    LET fits == {k \in DOMAIN es : \A j \in 1 .. k :
                    IF es[j].removed THEN \A i \in 1 .. j : es[i].removed ELSE j <= FeedBatch}
    IN IF fits = {} THEN 0 ELSE CHOOSE k \in fits : \A j \in fits : j <= k

Retractions(es) == {es[i].block : i \in {j \in DOMAIN es : es[j].removed}}
Applications(es) == {es[i].block : i \in {j \in DOMAIN es : ~es[j].removed}}

(* How far a batch has folded: its last application, or the fork point.     *)
foldedThrough(es) ==
    IF Applications(es) # {}
    THEN es[Len(es)].block.num
    ELSE Larger(0, (CHOOSE b \in Retractions(es) : \A r \in Retractions(es) : b.num <= r.num).num - 1)

Delivering(f) == work[f] # Nothing /\ work[f].stage = "folding"

(* The call that comes next: its rows, and the cursor true of them alone.   *)
Batch(f) == SubSeq(work[f].stream, 1, BatchEnd(work[f].stream))

IsLastBatch(f) == BatchEnd(work[f].stream) = Len(work[f].stream)

BatchSync(f) ==
    IF IsLastBatch(f) THEN work[f].sync ELSE cursorSyncedThrough(work[f].sync, foldedThrough(Batch(f)))

(* What a fold keeps under the revert a batch starts with.                  *)
Kept(f) == KeptBelow(applied[f], Retractions(Batch(f)))

(* How many applications of a batch the store takes, in the order they      *)
(* come: each must be above everything recorded when its turn comes.        *)
Taken(f) ==
    LET bs == SelectSeq(Batch(f), LAMBDA r : ~r.removed)
    IN {k \in 0 .. Len(bs) : \A i \in 1 .. k :
            /\ Accepts(Kept(f), bs[i].block)
            /\ \A j \in 1 .. i - 1 : bs[j].block.num < bs[i].block.num}

Refused(f) == Cardinality(Applications(Batch(f))) \notin Taken(f)

Process(f) ==
    /\ Delivering(f)
    /\ ~Refused(f)
    /\ applied' = [applied EXCEPT ![f] = Kept(f) \cup Applications(Batch(f))]
    /\ cursor' = [cursor EXCEPT ![f] = BatchSync(f)]
    /\ work' = [work EXCEPT ![f] =
            IF IsLastBatch(f) THEN Nothing
            ELSE [@ EXCEPT !.stream = SubSeq(@, BatchEnd(@) + 1, Len(@)), !.begun = TRUE]]
    /\ UNCHANGED <<chainVars, streamVars, requests, budgetVars>>

(* The store refuses a block: the advance throws, and is contained. The     *)
(* revert has happened, and the blocks before the refused one have landed.  *)
Refuse(f) ==
    LET bs == SelectSeq(Batch(f), LAMBDA r : ~r.removed)
        n == CHOOSE k \in Taken(f) : \A j \in Taken(f) : j <= k
    IN /\ Delivering(f)
       /\ Refused(f)
       /\ applied' = [applied EXCEPT ![f] = Kept(f) \cup {bs[i].block : i \in 1 .. n}]
       /\ cursor' = [cursor EXCEPT ![f] =
                IF n = 0 THEN @ ELSE cursorSyncedThrough(BatchSync(f), bs[n].block.num)]
       /\ work' = [work EXCEPT ![f] = Nothing]
       /\ UNCHANGED <<chainVars, streamVars, requests, budgetVars>>

-----------------------------------------------------------------------------
(* Failures.                                                                *)

(* An advance a failure may meet: one with no batch delivered yet, or any.  *)
MayFail(f) == TornChunks \/ ~(Delivering(f) /\ work[f].begun)

(* A handler, a read or a store write fails for a reason that will pass.    *)
Fault(f) ==
    /\ work[f] # Nothing
    /\ faults < MaxFaults
    /\ MayFail(f)
    /\ faults' = faults + 1
    /\ work' = [work EXCEPT ![f] = Nothing]
    /\ UNCHANGED <<chainVars, streamVars, foldVars, requests, reorgs, crashes, deployment>>

(* The receiving process dies. What was in flight is sent again.            *)
Crash ==
    /\ crashes < MaxCrashes
    /\ \A f \in Folds : MayFail(f)
    /\ crashes' = crashes + 1
    /\ work' = [f \in Folds |-> Nothing]
    /\ requests' = [s \in Senders |->
            IF requests[s] = Nothing THEN Nothing ELSE [stage |-> "sent", batch |-> requests[s].batch]]
    /\ UNCHANGED <<chainVars, streamVars, foldVars, reorgs, faults, deployment>>

-----------------------------------------------------------------------------

Receiving(s) ==
    \/ ReadClaim(s)
    \/ Correct(s)
    \/ Derive(s)
    \/ Number(s)
    \/ AppendRows(s)
    \/ Conflict(s)
    \/ Respond(s)

Offering(s) == \E f \in Folds : Follow(s, f) \/ Decline(s, f)

Advancing(f) ==
    \/ \E budget \in Budgets : ProbeBlocks(f, budget)
    \/ Consumed(f)
    \/ ReadChunk(f)
    \/ Process(f)
    \/ Refuse(f)

Next ==
    \/ Mine
    \/ \E b \in Branches, t \in Height : Reorg(b, t)
    \/ \E s \in Senders :
        \/ \E to \in Height : FetchAndPush(s, to)
        \/ Lose(s)
        \/ Receiving(s)
        \/ Offering(s)
    \/ \E f \in Folds : More(f) \/ Advancing(f) \/ Fault(f)
    \/ Crash

Spec == Init /\ [][Next]_vars

(* The fetcher loop runs another cycle after every report but a fatal one,  *)
(* a request that arrives is answered, and a host calls rebuildMore in the  *)
(* gap between cycles.                                                      *)
FairSpec ==
    /\ Spec
    /\ \A s \in Senders :
        /\ WF_vars(\E to \in Height : FetchAndPush(s, to))
        /\ WF_vars(Receiving(s))
        /\ SF_vars(Offering(s))
    /\ \A f \in Folds : WF_vars(More(f)) /\ WF_vars(Advancing(f))

-----------------------------------------------------------------------------

Request ==
    LET batch == [from : Nat, to : Height, latest : Height, logs : SUBSET Block]
    IN [stage : {"sent"}, batch : batch]
       \cup [stage : {"claimed"}, batch : batch, claim : Coverage \cup {Nothing}]
       \cup [stage : {"derived"}, batch : batch, emissions : Seq(Row), sync : LastSync]
       \cup [stage : {"numbered"}, batch : batch, emissions : Seq(Row), sync : LastSync, seq : Nat]
       \cup [stage : {"stored"}, batch : batch, emissions : Seq(Row), sync : LastSync, todo : SUBSET Folds]

Advance ==
    [stage : {"reading"}, claim : Coverage, sender : Senders \cup {Nothing}]
    \cup [stage : {"probed"}, claim : Coverage, end : Height, sender : Senders \cup {Nothing}]
    \cup [stage : {"folding"}, stream : Seq(Row), sync : LastSync, begun : BOOLEAN,
          sender : Senders \cup {Nothing}]

(* Every variable has its type.                                             *)
TypeOK ==
    /\ branch \in Branches /\ tip \in Height
    /\ rows \in Seq(Row)
    /\ coverage \in Coverage \cup {Nothing}
    /\ applied \in [Folds -> SUBSET Block]
    /\ \A f \in Folds : cursor[f] \in LastSync \cup {Nothing}
    /\ \A s \in Senders : requests[s] = Nothing \/ requests[s] \in Request
    /\ \A f \in Folds : work[f] = Nothing \/ work[f] \in Advance
    /\ reorgs \in 0 .. MaxReorgs /\ crashes \in 0 .. MaxCrashes /\ faults \in 0 .. MaxFaults

(* One fetcher, and no second copy of its sends. With two, a block may be   *)
(* stored twice.                                                            *)
OneSender == Cardinality(deployment.senders) = 1

(* The stored stream is a history: a block is applied only while it is not  *)
(* standing and above everything that is, and retracted only while it is.   *)
(* Replaying any prefix of it is one state per block, on one branch.        *)
StreamIsHistory ==
    OneSender => \A i \in DOMAIN rows :
        LET before == Alive(SubSeq(rows, 1, i - 1))
        IN IF rows[i].removed
           THEN rows[i].block \in before
           ELSE Accepts(before, rows[i].block)

(* Two receives may overlap only while the chain grows. Across a reorg, one *)
(* that derived before it leaves blocks that the other never retracts.      *)
NoReorgBetweenSenders == OneSender \/ MaxReorgs = 0

(* Below the block the next batch starts at, the stream is the chain: no    *)
(* lost, repeated or delayed batch skips a block or leaves a dead one.      *)
StreamSettled ==
    NoReorgBetweenSenders =>
        {b \in Alive(rows) : b.num < expectedFromBlock} = LogsOf(branch, StartBlock, expectedFromBlock - 1)

(* Through every interleaving of the receives, of one sender, or of two on  *)
(* a chain that only grows, the stream's claim is true of its rows.         *)
StreamSound == TypeOK /\ StreamSettled

Idle(f) ==
    /\ work[f] = Nothing
    /\ \A s \in Senders :
        requests[s] # Nothing => ~(requests[s].stage = "stored" /\ f \in requests[s].todo)

(* A fold that has consumed the stream holds what the stream says stands.   *)
LevelFoldIsStream ==
    OneSender => \A f \in Folds :
        /\ Idle(f) /\ cursor[f] # Nothing /\ coverage # Nothing
        /\ cursor[f].lastToBlock = coverage.lastToBlock
        /\ cursor[f].latestBlock = coverage.latestBlock
        => applied[f] = Alive(rows)

(* Below where a fold resumes, its state is the chain: a chunk cut by its   *)
(* budget, or a failure between two chunks, leaves no row behind it.        *)
FoldSettled ==
    OneSender => \A f \in Folds :
        LET from == getFromBlock(checkpoint(f))
        IN work[f] = Nothing =>
           {b \in applied[f] : b.num < from} = LogsOf(branch, StartBlock, from - 1)

(* No fold is handed a block its store refuses: the next chunk would carry  *)
(* the same block again.                                                    *)
NeverRefused == OneSender => \A f \in Folds : Delivering(f) => ~Refused(f)

(* A fold can always go on from where it stands: what it has is the chain,  *)
(* and what it is handed is taken.                                          *)
FoldSound == FoldSettled /\ NeverRefused

(* Once the chain holds still and nothing more fails, every fold's state    *)
(* becomes the chain.                                                       *)
CatchesUp ==
    <>[][FALSE]_chainVars =>
        \A f \in Folds : <>[](applied[f] = LogsOf(branch, StartBlock, tip))
=============================================================================
