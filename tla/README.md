# etherfold: verification

TLA+ models of etherfold's core, the TLC runs that check them on small
instances, and TLAPS proofs of what matters most for every instance.
`PROJECT.json` ties every definition to the source lines it models.

etherfold follows an EVM chain that reorganises, turns the logs it fetches into
a stream of applied and retracted blocks, and folds that stream into a state.
What makes it hard is in four words: *fetch, derive, apply, resume*.
The node is stateless and may switch branches at any time. The cursor says what
has been covered. The state is written block by block. The process may die
between any two writes.

## 1. The system

| Part | State it keeps | Operations | Talks to |
|---|---|---|---|
| Reorg engine (`core/src/internal/engine/utils.ts`) | none; the cursor `LastSync` = `latestBlock`, `lastToBlock`, window of unconfirmed blocks | `getFromBlock`, `generateStreamToAppend`, `generateStreamFromReplay`, `cursorSyncedThrough`, `batchStreamForDelivery`, `windowOfStoredStream` | called by every part below |
| Chain follower (`core/src/indexer.ts`) | in-memory cursor, pending action, pause cap, written-not-processed events | load, index, feed, pause, updateProcessor, updateIndexer, reset | node, processor, stream cache |
| Entity processor (`processor-entities`) | none; the cursor record in the store | process (revert once, apply block by block), load, reset | state store |
| State store (`state-store`, three more backends) | versions per key, block index, cursor record, tip | applyBlock, revertTo, prune, as-of and current reads | processor, readers |
| Stream writer and stored emissions (`core/src/stream/writer.ts`, `server/src/emissions.ts`) | rows in `seq` order, coverage claim | receive, append | fetchers, folds |
| Folds (`core/src/generation/rebuild.ts`, `receivingContainer.ts`) | one state and one cursor per generation, a promise chain per fold | follow, more | writer, `streamReader.ts`, processor |
| Log fetcher and wire (`logFetcher.ts`, `server/src/api/ingest.ts`) | position hint, suspect result count | fetchAndPush, push with retries, 409 corrections | node, writer |
| Range fetcher (`RangeLogFetcher.ts`) | width of the next request, ceiling, safe span, reported cap | narrow and widen, retry | node |
| Generation registry and promotion (`generation/registry.ts`, `promotion.ts`) | records, slots (canonical, successor), revision | create, move canonical, delete with its state and stream | both containers |
| Container (`container.ts`) | held folds, who fetches each stream, deferred drops | add, promote, indexMore, settle, drop, hand over | registry, followers |
| Receiving container (`receivingContainer.ts`) | held folds, one advance each, migrated streams | receive, rebuildMore, add, promote, reclaim, open | registry, writer, folds |
| Stream cache (`stream/segments.ts`, `seed*.ts`) | segments, cursor record | save, fetchFrom, install a seed | follower |
| Server feed, compaction | reader cursors | read, compact | clients |
| Browser tabs (`browser/src/IndexerState.ts`, `tabElection.ts`, `stateMovedAcrossTabs.ts`) | Web Lock, seat (reader or writer), the claim in the store | stand, queue, steal, take over, step down, demote | other tabs, store |
| Fetcher host, CLI, GraphQL, accessor, platforms | schedules, configuration | loops and plumbing | all of the above |

What makes each part correct:

- **engine**: nothing is delivered twice, nothing skipped, and a cycle ends on
  the chain it fetched, however sparse the window is;
- **processor and store**: state and cursor agree wherever the process dies;
  a revert restores exactly the state it goes back to; pruning never shows;
- **writer**: the rows are one history, however batches are lost, repeated or
  overlapped;
- **folds**: a fold that has consumed the stream holds what the stream says
  stands, whether it came by deltas or by chunks;
- **fetcher**: no range is pushed short, whatever a node hides; it stops only when
  nothing else could help;
- **containers**: one fetcher per stream, one fold per state, reads that never go
  back by themselves, and a successor that is promoted in the end;
- **tabs**: one writer at a time writes, in order, and a tab on screen is served;
- **liveness**: once the chain holds still, the state becomes the chain.

## 2. The modules

| Module | What it is |
|---|---|
| `ReorgWindow` | the engine's pure functions over blocks, cursors and windows |
| `Chain` | the node: a branch, a tip, `eth_getLogs`, reorgs no deeper than finality (external) |
| `ChainFollower` | the contract of a cycle: one atomic step against a moving chain |
| `IndexCycle` | the same cycle one store call at a time, with crashes, faults, cancellation and the wipe of a reconfigure |
| `StateHistory` | what a store promises, with no versions in it: the state as of every block |
| `StateStore` | the versioned store; `ImplementsHistory` maps it to `StateHistory` |
| `StateStoreReads` | the store's answers beside an unpruned history |
| `RetainedReorg` | the follower over a store that prunes |
| `LogFetcher` | fetchers, the node's caps and how it states them, and the receiver's cursor |
| `SharedStream` | the receiving deployment: senders, the writer, the stored rows, the folds |
| `Generations` | the registry's verbs over records and slots, shared by the two containers |
| `Container` | the container that fetches: index loop, operator calls, promotion, drops |
| `Receiving` | the container that receives: batches, rebuild loop, operator calls, open |
| `TabElection` | browser tabs, the lock manager, the channel between tabs, the store's claim |
| `ChainProofs` | what the proofs about the follower and the cycle share: where a fetch starts, what a derived stream leaves of a state |
| `ChainFollowerProofs`, `IndexCycleProofs`, `StateStoreProofs`, `LogFetcherProofs`, `ContainerProofs`, `ReceivingProofs`, `TabElectionProofs` | theorems |
| `MC*` | small instances |

`ReorgWindow` is extended by everything that holds a cursor and `Chain` by everything
that meets a moving chain; `RetainedReorg` composes the follower with a store that
prunes; `Generations` is extended by both containers. What may go wrong in a behaviour
(crashes, faults, losses, a second sender, a policy) is a record chosen in `Init` from a
constant set (`Plans`, `Deployments`, `Configs`), so that one run asks one question of
several deployments.

How state and actions correspond to the code:

- **A block** is a record of height and hash; its logs are one unit, because no
  code path splits a block. A branch is a function from height to hash in which
  a hash determines everything below it. Which blocks carry logs is a constant,
  and the instances leave some blocks without any, so windows are sparse and a
  reorg may remove logs without replacing them.
- **`LastSync`** drops `context` and `lastFromBlock`, which no modelled guard
  reads beyond equality with `getFromBlock`.
- **`IndexCycle`**: `ReadTip` and `Fetch` are the two awaits of
  `fetchLogsFromProvider`; `Revert`, `Apply`, `ApplyLast` and `WriteCursorOnly`
  are the store calls of `applyEventStream`; `Return` is the assignment of
  `lastSync` after `process`, taken with the last store call; `Refuse` and
  `Fault` are the two ways `process` throws. `Reconfigure`, `WipeState`,
  `WipeCursor` and `Reload` are `updateProcessor` and `EntityEventProcessor.reset`.
  A cancelled call moves to a second slot and goes on.
- **`StateStore`**: the rows of a key are a set of versions with bounds; a
  refused call changes nothing and is no step.
- **`LogFetcher`**: a cycle of `fetchAndPush` passes `ask`, `tip`, `fetch` and `push`,
  its awaits. `Refused` is the catch of `getLogs`: it reads the refusal, records a
  reported cap, lowers the ceiling, sizes the next request (`NextWidth`, `Bisected`) and
  asks again, and when its retries are spent the call fails into `withRetries`.
  `Answered` is the success path and the judgement of `fetchCompleteRange`. A refusal is
  its kind: what the readers of errors take out of it, not its text. The receiver takes
  a batch atomically, which `SharedStream` opens up. `whole` is the set of blocks it was
  sent with all their logs. The chain is given by `below`, the number of logs under each
  height, so that the logs of a range are a difference. The chain id and timestamp checks before a push are left
  out: a node that changes chain, or has no timestamps, stops the fetcher.
- **`SharedStream`**: a request passes `sent`, `claimed`, `derived`, `numbered`,
  `stored`, the awaits of `StreamWriter.receive`, `readStreamCursor` and
  `appendEmissions`: the claim is read, then the tail, then the high-water mark, and
  rows and claim are written in one database batch. `Follow` and `Decline` are
  `offerToFolds`; `More`, `ProbeBlocks` and `ReadChunk` (or `Consumed`) are the awaits
  of `more()` and `readChunk`, where the claim, the probe and the rows are read one
  after the other and the writer may append between them; `Process` is one `process` call of `batchStreamForDelivery`,
  atomic here because `IndexCycle` opens it up. `work` is the promise chain that
  keeps one advance per fold.
- **`Container`**: two tasks, `index` (the loop) and `control` (an operator's `add` or
  `promote`), interleave wherever the code awaits. The registry, the states and the
  streams are on disk; `held`, the roles of the folds and `current`, the fold that
  answers reads, are in memory. `Created`, `MovedTo` and `deleteGeneration` are the
  registry's verbs, one atomic commit each, and dropping the state of a deleted
  generation is a step after its commit. The continuation of a move of reads
  (`container.ts:1564` and after) is taken with its commit, so that a step of the other
  task between the two is left out. A cursor is the height a fold has reached.
  Waiting drops are a set and those that are due run in any order. The code walks a copy
  of its list, and a drop that another task removed during an await would still be run,
  and would splice the last entry of the list instead of its own
  (`container.ts:1508-1513`, an `indexOf` of -1); that is left out.
- **`Receiving`**: three tasks, `ingest` (a batch and its delivery), `loop`
  (`rebuildMore` and the settling of a promotion) and `control` (add, promote, reclaim,
  in the order a configuration lists them). `turn` is the fold whose advance a task is
  in: `advance` chains the advances of a fold, so a second one waits. The chain is kept
  per fold object in the code and per generation in the model: after a generation was let
  go and instantiated anew, a pass that still lists the old object is not serialised with
  the new one, and that is left out. A move of reads is its awaits: the slots are read
  (`Move`), the target is instantiated, the registry commits (`CommitMove`), what was
  built is held and the fate of the fold that reads left is decided from the slots as
  they were before (`AfterMove`), and where its bundle is asked for first, it is let go
  or kept after that await (`LetGo`, `KeepFolding`). Opening is a
  sequence of steps that a death may cut: sweep, discard of a pending successor,
  instantiation from a stored bundle, which may fail.
- **`TabElection`**: the lock manager tells a tab of a grant or a theft through an inbox
  in order; a tab handles one event at a time and may be slow to. A fresh start is a
  coroutine with the stages `seat`, `claim` and `open`, the awaits of `takeOver`; the
  tenure it belongs to is `current`, and `Outdated` is the check it makes when it wakes.
  A request that is aborted leaves the queue wherever it stands (`Without`).
  The claim is a writer handle in the store, checked in the transaction of each write
  (`held`). The channel between tabs is taken as instant: the settle time before a steal
  (2 s) is far longer than a message's delay. `plan.races` lets a displaced start go on,
  `ghosts` lets tabs that once led answer questions, `frozen` lets a hidden tab stay asleep.

## 3. The runs

Passing runs, and what they show:

| Run | Bounds | Shows |
|---|---|---|
| `store` | 1 key, 2 values, 3 hashes, heights 0 to 4, three retentions with depth and window 1, prune budgets 1 and 9 | the store implements its history, also when a prune stops at its budget |
| `follower` | 8 heights, finality 2, forks at heights 1 to 7, spans 3 to 4 | window, settled state, delivery, revert, cycle and catch-up of the follower |
| `cycle` | 4 heights, finality 1, forks at 2, 3 and 4; one plan with 2 crashes, one with a transient failure and a reconfigure between cycles | until a call fails: resumable wherever it dies, no block refused, every cycle ends on the chain; catches up |
| `fetch` | 6 blocks, finality 1; five nodes: a span of 3 blocks stated, coded or unexplained; 3 logs named, counted, unexplained or cut in silence; one that does not serve history; a loss, a failure, a restart; two senders with a learned range | every range is received whole; a fetcher stops only on a block that cannot be had; the tip is reached |
| `stream` | 4 heights, finality 1, forks at 2 and 3; four deployments: deltas with whole chunks and 2 reorgs; chunks alone with budgets 1 and 2, batches of 1, a crash, a fault and 2 reorgs; two senders over 3 heights, without reorgs and folds; two senders over 2 heights whose folds take deltas | the stream settles on the chain, and is a history where one sender writes it; a level fold is the stream; a fold is never refused |
| `stream_live` | 3 heights, a reorg; budget 1 with a fault, and deltas | folds end on the chain |
| `container` | 3 generations on 2 streams, 2 blocks, 2 operator calls, 1 restart, 6 configurations of policy, drop and cap | one fetcher per stream, reads that do not go back, no fold left behind, successors promoted |
| `receiving` | 3 generations on 2 streams, 2 blocks, 8 configurations with up to 4 operator calls and a restart, two of them racing | no holes; a successor is promoted; where no two calls race, registry, held folds and states agree, one fold per state, reads stay folded |
| `tabs` | 2 blocks; 2 tabs with races, 2 steals, a close, 2 flips; 2 tabs with 3 steals, 3 flips and a fault; 3 tabs with 2 steals | lock and tabs agree; readers do not write; the leader has the claim; blocks are written once and in order; a tab on screen sees the store move |

The bounds are the smallest at which the cases appear: finality 1 gives a window
of two blocks, so a block can be inside it, at its lower edge and below it within
four heights; two reorgs make a dead branch that is itself replaced; a budget of 1
is below the rows of one re-applied block, and a batch size of 1 cuts every
replay. A range of 6 blocks is wider than every cap of `fetch`, so that each node
refuses, is learned from, and answers. Three generations make a successor that is itself
displaced, and two streams a hand-over beside one that needs none. Three steals depose a
leader that comes back. Deadlock is checked in every run but `fetch`, where a fetcher
that is refused for good really ends.

Runs that TLC refutes: each states what the repository says of itself and shows a
behaviour of the code that does otherwise. `PROJECT.json` quotes the line.

| Run | What happens |
|---|---|
| `pruned_reads` | a prune, then a revert; the window admits a height whose rows are gone |
| `retained_reorg` | the deepest reorg reverts one block below a revert-only store's floor |
| `fault_skips` | a transient failure while the blocks of a reorg are applied; the retry retracts them again from the old cursor in memory, and a death at that point leaves a stored cursor above blocks that are gone |

The passing runs rest on assumptions, each a constant or a field of a plan. What is lost
without one, as TLC shows when it is changed:

| Run | Change | Refuted | What happens |
|---|---|---|---|
| `follower` | `MaxRegress = 1` | `StoreAccepts` | a node reports a lower tip once (`indexer.ts:1933`); blocks that left the window are delivered again |
| `follower` | `MinSpan = MaxSpan = 2` | `CatchesUp` | a span no wider than finality; the window is re-read for ever |
| `cycle` | `MayReturn = TRUE` | `CycleEndsOnChain` | a crash after `revertTo`; the chain returns to the reverted block, which the stored window still names, and it is never applied again |
| `cycle` | a fault in the plan with crashes, `NeverRefused` without its exception | `NeverRefused` | the in-memory cursor stays behind the blocks that landed |
| `cycle` | a plan with one fault and nothing else, `CatchesUp` without its exception | `CatchesUp` | the retry of a failed call is refused by the store, a refusal is not retried, and the browser's loop stops (`IndexerState.ts:2288-2317`) |
| `cycle` | `RaceWipe = TRUE` | `CycleEndsOnChain` | a cancelled cycle goes on writing beside the wipe |
| `cycle` | a crash in the plan with the wipe | `CycleSound` | a death between the two calls of a wipe leaves the old cursor over an empty store |
| `fetch` | a silent cap of 3 under the default suspect count of 4 | `ReceivedWhole` | the short answer is pushed for a whole one, and the receiver reads the missing logs as a reorg |
| `fetch` | a node that states a span of 2 | `CatchesUp` | the fetcher asks for one block less than stated, which finality 1 rewinds over each time; `FetchRangeBelowFinalityError` guards the configured width only (`indexer.ts:552`) |
| `fetch` | two logs in each block, `maxEvents` 4 | `CatchesUp` | the width that fills 80% of an answer is one block: the same, without any refusal |
| `fetch` | a node that names the first block as the last that fits | `CatchesUp` | a suggestion of one block leaves the width as it was (`RangeLogFetcher.ts:916-919`) and the same range is refused again |
| `stream` | `StreamIsHistory` without `OneSender` | `StreamIsHistory` | two overlapping receives store a block twice |
| `stream` | two senders and a reorg, `StreamSettled` without its exception | `StreamSound` | both senders are answered for the same position (`writer.ts:251`), one derives before the reorg and one after it; the second has not read the rows of the first, retracts nothing, and a block of the old branch stands below the next batch for good |
| `stream` | two senders with deltas and no reorg, `FoldSettled` without its exception | `FoldSound` | the folds are offered the later of two overlapping deltas first, take it and miss the earlier one |
| `stream` | budgets {1, 9} beside deltas | `LevelFoldIsStream` | a fold cut by its budget inside the window resumes where the next delta starts, takes it, and misses the rows between (`rebuild.ts:694`; `:676-677` says this leaves "a HOLE in its own state") |
| `stream` | chunks alone, `minRise` 0 | `LevelFoldIsStream` | a reorg that keeps the height appends rows under an unchanged claim, and a fold that moves by chunks alone is told it has consumed them |
| `stream` | `TornChunks = TRUE` | `LevelFoldIsStream` | a crash between two batches of a replay leaves a dead block for good |
| `stream` | `MayReturn = TRUE` | `LevelFoldIsStream` | replaying +X, -X, +X over a fold that holds X reverts the blocks above X and re-applies X alone |
| `stream_live` | a fault in the deployment with deltas | `CatchesUp` | a delta that failed is not offered again, and the claim does not move |
| `container` | `Racing = TRUE` | `ReadsAdvance` | two moves of reads in flight; disk and memory are written in different orders |
| `container` | `Readd = TRUE` | `OneFetcher` | an older generation comes back to a stream whose fold already fetches (`container.ts:1054`; `:1814` says "Exactly one generation fetches this stream at every moment") |
| `container` | `Revert = TRUE` | `ReadsAdvance` | reads are moved back to a generation whose deferred drop is still due (`container.ts:1508-1515`) |
| `container` | `Overtaken = TRUE`, four generations on one stream, three adds | `OneFetcher` | a registration has deleted the record of the fold it displaces and awaits (`container.ts:2043`, before `stopDriving` at `:2053`); the loop runs a deferred drop that hands the stream to that fold (`:1508-1515`), which is then stopped: nobody fetches the stream (`:1814` as above) |
| `receiving` | `racing` in every configuration | `HeldIsRegistered`, `RegisteredHasState` | a generation re-added between the commit of its deletion and the drop of its state (`registry.ts:1284`) |
| `receiving` | `racing` with a restart and a failed instantiation, without the exception for races | `OneFoldPerState` | an upload and an instantiation both build the fold |
| `receiving` | `racing` with `dropOnPromotion` off, without the exception for races | `ReadsStayFolded` | the loop's promotion has committed (`receivingContainer.ts:2531`) and awaits `canBeInstantiatedAgain` (`:2666`); an operator's promote back to the superseded generation, which is still held and so is not instantiated, commits; the loop then lets go of the fold that answers reads (`:2683`), and nothing folds it until it is instantiated again |
| `receiving` | `on-catch-up` that does not instantiate, calls add, promote, add, `SettlingNeverGoesBack` without its exception for what is not held | `SettlingNeverGoesBack` | reads go back to a generation that was let go; a pass of `rebuildMore` that began before still has its fold in its copy (`receivingContainer.ts:2240`) and advances it between the comparison, which takes no turn for it, and the move (`:2406-2408` says "With no held incumbent (nothing here folds it) the cursor cannot move under this process") |
| `receiving` | `racing` with a restart and a failed instantiation, without the exception for races | `SettlingNeverGoesBack` | the loop finds no fold of what answers and compares without a turn; an upload of that generation builds its fold, and a delivery advances it before the move commits |
| `tabs` | `ReadersDoNotWrite` and `LeaderHasTheClaim` without the exception for races | both | a first start does not ask again whether its tenure stands (`IndexerState.ts:1212-1216`), and a displaced start may claim after the new leader |
| `tabs` | races with 3 steals and 3 flips | `ForegroundCatchesUp` | two overlapping starts in one tab; it ends holding the lock and indexing nothing (`IndexerState.ts:1291-1295`) |
| `tabs` | `ghosts` | a visible leader is displaced | a tab that once led answers with its own last visibility (`stateMovedAcrossTabs.ts:508-515`; `tabElection.ts:67` says "A visible leader is never displaced") |
| `tabs` | `frozen`, or `ForegroundCatchesUp` without its exception for faults | `ForegroundCatchesUp` | a frozen tab is granted the lock; a takeover that fails keeps it (`IndexerState.ts:1307-1311`) |

`deliver` FALSE is a writer without a deliver callback, or a fold held by a
process that did not receive the batch; it then moves by chunks alone.

Two further behaviours met in `TabElection`: a refusal that arrives late demotes
and resigns the tenure that has replaced its own (`IndexerState.ts:1901-1905`), and
a refusal handled before the lock's own rejection resigns the tab for good
(`:1867`), though `:743-746` says that a demoted tab queues again. In `Receiving`, a
stream reaped while a batch is in flight keeps a claim that starts above its first
block, so that a generation added to it later is never promoted.

## 4. Fairness

- **Follower, `IndexCycle`**: the loop runs again and reads the tip afresh (`_auto_index`
  re-arms itself after a cycle and after a failure, and so does the CLI's loop); a store
  call that was made answers. Weak.
- **`LogFetcher`**: the loop of a host runs another cycle after every report but a fatal
  one (`fetcher-host/src/schedule.ts`), and calls are answered or fail. Weak, per sender.
- **`SharedStream`**: the same of the senders; a request that arrives is handled and a
  host keeps calling `rebuildMore`. Weak. Offering a delta is strongly fair: it waits for
  its turn in the fold's promise chain, which is first in, first out.
- **`Container`**: the index loop goes on and a call that was made proceeds. Weak.
- **`Receiving`**: the same for the rebuild loop; strong for `ingest` and `control`,
  which queue for turns that the loop takes and gives back again and again
  (`receivingContainer.ts:2190-2197`).
- **`TabElection`**: a visible tab runs and its settle timer fires; a hidden tab handles
  its events in the end unless frozen. Nothing is assumed of a hidden tab's indexing,
  since browsers throttle it.

Nothing is assumed of the chain but that it holds still in the end, which is the left
side of the `CatchesUp` properties; reorgs, crashes, faults, losses, restarts, operator
calls, steals and closes are never fair.

## 5. The proofs

**`ChainFollowerProofs`**, for every chain, finality, start block and span, under
`MaxRegress = 0` and `MinSpan > Finality`: `TypeCorrect`, `WindowSound`,
`SettledForGood`, `DeliverySafe`, `RevertsExactly` and `CycleCorrect`, the safety half
of run `follower`. The two hypotheses are needed: the first two rows of the table above
refute the properties without them. The inductive invariant is

    IInv = TypeOK, CursorOrdered, WindowComplete, SettledMatchesChain, AncestorsApplied

`WindowComplete` (the window is exactly the applied blocks a fetch can return) and
`SettledMatchesChain` (below the next fetch the state is the chain) are what a reader
wants and are not inductive. A fetched block is new when the window does not hold it,
and it could be new *below* a retained block, which the store would refuse. That it
never is needs `AncestorsApplied`: the state below any applied block is that block's own
chain, so a window block that survives the fetch vouches for everything under it.
`CursorOrdered` ties the cursor's heights to the tip and to the state.

**`StateStoreProofs`**, for every set of keys, values and hashes, every retention, depth
and prune budget:

- `BooksInOrder`: `Spec => []StoreSound`. The block index and the versions' bounds are
  inductive as they stand: a superseding write closes the one live version at its own
  block, a revert drops what began above and re-opens what was closed above, and a prune
  only deletes closed versions.
- `StoreImplementsHistory`: `Spec => ImplementsHistory`, step simulation of
  `StateHistory`. It needs `WithinReach`: the tip is at most the highest block ever
  applied, and nothing at or above highest − `RevertReach` has been pruned. The row
  lemmas say what an as-of read returns after a write, a revert or a prune of that row.
  `ReachAssumption` is the contract the code states: a caller reverts no deeper than the
  depth the store was opened for.

**`IndexCycleProofs`**, for every chain, finality, start block and number of deaths:
`RestartsAreSafe` (`CycleSound`), `NoBlockIsRefused` (`NeverRefused`) and
`CyclesEndOnChain` (`CycleEndsOnChain`), the safety half of run `cycle`. The hypothesis
`Sheltered` is what the run fixes: the tip does not fall, an abandoned block does not
return, a wipe waits for the cycle in flight, and a plan with wipes has no deaths. The
variants above refute the properties without each of them. The invariant says three
things. What is on disk is `Resumable`: settled below the block the stored cursor resumes
at, and in its window above; a window block that the state lacks was reverted by a call
that died, and then a block at or below it is abandoned, so the next fetch retracts it
again. A call in flight (`InFlight`) has left to do exactly what makes the state the chain
it was served, in ascending order. And between calls the cursor in memory is the one on
disk (`Phases`). `RestartSafe` alone is not inductive: a death between `revertTo` and the
first `applyBlock` leaves a window with blocks the state has lost, and only the second
clause says why that is harmless.

**`LogFetcherProofs`**, for every node, chain, configuration and number of fetchers:
`ReceiverHasWhole` (`ReceivedWhole`) and `StopsAreJustified` (`StopsOnlyForGood`). The
hypothesis `SilenceIsNoticed` is the one the code asks of an operator: where a node cuts
answers in silence, the suspect count is at most its cap. The invariant says of a fetcher
at each await what its range is: it starts at or below the tip that was read, and may end
above that tip only where not even two blocks fit an answer (`Reaches`), since then it is
refused or suspicious before anything looks at its end. Without that exception the
invariant is false: a refusal that names a block resets the end without the tip.

**`ContainerProofs`**, for every set of generations and streams, every policy, cap and
height, and any number of calls and deaths: `ContainerStaysSound` (`ContainerSound`),
`ReadsGoOn` (`ReadsAdvance`) and `ReadsGoForward` (`ReadsNeverGoBack`), with one move of
reads in flight at a time, and for `ReadsGoOn` no move back under a waiting drop; run
`container` with `Racing` or `Revert` refutes it. In these three generations may be
added again. The
invariant is about what a task carries over its awaits: a fold is out of the loop before
its record goes and does not come back before its state is gone (`TaskDrops`); what the
loop moves reads to stays driven, and level, unless its record goes (`TaskMoves`); what
answers reads is named by no waiting drop (`Kept`); a cursor that was seen is the state's
(`Level`). That a set of generations has a newest one is proved from the well-foundedness
of the numbers and a bound on the ages, not by induction.

`EveryStreamHasOneFetcher` (`OneFetcher`) needs more of the environment, `Orderly`: one
move in flight, no move back, nothing added again and no drop overtaken by a
registration. Without either of the last two a variant above refutes it; with all four
the theorem still covers every interleaving of the loop with an operator's call and a
death at any await. Its invariant `Fetching` says why a stream does not lose its fetcher:
a held fold fetches exactly when it is the oldest held on its stream (`Penned`); the
survey a registration made before its awaits still tells whether the arriving fold is
the oldest (`Surveyed`, `Arrives`); and the fold the loop is dropping is one whose record
it can delete, so that the hand-over follows (`Going`). The case that fails, a fold whose
record goes under it, was found through this proof.

**`TabElectionProofs`**, for any number of tabs, blocks, steals, flips, closes and faults:

- `OneWriterContinues` (`WritesContinue`): the store moves one block at a time whatever
  the election does, because of the claim alone. The invariant `Writers` says that a
  tab's handles are its own (`OwnHandles`) and that the handle the claim names, if it is
  loaded, has the stored block as its cursor (`ClaimIsLevel`): a claim that moves leaves
  every earlier handle refused.
- `LeaseIsKnown` (`LeaseKnown`): lock and tabs agree. The events of a tab arrive in order,
  so what is in its inbox is what it does not know yet; `Lease` lists, for each phase of a
  candidacy, the few inboxes that are possible, and that a tab waits in the queue at most
  once. Races are included.
- `ReadersStaySilent` (`ReadersDoNotWrite`) and `LeaderIsNotRefused` (`LeaderHasTheClaim`),
  each with the exception for races that the property itself states: without races a
  start is over before its tab can lose the lock (`Calm`), so whoever claims holds it.

**`ReceivingProofs`**, for every set of generations and streams, every configuration,
list of calls and height, and any number of deaths, with no hypothesis beyond the
assumptions on the constants: `Sound` (`ReceivingSound`), `FoldedOnce`
(`OneFoldPerState`), `Whole` (`NoHoles`), `ReadsAreFolded` (`ReadsStayFolded`) and
`SettlesForward` (`SettlingNeverGoesBack`), the safety half of run `receiving`. The
exceptions are in the properties, and the variants above refute them without. The
invariant has two parts.

- `Ordered` holds with any overlap of calls, and gives `NoHoles` and the soundness of
  the registry. Each stage of a task carries what its awaits need
  (`TaskTyped`); a part of `open` runs only while the container is closed (`Placed`,
  `Shut`); and what an operator's call has deleted stays deleted until the call is
  over, because only operator's calls create. Without the last, the fold that a reclaim
  lets go could be the one that reads have come back to.
- `Calm` holds where no call overlaps a promotion by the loop, and gives the rest. The
  loop and an operator's call are never both in the middle of a change to the slots
  (`Apart`), so that what one of them read stays true until it commits: what is being
  dropped is no longer held, what is being built is not held yet, and from the commit of
  a move until it is over reads are where it put them, so that the fold it lets go of
  behind its last await is not the one that answers (`Carries`); what is
  held is registered and has its state, but for the one whose record has just gone
  (`Driven`, `HasState`). `Settles` is why a comparison of cursors outlives its awaits:
  a held incumbent is the fold whose turn the task holds, so neither a delivery nor a
  chunk moves it, and the target only ever advances. The one incumbent this does not
  cover, let go and still in a pass of the loop, was found through this proof; it is a
  row of the table above.

Only model-checked, and why:

- every liveness property: fairness is out of the prover's reach;
- the four invariants of `SharedStream`: what a fold or a reader makes of a sequence of
  rows is a filter and a fold over that sequence, and its effect on rows of any number
  needs induction over data.

## 6. What is not modelled, and the plan

In order:

1. **Stream cache beside the cycle**: `streamWrittenNotProcessed`, segment
   carry-forward, seeds; a crash between saving the stream and processing it.
2. **Pause and feed** in `IndexCycle`; the widths of the chain follower's own requests
   from `LogFetcher`'s arithmetic (`indexer.ts:1971` takes the answered end without
   capping it by the tip).
3. **SQL, IndexedDB and patch backends** as refinements of `StateStore`.
4. **Server feed** cursors against compaction and reorgs; state-moved tokens.
5. **Worker host** (`host/serve.ts`): the protocol of `TabElection` with a sequential
   driver; host phases.
6. In the containers: a second process over one registry, seeds, the bytes of bundles,
   the retry of a contended commit; in `StreamBuilder`, its store and processor calls.

Theorems left: `StreamSound` of `SharedStream`, for the reason above; and that
`IndexCycle` without faults implements `ChainFollower`. The latter is not a step
simulation as the modules stand: a cycle reads the tip and the range at two awaits and
the chain may move in between, while `ChainFollower` reads both at once, so the abstract
step has no single place in the detailed cycle. What it would say of safety is proved of
`IndexCycle` directly, by `CyclesEndOnChain` and `RestartsAreSafe`.

Left out for good: decoding and filtering of logs, the text of refusals, GraphQL
planning, option parsing, document formats, platform entry points. They keep no state
that the others depend on. Much of the repository is of this kind, or is a second and
third spelling of the store's contract, or tests and examples.
