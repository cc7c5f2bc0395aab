------------------------------ MODULE Receiving ------------------------------
(***************************************************************************)
(* The receiving container: the streams are pushed to it, one writer each, *)
(* and every fold takes what is appended or reads it back in chunks. The   *)
(* canonical generation answers reads, a successor catches up beside it    *)
(* and is promoted, the predecessor is what reads can be moved back to.    *)
(* Every generation's code is stored with it, so a fold that is not held   *)
(* can be instantiated.                                                    *)
(*                                                                         *)
(* Three tasks interleave at their awaits: `ingest`, a batch being         *)
(* received; `loop`, the timer that calls rebuildMore; and `control`, an   *)
(* open, an upload, a promote or a reclaim.                                *)
(***************************************************************************)
EXTENDS Generations, Sequences

CONSTANTS
    Configs,        \* how a container may be configured, what a process may be
                    \* started with, what the operator calls, the bound on
                    \* process deaths, and whether a call may overlap a
                    \* promotion by the loop (racing)
    MaxBlock        \* the height of the chain

ASSUME ReceivingAssumption ==
    /\ Configs \subseteq [policy : {"on-catch-up", "immediate", "manual"}, dropOnPromotion : BOOLEAN,
                         instantiates : BOOLEAN, fetchesItsOwnStreams : BOOLEAN, maxGenerations : Nat,
                         calls : Seq({"add", "promote", "reclaim"}), restarts : Nat, racing : BOOLEAN,
                         starts : SUBSET (Generations \cup {Nothing})]
    /\ MaxBlock \in Nat
    /\ Nothing \notin Nat
    /\ \A blocks \in SUBSET (1 .. MaxBlock) : Nothing # blocks

VARIABLES
    config,     \* how this container is configured: it never changes
    registry,   \* disk: the generation registry
    state,      \* disk: the blocks in each generation's state, Nothing without tables
    stored,     \* disk: the blocks each stream covers, Nothing without rows
    opened,     \* the container is open
    held,       \* folds, in the order they were taken
    built,      \* instantiatedHere: the folds that came from a stored bundle
    tasks,      \* what is in flight
    controls, restarts

disk == <<registry, state, stored>>
memory == <<opened, held, built>>
counters == <<controls, restarts>>
vars == <<config, disk, memory, tasks, counters>>

Tasks == {"ingest", "loop", "control"}
Blocks == 1 .. MaxBlock
Claim == [from : Blocks, to : Blocks]

Idle == [pc |-> "idle"]
Becomes(p, t) == tasks' = [tasks EXCEPT ![p] = t]
At(p, pc) == tasks[p].pc = pc

(* What a call does after the part it is in: it returns, or open goes on.   *)
Continue(then) == IF then = "idle" THEN Idle ELSE [pc |-> then]

canonical == registry.slots.canonical
successor == registry.slots.successor

Held == {held[i] : i \in DOMAIN held}

(* stopDriving: the first fold of that generation is spliced out.           *)
Unheld(s, g) ==
    IF \A i \in DOMAIN s : s[i] # g THEN s
    ELSE LET k == CHOOSE i \in DOMAIN s : s[i] = g /\ \A j \in DOMAIN s : s[j] = g => i <= j
         IN SubSeq(s, 1, k - 1) \o SubSeq(s, k + 1, Len(s))

heldStreams == StreamsOf(Held)

(* The last block of a state, 0 before the first.                           *)
Reached(g) == IF state[g] = {} THEN 0 ELSE CHOOSE n \in state[g] : \A m \in state[g] : n >= m

(* readStateCursor: a state that has folded nothing has no cursor.          *)
cursorOf(g) == IF state[g] \in {Nothing, {}} THEN Nothing ELSE Reached(g)

(* createState makes the tables that are not there.                         *)
Migrated(g) == [state EXCEPT ![g] = IF @ = Nothing THEN {} ELSE @]

Init ==
    /\ config \in Configs
    /\ registry = EmptyRegistry
    /\ state = [g \in Generations |-> Nothing] /\ stored = [s \in Streams |-> Nothing]
    /\ opened = FALSE /\ held = <<>> /\ built = {}
    /\ tasks = [p \in Tasks |-> Idle]
    /\ controls = 0 /\ restarts = 0

-----------------------------------------------------------------------------
(* One advance per fold: a promotion being settled holds the incumbent's    *)
(* turn from before the cursors are compared until reads have moved.        *)

Turn(t) == IF "turn" \in DOMAIN t THEN t.turn ELSE Nothing

Busy(g) == \E p \in Tasks : Turn(tasks[p]) = g

-----------------------------------------------------------------------------
(* ingest: receive, append, offerToFolds.                                   *)

(* liveStreams: a stream is fetched while a registered fold here reads it.  *)
Receive(s) ==
    LET position == IF stored[s] = Nothing THEN 0 ELSE stored[s].to
    IN /\ opened /\ At("ingest", "idle")
       /\ s \in StreamsOf(Held \cap registry.records)
       /\ position < MaxBlock
       /\ Becomes("ingest", [pc |-> "append", stream |-> s, block |-> position + 1])
       /\ UNCHANGED <<config, disk, memory, counters>>

(* The claim keeps where it started once it is there.                       *)
Claimed(claim, block) == [from |-> IF claim = Nothing THEN block ELSE claim.from, to |-> block]

AppendEmissions ==
    LET t == tasks["ingest"]
        folds == SelectSeq(held, LAMBDA g : StreamOf[g] = t.stream)
    IN /\ At("ingest", "append")
       /\ stored' = [stored EXCEPT ![t.stream] = Claimed(@, t.block)]
       /\ Becomes("ingest", IF folds = <<>> THEN Idle ELSE [pc |-> "deliver", block |-> t.block, todo |-> folds])
       /\ UNCHANGED <<config, registry, state, memory, counters>>

(* A fold that is level takes the delta; one that is behind declines it,    *)
(* and one that was let go is passed over.                                  *)
Deliver ==
    LET t == tasks["ingest"]
        g == Head(t.todo)
    IN /\ At("ingest", "deliver")
       /\ ~Busy(g)
       /\ state' = IF g \in Held /\ state[g] # Nothing /\ Reached(g) = t.block - 1
                   THEN [state EXCEPT ![g] = @ \cup {t.block}] ELSE state
       /\ Becomes("ingest", IF Len(t.todo) = 1 THEN Idle ELSE [t EXCEPT !.todo = Tail(@)])
       /\ UNCHANGED <<config, registry, stored, memory, counters>>

-----------------------------------------------------------------------------
(* loop: rebuildMore, one chunk per registered fold, then settlePromotion.  *)

Chunks(todo) == IF todo = <<>> THEN [pc |-> "settle", then |-> "idle"] ELSE [pc |-> "chunks", todo |-> todo]

RebuildMore ==
    /\ opened /\ At("loop", "idle")
    /\ Becomes("loop", Chunks(SelectSeq(held, LAMBDA g : g \in registry.records)))
    /\ UNCHANGED <<config, disk, memory, counters>>

(* A stream that starts above the fold is folded all the same.              *)
ReplayedFromAnywhere(g) ==
    LET claim == stored[StreamOf[g]]
    IN IF claim = Nothing THEN state[g]
       ELSE state[g] \cup {n \in claim.from .. claim.to : n > Reached(g)}

(* A stream has to start below where the fold resumes.                      *)
ReplayedOffByOne(g) ==
    LET claim == stored[StreamOf[g]]
    IN IF claim = Nothing \/ claim.from > Reached(g) THEN state[g]
       ELSE state[g] \cup {n \in claim.from .. claim.to : n > Reached(g)}

(* more(): nothing is folded from a stream that does not reach back to      *)
(* where the fold resumes.                                                  *)
Replayed(g) ==
    LET claim == stored[StreamOf[g]]
    IN IF claim = Nothing \/ claim.from > Reached(g) + 1 THEN state[g]
       ELSE state[g] \cup {n \in claim.from .. claim.to : n > Reached(g)}

(* A fold whose tables are gone throws, and the pass ends there.            *)
Chunk ==
    LET t == tasks["loop"]
        g == Head(t.todo)
    IN /\ At("loop", "chunks")
       /\ ~Busy(g)
       /\ IF state[g] = Nothing
          THEN Becomes("loop", Idle) /\ UNCHANGED state
          ELSE Becomes("loop", Chunks(Tail(t.todo))) /\ state' = [state EXCEPT ![g] = Replayed(g)]
       /\ UNCHANGED <<config, registry, stored, memory, counters>>

-----------------------------------------------------------------------------
(* Promotion: settlePromotion, promoteIfLevel, movePointer.                 *)

(* Whether a task may begin what changes the slots.                         *)
MayMove(p) ==
    config.racing \/ \A q \in Tasks \ {p} : tasks[q].pc \in {"idle", "append", "deliver", "chunks", "settle"}

NothingToSettle(p) ==
    /\ At(p, "settle")
    /\ config.policy # "on-catch-up" \/ Nothing \in {canonical, successor}
    /\ Becomes(p, Continue(tasks[p].then))
    /\ UNCHANGED <<config, disk, memory, counters>>

(* The comparison is made outside the incumbent's turn.                     *)
SettleOutOfTurn(p) ==
    /\ At(p, "settle")
    /\ config.policy = "on-catch-up" /\ Nothing \notin {canonical, successor}
    /\ MayMove(p)
    /\ Becomes(p, [pc |-> "level", incumbent |-> canonical, target |-> successor, then |-> tasks[p].then])
    /\ UNCHANGED <<config, disk, memory, counters>>

(* The slots are read, and the comparison waits for the incumbent's turn.   *)
Settle(p) ==
    /\ At(p, "settle")
    /\ config.policy = "on-catch-up" /\ Nothing \notin {canonical, successor}
    /\ MayMove(p)
    /\ ~Busy(canonical)
    /\ Becomes(p, [pc |-> "level", incumbent |-> canonical, target |-> successor, then |-> tasks[p].then,
                   turn |-> IF canonical \in Held THEN canonical ELSE Nothing])
    /\ UNCHANGED <<config, disk, memory, counters>>

(* Only past it counts.                                                     *)
HasPassedCursor(cursor, at) == cursor # Nothing /\ at # Nothing /\ cursor > at

hasReachedCursor(cursor, at) == cursor # Nothing /\ at # Nothing /\ cursor >= at

(* promoteIfLevel: the two cursors as they are stored.                      *)
Level(p) ==
    LET t == tasks[p]
    IN /\ At(p, "level")
       /\ Becomes(p, IF hasReachedCursor(cursorOf(t.target), cursorOf(t.incumbent))
                     THEN [pc |-> "move", target |-> t.target, then |-> t.then, turn |-> Turn(t), settles |-> TRUE]
                     ELSE Continue(t.then))
       /\ UNCHANGED <<config, disk, memory, counters>>

(* movePointer: the slots as they are before, and whether the target has to *)
(* be built from its bundle first.                                          *)
Move(p) ==
    LET t == tasks[p]
        builds == config.instantiates /\ t.target # canonical /\ t.target \notin Held
    IN /\ At(p, "move")
       /\ Becomes(p, [pc |-> IF builds THEN "instantiate" ELSE "commit",
                      target |-> t.target, then |-> t.then, turn |-> t.turn, settles |-> t.settles,
                      superseded |-> canonical, wasPromotion |-> successor = t.target, fold |-> FALSE])
       /\ UNCHANGED <<config, disk, memory, counters>>

(* A fold whose stream nothing here fetches is not built: it is frozen.     *)
Instantiate(p) ==
    LET t == tasks[p]
        folds == t.target \in registry.records /\ (heldStreams = {} \/ StreamOf[t.target] \in heldStreams)
    IN /\ At(p, "instantiate")
       /\ state' = IF folds THEN Migrated(t.target) ELSE state
       /\ Becomes(p, [t EXCEPT !.pc = "commit", !.fold = folds])
       /\ UNCHANGED <<config, registry, stored, memory, counters>>

(* The stored bundle cannot be turned into a fold: the move is refused.     *)
InstantiationFails(p) ==
    /\ At(p, "instantiate")
    /\ Becomes(p, Continue(tasks[p].then))
    /\ UNCHANGED <<config, disk, memory, counters>>

(* moveCanonicalTo: one commit. What becomes of the fold reads moved off is *)
(* decided after it, from the slots as they were before.                    *)
CommitMove(p) ==
    LET t == tasks[p]
    IN /\ At(p, "commit")
       /\ t.target \in registry.records
       /\ registry' = MovedTo(registry, t.target, TRUE)
       /\ Becomes(p, [pc |-> "moved", target |-> t.target, then |-> t.then, turn |-> t.turn,
                      superseded |-> t.superseded, wasPromotion |-> t.wasPromotion, fold |-> t.fold])
       /\ UNCHANGED <<config, state, stored, memory, counters>>

(* Whether the fold that reads moved off is folded no more. It is kept with *)
(* its state: only a promotion with dropOnPromotion deletes it.             *)
StopsFolding(t, now) ==
    /\ t.superseded \in now /\ t.target \in now
    /\ \/ ~t.wasPromotion
       \/ t.superseded \in built
       \/ config.fetchesItsOwnStreams /\ StreamOf[t.superseded] # StreamOf[t.target]

(* Whether it is let go if its bundle can be read, so that it could be      *)
(* built again: canBeInstantiatedAgain, which is awaited.                   *)
AsksForBundle(t, now) ==
    /\ t.superseded \in now /\ t.target \in now
    /\ config.instantiates /\ StreamOf[t.superseded] = StreamOf[t.target]

(* A move onto what answers already takes the old fold out all the same.    *)
MovesAlways(t) == t.superseded # Nothing

Moves(t) == t.superseded \notin {Nothing, t.target}

(* The hold of what was built, and what becomes of the fold reads moved     *)
(* off, as the slots read before the commit have it.                        *)
AfterMove(p) ==
    LET t == tasks[p]
        now == IF t.fold THEN Append(held, t.target) ELSE held
        folding == {now[i] : i \in DOMAIN now}
        drops == Moves(t) /\ config.dropOnPromotion /\ t.wasPromotion /\ t.superseded \in Held
        stops == Moves(t) /\ ~drops /\ StopsFolding(t, folding)
        asks == Moves(t) /\ ~drops /\ ~stops /\ AsksForBundle(t, folding)
    IN /\ At(p, "moved")
       /\ held' = IF drops \/ stops THEN Unheld(now, t.superseded) ELSE now
       /\ built' = (IF t.fold THEN built \cup {t.target} ELSE built) \
                   (IF drops \/ stops THEN {t.superseded} ELSE {})
       /\ Becomes(p, IF drops THEN [pc |-> "delete", gone |-> t.superseded, then |-> t.then, turn |-> t.turn]
                     ELSE IF asks THEN [pc |-> "letGo", gone |-> t.superseded, then |-> t.then, turn |-> t.turn]
                     ELSE Continue(t.then))
       /\ UNCHANGED <<config, disk, opened, counters>>

(* The bundle is there: the fold is let go, whatever reads moved to since.  *)
LetGo(p) ==
    LET t == tasks[p]
    IN /\ At(p, "letGo")
       /\ held' = Unheld(held, t.gone)
       /\ built' = built \ {t.gone}
       /\ Becomes(p, Continue(t.then))
       /\ UNCHANGED <<config, disk, opened, counters>>

(* The bundle cannot be read: the fold is kept.                             *)
KeepFolding(p) ==
    /\ At(p, "letGo")
    /\ Becomes(p, Continue(tasks[p].then))
    /\ UNCHANGED <<config, disk, memory, counters>>

MoveUnknown(p) ==
    /\ At(p, "commit")
    /\ tasks[p].target \notin registry.records
    /\ Becomes(p, Continue(tasks[p].then))
    /\ UNCHANGED <<config, disk, memory, counters>>

(* dropSuperseded, after it let the fold go; a refusal is logged.           *)
Delete(p) ==
    LET t == tasks[p]
    IN /\ At(p, "delete")
       /\ registry' = IF Deletable(registry, t.gone) THEN deleteGeneration(registry, t.gone, FALSE) ELSE registry
       /\ Becomes(p, IF Deletable(registry, t.gone) THEN [t EXCEPT !.pc = "dropState"] ELSE Continue(t.then))
       /\ UNCHANGED <<config, state, stored, memory, counters>>

DropState(p) ==
    /\ At(p, "dropState")
    /\ state' = [state EXCEPT ![tasks[p].gone] = Nothing]
    /\ Becomes(p, Continue(tasks[p].then))
    /\ UNCHANGED <<config, registry, stored, memory, counters>>

-----------------------------------------------------------------------------
(* control: promote, reclaim, and what add and open are made of.            *)

(* The operator makes its next call.                                        *)
Calls(verb) ==
    /\ opened /\ At("control", "idle")
    /\ controls < Len(config.calls) /\ config.calls[controls + 1] = verb
    /\ MayMove("control")
    /\ controls' = controls + 1
    /\ UNCHANGED <<config, disk, memory, restarts>>

Promote(g) ==
    /\ Calls("promote")
    /\ g \in registry.records
    /\ Becomes("control", [pc |-> "move", target |-> g, then |-> "idle", turn |-> Nothing, settles |-> FALSE])

Reclaim ==
    /\ Calls("reclaim")
    /\ Becomes("control", [pc |-> "reclaim", garbage |-> {g \in registry.records : slotHolding(registry.slots, g) = {}}])

(* The newest first; a refusal is reported and the next is tried.           *)
ReclaimNext ==
    LET t == tasks["control"]
        g == Newest(t.garbage, registry.born)
    IN /\ At("control", "reclaim")
       /\ t.garbage # {}
       /\ registry' = IF Deletable(registry, g) THEN deleteGeneration(registry, g, TRUE) ELSE registry
       /\ Becomes("control",
            IF Deletable(registry, g)
            THEN [pc |-> "reclaimState", gone |-> g, reaps |-> Reaps(registry, g, TRUE), garbage |-> t.garbage \ {g}]
            ELSE [t EXCEPT !.garbage = @ \ {g}])
       /\ UNCHANGED <<config, state, stored, memory, counters>>

ReclaimState ==
    LET t == tasks["control"]
    IN /\ At("control", "reclaimState")
       /\ state' = [state EXCEPT ![t.gone] = Nothing]
       /\ Becomes("control", [t EXCEPT !.pc = "reclaimStream"])
       /\ UNCHANGED <<config, registry, stored, memory, counters>>

(* The reaped stream's rows and claim go, then the fold.                    *)
ReclaimStream ==
    LET t == tasks["control"]
    IN /\ At("control", "reclaimStream")
       /\ stored' = IF t.reaps THEN [stored EXCEPT ![StreamOf[t.gone]] = Nothing] ELSE stored
       /\ held' = Unheld(held, t.gone)
       /\ built' = built \ {t.gone}
       /\ Becomes("control", [pc |-> "reclaim", garbage |-> t.garbage])
       /\ UNCHANGED <<config, registry, state, opened, counters>>

Reclaimed ==
    /\ At("control", "reclaim")
    /\ tasks["control"].garbage = {}
    /\ Becomes("control", Idle)
    /\ UNCHANGED <<config, disk, memory, counters>>

(* An upload, or the generation a process is started with.                  *)
Add(g) ==
    /\ Calls("add")
    /\ Becomes("control", [pc |-> "register", target |-> g, then |-> "idle"])

(* A second fold over a state that has one.                                 *)
BuildsAlways(g) == TRUE

(* One that is held is registered again and no second fold is built.        *)
Builds(g) == g \notin Held

Register ==
    LET t == tasks["control"]
    IN /\ At("control", "register")
       /\ state' = IF Builds(t.target) THEN Migrated(t.target) ELSE state
       /\ Becomes("control", [pc |-> "replace", target |-> t.target, then |-> t.then, fold |-> Builds(t.target),
                              displaced |-> displacedBySuccessor(t.target, registry, Held)])
       /\ UNCHANGED <<config, registry, stored, memory, counters>>

(* dropReplaced: a refusal is logged and the fold is left as it was.        *)
Replace ==
    LET t == tasks["control"]
        g == Newest(t.displaced, registry.born)
    IN /\ At("control", "replace")
       /\ t.displaced # {}
       /\ registry' = IF Deletable(registry, g) THEN deleteGeneration(registry, g, FALSE) ELSE registry
       /\ Becomes("control",
            IF Deletable(registry, g)
            THEN [pc |-> "replaceState", gone |-> g, displaced |-> t.displaced \ {g},
                  target |-> t.target, then |-> t.then, fold |-> t.fold]
            ELSE [t EXCEPT !.displaced = @ \ {g}])
       /\ UNCHANGED <<config, state, stored, memory, counters>>

(* The replaced one's record and state go; it is driven on.                 *)
ReplaceStateOnly ==
    LET t == tasks["control"]
    IN /\ At("control", "replaceState")
       /\ state' = [state EXCEPT ![t.gone] = Nothing]
       /\ Becomes("control", [pc |-> "replace", displaced |-> t.displaced, target |-> t.target,
                              then |-> t.then, fold |-> t.fold])
       /\ UNCHANGED <<config, registry, stored, memory, counters>>

ReplaceState ==
    LET t == tasks["control"]
    IN /\ At("control", "replaceState")
       /\ state' = [state EXCEPT ![t.gone] = Nothing]
       /\ held' = Unheld(held, t.gone)
       /\ built' = built \ {t.gone}
       /\ Becomes("control", [pc |-> "replace", displaced |-> t.displaced, target |-> t.target,
                              then |-> t.then, fold |-> t.fold])
       /\ UNCHANGED <<config, registry, stored, opened, counters>>

(* create and hold. At a cap the call throws; a start that throws ends.     *)
Create ==
    LET t == tasks["control"]
    IN /\ At("control", "replace")
       /\ t.displaced = {}
       /\ ~CapReached(registry, t.target, config.maxGenerations)
       /\ registry' = Created(registry, t.target, "successor")
       /\ held' = IF t.fold THEN Append(held, t.target) ELSE held
       /\ Becomes("control", [pc |-> "policy", target |-> t.target, then |-> t.then])
       /\ UNCHANGED <<config, state, stored, opened, built, counters>>

RefuseAtCap ==
    /\ At("control", "replace")
    /\ tasks["control"].displaced = {}
    /\ CapReached(registry, tasks["control"].target, config.maxGenerations)
    /\ Becomes("control", Idle)
    /\ UNCHANGED <<config, disk, memory, counters>>

(* applyPolicyTo: the slots are read again, and only a successor is moved.  *)
ApplyPolicy ==
    LET t == tasks["control"]
    IN /\ At("control", "policy")
       /\ Becomes("control",
            IF successor # t.target \/ config.policy = "manual" THEN Continue(t.then)
            ELSE IF config.policy = "on-catch-up" THEN [pc |-> "settle", then |-> t.then]
            ELSE [pc |-> "move", target |-> t.target, then |-> t.then, turn |-> Nothing, settles |-> FALSE])
       /\ UNCHANGED <<config, disk, memory, counters>>

-----------------------------------------------------------------------------
(* open: the registry sweeps what nothing claims, the start is added, and   *)
(* what the slots name is instantiated.                                     *)

Swept == [s \in Streams |-> IF s \in StreamsOf(registry.records) \cup registry.kept THEN stored[s] ELSE Nothing]

OpenWith(g) ==
    /\ ~opened /\ At("control", "idle")
    /\ g \in config.starts
    /\ stored' = Swept
    /\ held' = <<>> /\ built' = {}
    /\ Becomes("control",
         IF canonical = g /\ successor # Nothing
         THEN [pc |-> "discard", target |-> g]
         ELSE [pc |-> "register", target |-> g, then |-> "foldCanonical"])
    /\ UNCHANGED <<config, registry, state, opened, counters>>

OpenWithNothing ==
    /\ ~opened /\ At("control", "idle")
    /\ config.instantiates /\ Nothing \in config.starts
    /\ stored' = Swept
    /\ held' = <<>> /\ built' = {}
    /\ Becomes("control", [pc |-> "foldCanonical"])
    /\ UNCHANGED <<config, registry, state, opened, counters>>

(* A start that names the canonical one discards the pending successor.     *)
DiscardPending ==
    LET t == tasks["control"]
    IN /\ At("control", "discard")
       /\ registry' = deleteGeneration(registry, successor, FALSE)
       /\ Becomes("control", [pc |-> "discardState", target |-> t.target, gone |-> successor])
       /\ UNCHANGED <<config, state, stored, memory, counters>>

DiscardState ==
    LET t == tasks["control"]
    IN /\ At("control", "discardState")
       /\ state' = [state EXCEPT ![t.gone] = Nothing]
       /\ Becomes("control", [pc |-> "register", target |-> t.target, then |-> "foldCanonical"])
       /\ UNCHANGED <<config, registry, stored, memory, counters>>

(* instantiateAtOpen, unless the fold is there already.                     *)
InstantiateAtOpen(g, then) ==
    LET builds == config.instantiates /\ g \notin Held \cup {Nothing}
    IN /\ state' = IF builds THEN Migrated(g) ELSE state
       /\ held' = IF builds THEN Append(held, g) ELSE held
       /\ built' = IF builds THEN built \cup {g} ELSE built
       /\ Becomes("control", then)

FoldTheCanonical ==
    /\ At("control", "foldCanonical")
    /\ InstantiateAtOpen(canonical, [pc |-> "foldSuccessor"])
    /\ UNCHANGED <<config, registry, stored, opened, counters>>

FoldTheSuccessor ==
    /\ At("control", "foldSuccessor")
    /\ InstantiateAtOpen(successor, IF successor \in Held \cup {Nothing} \/ ~config.instantiates THEN [pc |-> "ready"]
                                    ELSE [pc |-> "policy", target |-> successor, then |-> "ready"])
    /\ UNCHANGED <<config, registry, stored, opened, counters>>

(* A bundle that cannot be turned into a fold leaves what a slot names      *)
(* unfolded, and open goes on.                                              *)
InstantiationFailsAtOpen ==
    /\ config.instantiates
    /\ \/ /\ At("control", "foldCanonical") /\ canonical \notin Held \cup {Nothing}
          /\ Becomes("control", [pc |-> "foldSuccessor"])
       \/ /\ At("control", "foldSuccessor") /\ successor \notin Held \cup {Nothing}
          /\ Becomes("control", [pc |-> "ready"])
    /\ UNCHANGED <<config, disk, memory, counters>>

Opened ==
    /\ At("control", "ready")
    /\ opened' = TRUE
    /\ Becomes("control", Idle)
    /\ UNCHANGED <<config, disk, held, built, counters>>

Restart ==
    /\ restarts < config.restarts
    /\ restarts' = restarts + 1
    /\ opened' = FALSE /\ held' = <<>> /\ built' = {}
    /\ tasks' = [p \in Tasks |-> Idle]
    /\ UNCHANGED <<config, disk, controls>>

-----------------------------------------------------------------------------

Ingesting == (\E s \in Streams : Receive(s)) \/ AppendEmissions \/ Deliver

Looping == RebuildMore \/ Chunk

Moving(p) ==
    \/ NothingToSettle(p) \/ Settle(p) \/ Level(p) \/ Move(p) \/ Instantiate(p)
    \/ CommitMove(p) \/ MoveUnknown(p) \/ AfterMove(p) \/ LetGo(p) \/ Delete(p) \/ DropState(p)

Adding == Register \/ Replace \/ ReplaceState \/ Create \/ RefuseAtCap \/ ApplyPolicy

Reclaiming == ReclaimNext \/ ReclaimState \/ ReclaimStream \/ Reclaimed

Opening == DiscardPending \/ DiscardState \/ FoldTheCanonical \/ FoldTheSuccessor \/ Opened

Calling == OpenWithNothing \/ Reclaim \/ \E g \in Generations : OpenWith(g) \/ Add(g) \/ Promote(g)

Next ==
    \/ Ingesting \/ Looping
    \/ \E p \in {"loop", "control"} : Moving(p) \/ InstantiationFails(p) \/ KeepFolding(p)
    \/ Calling \/ Adding \/ Reclaiming \/ Opening
    \/ InstantiationFailsAtOpen
    \/ Restart

Spec == Init /\ [][Next]_vars

(* Batches keep arriving, the timer keeps firing, and a call that is made   *)
(* is answered. The turns of a fold are taken in the order they were asked  *)
(* for, so what waits for one is not passed over for ever.                  *)
FairSpec ==
    /\ Spec
    /\ SF_vars(Ingesting) /\ SF_vars(Moving("control"))
    /\ WF_vars(Looping \/ Moving("loop"))
    /\ WF_vars(Adding \/ Reclaiming \/ Opening)

-----------------------------------------------------------------------------

Quiet == \A p \in Tasks : At(p, "idle")

(* Every variable has its type.                                             *)
TypeOK ==
    /\ config \in Configs
    /\ registry \in Registry
    /\ state \in [Generations -> (SUBSET Blocks) \cup {Nothing}]
    /\ stored \in [Streams -> Claim \cup {Nothing}]
    /\ opened \in BOOLEAN
    /\ held \in Seq(Generations) /\ built \subseteq Generations
    /\ DOMAIN tasks = Tasks
    /\ controls \in 0 .. Len(config.calls) /\ restarts \in 0 .. config.restarts

(* However uploads, promotions, reclaims and deaths interleave, every slot  *)
(* names one registered generation of its own and reads have an answer.     *)
RegistrySound == SlotsSound(registry) /\ RecordsSound(registry)

(* No state is folded by two folds: an upload of what is held, a promotion  *)
(* that instantiates and a start never build a second one over it.          *)
OneFoldPerState == ~config.racing => \A i, j \in DOMAIN held : held[i] = held[j] => i = j

(* Between two calls every fold is registered: nothing is folded into a     *)
(* state that was dropped.                                                  *)
HeldIsRegistered == opened /\ Quiet /\ ~config.racing => Held \subseteq registry.records

(* A registered generation has its state, whoever is dropped beside it: the *)
(* predecessor can always be moved back to.                                 *)
RegisteredHasState == ~config.racing => \A g \in registry.records : state[g] # Nothing

(* The registry, the states and the folds agree, through every interleaving *)
(* of uploads, promotions, reclaims and deaths.                             *)
ReceivingSound == TypeOK /\ RegistrySound /\ HeldIsRegistered /\ RegisteredHasState

(* Every state is the stream from its first block on, even when the stream  *)
(* was reaped and stored again under a batch that was in flight.            *)
NoHoles == \A g \in Generations : state[g] # Nothing => state[g] = 1 .. Reached(g)

(* What answers reads goes on being folded until reads move, although a     *)
(* move lets go of what it left some awaits after its commit. Calls that    *)
(* race are excepted: one may have moved reads back in between.             *)
ReadsStayFolded ==
    [][~config.racing /\ opened /\ opened' /\ canonical' = canonical /\ canonical \in Held
            => canonical \in Held']_vars

(* Catching up never moves reads to a state behind the one that answers,    *)
(* although folds advance while it is being decided. Two exceptions: calls  *)
(* that race, and an operator's call where what answers is not held, since  *)
(* a pass of the loop that began before it was let go still has it listed.  *)
SettlingNeverGoesBack ==
    [][~config.racing => \A p \in {"loop", "control"} :
            CommitMove(p) /\ tasks[p].settles /\ (p = "loop" \/ canonical \in Held) =>
                hasReachedCursor(cursorOf(tasks[p].target), cursorOf(canonical))]_vars

(* A successor that is folded is promoted in the end, unless its stream was *)
(* reaped under it or what answers reads has folded nothing.                *)
SuccessorIsPromoted ==
    opened /\ config.policy = "on-catch-up" /\ successor \in Held /\ cursorOf(canonical) # Nothing
        ~> \/ successor = Nothing \/ ~opened
           \/ successor \notin Held
           \/ stored[StreamOf[successor]] # Nothing /\ stored[StreamOf[successor]].from > 1

(* What answers reads reaches the head of the chain while it is folded.     *)
ReadsCatchUp ==
    opened /\ canonical \in Held ~> ~opened \/ canonical \notin Held \/ Reached(canonical) = MaxBlock
=============================================================================
