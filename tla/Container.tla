------------------------------ MODULE Container ------------------------------
(***************************************************************************)
(* The chain-facing container: one process that folds several generations, *)
(* of which one answers reads. One fold per stream fetches it from the     *)
(* chain and stores it; the others follow what is stored. A generation     *)
(* that is added becomes the successor, pushes out what it replaces, and   *)
(* is promoted by the policy; the promoted one may drop what it supersedes *)
(* and take the stream over.                                               *)
(*                                                                         *)
(* Two tasks run in the process and interleave at every await: `index`,    *)
(* the loop that drives every fold and then settles promotions, and        *)
(* `control`, an add, an open or a promote. The registry is on disk, so    *)
(* are the states and the streams; all else dies with the process.         *)
(***************************************************************************)
EXTENDS Generations, Sequences

CONSTANTS
    Configs,        \* the promotion policies, and the cap, a behaviour may run under
    MaxBlock,       \* the height of the chain
    MaxControls,    \* bound on adds and promotes
    MaxRestarts,    \* bound on process deaths
    Racing,         \* two moves of reads may be in flight at once
    Readd,          \* a generation that was registered and let go may be added again
    Revert,         \* reads may be moved back while a drop is waiting
    Overtaken       \* a drop may hand its stream to a fold that is being let go

ASSUME ContainerAssumption ==
    /\ Configs \subseteq [policy : {"on-catch-up", "immediate", "manual"}, dropOnPromotion : BOOLEAN,
                         maxGenerations : Nat]
    /\ MaxBlock \in Nat /\ MaxControls \in Nat /\ MaxRestarts \in Nat
    /\ Racing \in BOOLEAN /\ Readd \in BOOLEAN /\ Revert \in BOOLEAN /\ Overtaken \in BOOLEAN

VARIABLES
    config,     \* how this container is configured: it never changes
    registry,   \* disk: the generation registry
    state,      \* disk: how far each generation's state goes, 0 without one
    stored,     \* disk: how far each stream goes
    opened,     \* the container is open
    held,       \* the folds it drives, in the order it took them
    follows,    \* the folds that were given the stream read-only
    candidate,  \* the folds the policy is to promote
    lastSync,   \* the cursor of each fold as the container last saw it
    current,    \* the fold that answers reads
    deferred,   \* the drops that wait for the successor to reach a block
    tasks,      \* what is in flight
    controls, restarts

disk == <<registry, state, stored>>
memory == <<opened, held, follows, candidate, lastSync, current, deferred>>
counters == <<controls, restarts>>
vars == <<config, disk, memory, tasks, counters>>

policy == config.policy
dropOnPromotion == config.dropOnPromotion    \* a promotion drops what it supersedes

Tasks == {"index", "control"}
Cursor == 0 .. MaxBlock
Drop == [superseded : Generations, successor : Generations, at : Cursor]

Idle == [pc |-> "idle"]

(* A step of a task: what it does next, and what it carries there.          *)
Becomes(p, t) == tasks' = [tasks EXCEPT ![p] = t]
At(p, pc) == tasks[p].pc = pc

Held == {held[i] : i \in DOMAIN held}

(* The folds without one of them: splice at its index.                      *)
Unheld(g) ==
    IF g \in Held
    THEN LET i == CHOOSE i \in DOMAIN held : held[i] = g
         IN SubSeq(held, 1, i - 1) \o SubSeq(held, i + 1, Len(held))
    ELSE held

(* The drops that do not name a fold.                                       *)
NotNaming(g) == {d \in deferred : g \notin {d.superseded, d.successor}}

NotSeen == [g \in Generations |-> Nothing]

Init ==
    /\ config \in Configs
    /\ registry = EmptyRegistry
    /\ state = [g \in Generations |-> 0] /\ stored = [s \in Streams |-> 0]
    /\ opened = FALSE /\ held = <<>> /\ follows = {} /\ candidate = {}
    /\ lastSync = NotSeen /\ current = Nothing /\ deferred = {}
    /\ tasks = [p \in Tasks |-> Idle]
    /\ controls = 0 /\ restarts = 0

-----------------------------------------------------------------------------
(* What the container asks of its folds.                                    *)

Fetcher(S, stream) == fetcherOf(S, registry.born, stream)

(* A block short of it will do.                                             *)
HasAlmostReached(cursor, at) == cursor # Nothing /\ at # Nothing /\ cursor + 1 >= at

(* Only past it counts.                                                     *)
HasPassedCursor(cursor, at) == cursor # Nothing /\ at # Nothing /\ cursor > at

hasReachedCursor(cursor, at) == cursor # Nothing /\ at # Nothing /\ cursor >= at

(* readyForPromotion: the candidates level with the fold that answers.      *)
Ready(candidates) ==
    {i \in DOMAIN held :
        /\ held[i] # current /\ held[i] \in candidates
        /\ hasReachedCursor(lastSync[held[i]], lastSync[current])}

First(I) == CHOOSE i \in I : \A j \in I : i <= j

(* A task may begin to move reads.                                          *)
MayMove(p) ==
    Racing \/ \A q \in Tasks \ {p} : tasks[q].pc \notin {"move", "commit", "delete", "dropState"}

(* movePointerTo begins: what it supersedes is what answers now.            *)
MoveTo(g, then) == [pc |-> "move", target |-> g, superseded |-> current, then |-> then]

(* settlePromotion begins: promote the first that is ready, then the drops. *)
SettleOver(candidates) ==
    IF current # Nothing /\ Ready(candidates) # {}
    THEN MoveTo(held[First(Ready(candidates))], "drops")
    ELSE [pc |-> "drops"]

(* wouldStrandAFollower: the fold fetches a stream that another one here    *)
(* follows, or that the arriving one is about to.                           *)
wouldStrandAFollower(g, surviving, arriving) ==
    /\ Fetcher(surviving \cap Held, StreamOf[g]) = g
    /\ \/ StreamOf[g] = StreamOf[arriving]
       \/ \E h \in OnStream(Held, StreamOf[g]) \ {g} : h \in follows

-----------------------------------------------------------------------------
(* Registering a generation: open, add, registerGeneration, holdGeneration. *)

(* A process starts with the fold its build carries.                        *)
Open(g) ==
    /\ ~opened /\ At("control", "idle")
    /\ Becomes("control", [pc |-> "register", target |-> g])
    /\ UNCHANGED <<config, disk, memory, counters>>

MayControl == opened /\ At("control", "idle") /\ controls < MaxControls

(* A generation registered before that may not be held once it is created.  *)
ComesBack(g) == g \in registry.records /\ g \notin Held \ {current}

Add(g) ==
    /\ MayControl
    /\ Readd \/ ~ComesBack(g)
    /\ Revert \/ \A d \in deferred : d.superseded # g
    /\ controls' = controls + 1
    /\ Becomes("control", [pc |-> "register", target |-> g])
    /\ UNCHANGED <<config, disk, memory, restarts>>

(* What an arriving one displaces is dropped one by one.                    *)
Displacing(g, surviving, displaced) ==
    [pc |-> "displace", target |-> g, surviving |-> surviving, displaced |-> displaced]

(* The registry is read, and what the arriving one displaces is decided.    *)
Register(p) ==
    LET g == tasks[p].target
    IN /\ At(p, "register")
       /\ Becomes(p, Displacing(g, registry.records, displacedBySuccessor(g, registry, Generations)))
       /\ UNCHANGED <<config, disk, memory, counters>>

(* The newest goes first; one that others depend on is kept for now.        *)
KeepDisplaced(p) ==
    LET t == tasks[p]
        g == Newest(t.displaced, registry.born)
    IN /\ At(p, "displace")
       /\ t.displaced # {}
       /\ wouldStrandAFollower(g, t.surviving, t.target)
       /\ Becomes(p, Displacing(t.target, t.surviving, t.displaced \ {g}))
       /\ UNCHANGED <<config, disk, memory, counters>>

(* dropReplaced: the record goes first. A refusal is logged, and the fold   *)
(* is left as it was.                                                       *)
DropDisplaced(p) ==
    LET t == tasks[p]
        g == Newest(t.displaced, registry.born)
    IN /\ At(p, "displace")
       /\ t.displaced # {}
       /\ ~wouldStrandAFollower(g, t.surviving, t.target)
       /\ registry' = IF Deletable(registry, g) THEN deleteGeneration(registry, g, FALSE) ELSE registry
       /\ Becomes(p, IF Deletable(registry, g)
                     THEN [pc |-> "stop", target |-> t.target, surviving |-> t.surviving \ {g},
                           displaced |-> t.displaced \ {g}, gone |-> g]
                     ELSE Displacing(t.target, t.surviving, t.displaced \ {g}))
       /\ UNCHANGED <<config, state, stored, memory, counters>>

(* The state goes, and the fold stays in the loop.                          *)
StopDrivingNothing(p) ==
    LET t == tasks[p]
    IN /\ At(p, "stop")
       /\ state' = [state EXCEPT ![t.gone] = 0]
       /\ Becomes(p, Displacing(t.target, t.surviving, t.displaced))
       /\ UNCHANGED <<config, registry, stored, memory, counters>>

(* Its state goes, and stopDriving takes it out of the loop.                *)
StopDriving(p) ==
    LET t == tasks[p]
    IN /\ At(p, "stop")
       /\ state' = [state EXCEPT ![t.gone] = 0]
       /\ held' = Unheld(t.gone)
       /\ candidate' = candidate \ {t.gone}
       /\ deferred' = IF t.gone \in Held THEN NotNaming(t.gone) ELSE deferred
       /\ Becomes(p, Displacing(t.target, t.surviving, t.displaced))
       /\ UNCHANGED <<config, registry, stored, opened, follows, lastSync, current, counters>>

(* At a cap the call throws. What it displaced is gone all the same.        *)
RefuseAtCap(p) ==
    /\ At(p, "displace")
    /\ tasks[p].displaced = {}
    /\ CapReached(registry, tasks[p].target, config.maxGenerations)
    /\ Becomes(p, Idle)
    /\ UNCHANGED <<config, disk, memory, counters>>

(* A fold that always fetches for itself.                                   *)
FollowsNever(g, willHold, born) == FALSE

(* Whether another of the folds that will be held fetches the stream.       *)
Follows(g, willHold, born) == fetcherOf(willHold, born, StreamOf[g]) # g

(* create, then holdGeneration and applyPolicyTo in the same turn. A fold   *)
(* that is new has no cursor yet, so it is not the one found ready.         *)
CreateAndHold(p) ==
    LET g == tasks[p].target
        new == g \notin Held
        made == Created(registry, g, "successor")
        armed == IF opened /\ policy = "on-catch-up" /\ g # current THEN candidate \cup {g} ELSE candidate
    IN /\ At(p, "displace")
       /\ tasks[p].displaced = {}
       /\ ~CapReached(registry, g, config.maxGenerations)
       /\ MayMove(p)
       /\ registry' = made
       /\ held' = IF new THEN Append(held, g) ELSE held
       /\ follows' = IF ~new THEN follows
                     ELSE IF Follows(g, Held \cup {g}, made.born) THEN follows \cup {g} ELSE follows \ {g}
       /\ lastSync' = IF new THEN [lastSync EXCEPT ![g] = Nothing] ELSE lastSync
       /\ deferred' = IF new THEN NotNaming(g) ELSE deferred
       /\ candidate' = armed
       /\ Becomes(p, IF ~opened THEN [pc |-> "resolve"]
                     ELSE IF policy = "manual" \/ g = current THEN Idle
                     ELSE IF policy = "immediate" THEN MoveTo(g, "idle")
                     ELSE SettleOver(armed))
       /\ UNCHANGED <<config, state, stored, opened, current, counters>>

(* The end of open: the canonical generation must be one that is held.      *)
ResolveCanonical(p) ==
    /\ At(p, "resolve")
    /\ registry.slots.canonical \in Held
    /\ current' = registry.slots.canonical
    /\ opened' = TRUE
    /\ Becomes(p, Idle)
    /\ UNCHANGED <<config, disk, held, follows, candidate, lastSync, deferred, counters>>

CanonicalNotHeld(p) ==
    /\ At(p, "resolve")
    /\ registry.slots.canonical \notin Held
    /\ held' = <<>> /\ follows' = {}
    /\ Becomes(p, Idle)
    /\ UNCHANGED <<config, disk, opened, candidate, lastSync, current, deferred, counters>>

-----------------------------------------------------------------------------
(* Moving reads: promote, movePointerTo, arrangeDrop.                       *)

Promote(g) ==
    /\ MayControl
    /\ g \in Held
    /\ MayMove("control")
    /\ Revert \/ deferred = {}
    /\ controls' = controls + 1
    /\ Becomes("control", MoveTo(g, "idle"))
    /\ UNCHANGED <<config, disk, memory, restarts>>

(* The slots are read: naming the target is what makes it a promotion.      *)
Move(p) ==
    LET t == tasks[p]
    IN /\ At(p, "move")
       /\ Becomes(p, [pc |-> "commit", target |-> t.target, superseded |-> t.superseded, then |-> t.then,
                      wasPromotion |-> registry.slots.successor = t.target])
       /\ UNCHANGED <<config, disk, memory, counters>>

(* What a task does once a move or a drop is behind it.                     *)
Continue(then) == IF then = "idle" THEN Idle ELSE [pc |-> then]

(* The fold that would fetch the stream if s were gone.                     *)
NextFetcher(s) == Fetcher(Held \ {s}, StreamOf[s])

Fetches(s) == Fetcher(Held, StreamOf[s]) = s

(* dropSuperseded takes s out, unless the stream would go to a fold that    *)
(* the promotion says nothing about.                                        *)
MayDrop(s, successor) == s \in Held /\ (Fetches(s) => NextFetcher(s) \in {Nothing, successor})

(* A drop that leaves the stream with the fold that is going.               *)
HandOverNothing(s) == follows

(* The dropped fetcher's stream changes hands before anything is deleted.   *)
HandOver(s) == IF Fetches(s) THEN follows \ {NextFetcher(s)} ELSE follows

(* The registry moves and reads stay where they were.                       *)
CommitMoveOnDisk(p) ==
    LET t == tasks[p]
    IN /\ At(p, "commit")
       /\ t.target \in registry.records
       /\ registry' = MovedTo(registry, t.target, FALSE)
       /\ candidate' = candidate \ {t.target}
       /\ Becomes(p, Continue(t.then))
       /\ UNCHANGED <<config, state, stored, opened, held, follows, lastSync, current, deferred, counters>>

(* The registry moves, reads move with the notification, and what they      *)
(* moved off is dropped, kept until the new one has caught up, or kept.     *)
CommitMove(p) ==
    LET t == tasks[p]
        s == t.superseded
        supersedes == s # t.target /\ dropOnPromotion /\ t.wasPromotion
        drops == supersedes /\ policy # "immediate" /\ MayDrop(s, t.target)
    IN /\ At(p, "commit")
       /\ t.target \in registry.records
       /\ registry' = MovedTo(registry, t.target, FALSE)
       /\ candidate' = candidate \ {t.target}
       /\ current' = t.target
       /\ deferred' = IF supersedes /\ policy = "immediate"
                      THEN deferred \cup {[superseded |-> s, successor |-> t.target,
                                        at |-> IF lastSync[s] = Nothing THEN 0 ELSE lastSync[s]]}
                      ELSE deferred
       /\ held' = IF drops THEN Unheld(s) ELSE held
       /\ follows' = IF drops THEN HandOver(s) ELSE follows
       /\ Becomes(p, IF drops THEN [pc |-> "delete", gone |-> s, then |-> t.then] ELSE Continue(t.then))
       /\ UNCHANGED <<config, state, stored, opened, lastSync, counters>>

(* The target was deleted since: the call throws.                           *)
MoveUnknown(p) ==
    /\ At(p, "commit")
    /\ tasks[p].target \notin registry.records
    /\ Becomes(p, Idle)
    /\ UNCHANGED <<config, disk, memory, counters>>

(* deleteGeneration of a superseded one; a refusal is logged.               *)
Delete(p) ==
    LET t == tasks[p]
    IN /\ At(p, "delete")
       /\ registry' = IF Deletable(registry, t.gone) THEN deleteGeneration(registry, t.gone, FALSE) ELSE registry
       /\ Becomes(p, IF Deletable(registry, t.gone) THEN [pc |-> "dropState", gone |-> t.gone, then |-> t.then] ELSE Continue(t.then))
       /\ UNCHANGED <<config, state, stored, memory, counters>>

DropState(p) ==
    /\ At(p, "dropState")
    /\ state' = [state EXCEPT ![tasks[p].gone] = 0]
    /\ Becomes(p, Continue(tasks[p].then))
    /\ UNCHANGED <<config, registry, stored, memory, counters>>

-----------------------------------------------------------------------------
(* The loop: indexMore, settlePromotion.                                    *)

StartCycle ==
    /\ opened /\ At("index", "idle")
    /\ Becomes("index", [pc |-> "cycle", todo |-> held])
    /\ UNCHANGED <<config, disk, memory, counters>>

(* A fetcher folds what is stored, fetches one more block and stores it. A  *)
(* follower folds what is stored.                                           *)
Reached(g) ==
    LET level == IF state[g] > stored[StreamOf[g]] THEN state[g] ELSE stored[StreamOf[g]]
    IN IF g \in follows THEN level ELSE IF level = MaxBlock THEN level ELSE level + 1

Drive ==
    LET t == tasks["index"]
        g == Head(t.todo)
    IN /\ At("index", "cycle")
       /\ t.todo # <<>>
       /\ state' = [state EXCEPT ![g] = Reached(g)]
       /\ stored' = IF g \in follows THEN stored ELSE [stored EXCEPT ![StreamOf[g]] = Reached(g)]
       /\ lastSync' = [lastSync EXCEPT ![g] = Reached(g)]
       /\ Becomes("index", [pc |-> "cycle", todo |-> Tail(t.todo)])
       /\ UNCHANGED <<config, registry, opened, held, follows, candidate, current, deferred, counters>>

EndCycle ==
    /\ At("index", "cycle")
    /\ tasks["index"].todo = <<>>
    /\ MayMove("index")
    /\ Becomes("index", SettleOver(candidate))
    /\ UNCHANGED <<config, disk, memory, counters>>

(* The drops whose successor has got there.                                 *)
Due ==
    {d \in deferred :
        /\ hasReachedCursor(lastSync[d.successor], d.at)
        /\ Overtaken \/ d.successor \in registry.records}

(* They are run one after the other: in the code in the order they were     *)
(* noted, here in any.                                                      *)
RunDeferred(p, d) ==
    LET drops == MayDrop(d.superseded, d.successor)
    IN /\ At(p, "drops")
       /\ d \in Due
       /\ deferred' = deferred \ {d}
       /\ held' = IF drops THEN Unheld(d.superseded) ELSE held
       /\ follows' = IF drops THEN HandOver(d.superseded) ELSE follows
       /\ Becomes(p, IF drops THEN [pc |-> "delete", gone |-> d.superseded, then |-> "drops"] ELSE tasks[p])
       /\ UNCHANGED <<config, disk, opened, candidate, lastSync, current, counters>>

Settled(p) ==
    /\ At(p, "drops")
    /\ Due = {}
    /\ Becomes(p, Idle)
    /\ UNCHANGED <<config, disk, memory, counters>>

Restart ==
    /\ restarts < MaxRestarts
    /\ restarts' = restarts + 1
    /\ opened' = FALSE /\ held' = <<>> /\ follows' = {} /\ candidate' = {}
    /\ lastSync' = NotSeen /\ current' = Nothing /\ deferred' = {}
    /\ tasks' = [p \in Tasks |-> Idle]
    /\ UNCHANGED <<config, disk, controls>>

-----------------------------------------------------------------------------

Registering(p) ==
    \/ Register(p) \/ KeepDisplaced(p) \/ DropDisplaced(p) \/ StopDriving(p)
    \/ CreateAndHold(p) \/ RefuseAtCap(p)
    \/ ResolveCanonical(p) \/ CanonicalNotHeld(p)

Moving(p) == Move(p) \/ CommitMove(p) \/ MoveUnknown(p) \/ Delete(p) \/ DropState(p)

Settling(p) == (\E d \in Due : RunDeferred(p, d)) \/ Settled(p)

Looping == StartCycle \/ Drive \/ EndCycle

Next ==
    \/ \E g \in Generations : Open(g) \/ Add(g) \/ Promote(g)
    \/ Registering("control")
    \/ \E p \in Tasks : Moving(p) \/ Settling(p)
    \/ Looping
    \/ Restart

Spec == Init /\ [][Next]_vars

(* The host loop re-arms itself, and a registry or store call that is asked *)
(* for answers.                                                             *)
FairSpec ==
    /\ Spec
    /\ WF_vars(Looping)
    /\ WF_vars(Registering("control"))
    /\ \A p \in Tasks : WF_vars(Moving(p) \/ Settling(p))

-----------------------------------------------------------------------------

Quiet == \A p \in Tasks : At(p, "idle")

(* Every variable has its type.                                             *)
TypeOK ==
    /\ config \in Configs
    /\ registry \in Registry
    /\ state \in [Generations -> Cursor] /\ stored \in [Streams -> Cursor]
    /\ opened \in BOOLEAN
    /\ held \in Seq(Generations) /\ follows \subseteq Generations /\ candidate \subseteq Generations
    /\ lastSync \in [Generations -> Cursor \cup {Nothing}]
    /\ current \in Generations \cup {Nothing}
    /\ deferred \subseteq Drop
    /\ DOMAIN tasks = Tasks
    /\ controls \in 0 .. MaxControls /\ restarts \in 0 .. MaxRestarts

(* However adds, promotions, drops and deaths interleave, every slot names  *)
(* one registered generation of its own and reads always have an answer.    *)
RegistrySound == SlotsSound(registry) /\ RecordsSound(registry)

(* Between two calls, the fold that answers reads is the one the registry   *)
(* names, and the loop drives it.                                           *)
ReadsAdvance ==
    opened /\ Quiet => current = registry.slots.canonical /\ current \in Held

(* Between two calls, exactly one held fold fetches each stream: with none  *)
(* the others follow a stream nothing appends to, with two each range is    *)
(* asked for and stored twice.                                              *)
OneFetcher ==
    opened /\ Quiet =>
        \A s \in StreamsOf(Held) : Cardinality(OnStream(Held, s) \ follows) = 1

(* A fold that is held is registered: nothing is driven whose state is      *)
(* dropped.                                                                 *)
HeldIsRegistered == opened /\ Quiet => Held \subseteq registry.records

(* What is on disk and what is driven agree, through every interleaving of  *)
(* adds, moves, drops and deaths.                                           *)
ContainerSound == TypeOK /\ RegistrySound /\ HeldIsRegistered

(* Catching up is what promotes: the loop never moves reads to a state      *)
(* behind the one they were answered from.                                  *)
ReadsNeverGoBack ==
    [][CommitMove("index") =>
            state[tasks["index"].target] >= state[tasks["index"].superseded]]_vars

(* Every fold the container drives reaches the head of the chain: none is   *)
(* left following a stream that nobody fetches.                             *)
EveryFoldCatchesUp ==
    \A g \in Generations : g \in Held /\ opened ~> state[g] = MaxBlock \/ g \notin Held \/ ~opened

(* Under on-catch-up a successor that is driven answers reads in the end,   *)
(* unless another takes its place.                                          *)
SuccessorIsPromoted ==
    \A g \in Generations :
        policy = "on-catch-up" /\ g \in candidate
            ~> registry.slots.canonical = g \/ g \notin Held
=============================================================================
