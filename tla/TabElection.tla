----------------------------- MODULE TabElection -----------------------------
(***************************************************************************)
(* One tab indexes and the others read. The tabs of an app stand for one   *)
(* Web Lock: the tab that holds it builds a writer over the shared store,  *)
(* the others read and queue. A visible reader takes the lock from a       *)
(* leader in the background, which learns of it from its own rejected      *)
(* request. The election is for cost: what keeps the store correct is the  *)
(* writer claim, checked in the transaction of every write.                *)
(*                                                                         *)
(* A tab handles one event at a time; its events from the lock manager     *)
(* arrive in order, and it may be slow to handle them. A writer's fresh    *)
(* start is a coroutine: it waits for the reader seat, claims, opens, and  *)
(* the tab may be displaced, and elected again, in between.                *)
(***************************************************************************)
EXTENDS Integers, Sequences, FiniteSets

CONSTANTS
    Nothing,
    Tabs,
    Plans,        \* what a behaviour may meet
    MaxBlock,     \* the height of the chain
    MaxHandles    \* bound on the writers a tab has built or is building

ASSUME TabAssumption ==
    /\ Nothing \notin Tabs /\ Nothing \notin Nat
    /\ Nothing \notin [tab : Tabs, by : {"ask", "queue", "steal"}]
    /\ MaxBlock \in Nat /\ MaxHandles \in Nat \ {0}
    /\ Plans \subseteq [tabs : SUBSET Tabs, steals : Nat, closes : Nat, flips : Nat, faults : Nat,
                   races : BOOLEAN, ghosts : BOOLEAN, frozen : BOOLEAN]

VARIABLES
    plan,       \* the bounds of this behaviour: it never changes
    holder,     \* the lock manager: the request that holds the lock
    waiting,    \* the lock manager: the tabs whose requests are queued
    inbox,      \* what the lock manager has told each tab, not yet handled
    tab,        \* the tabs
    visible,    \* the tabs on screen
    heard,      \* the channel: the visibility in the last report each tab heard
    said,       \* the channel: the visibility in the last report each tab published
    stored,     \* the store: the last block written
    claim,      \* the store: the writer whose claim stands
    steals, closes, flips, faults

lock == <<holder, waiting, inbox>>
store == <<stored, claim>>
counters == <<steals, closes, flips, faults>>
channel == <<heard, said>>
screen == <<visible, channel>>
vars == <<plan, lock, tab, screen, store, counters>>

Handles == 1 .. MaxHandles
Start == [handle : Handles, pc : {"seat", "claim", "open"}, current : BOOLEAN, first : BOOLEAN]
Indexer == [handle : Handles, cursor : (0 .. MaxBlock) \cup {Nothing}]
Event == {"granted", "denied", "queueGranted", "stealGranted", "broken"}

Tab == [life : {"unopened", "open", "closed"},
        queued : BOOLEAN, holding : BOOLEAN, stealing : BOOLEAN, resigned : BOOLEAN,
        role : {"none", "reader", "writer"}, seating : BOOLEAN, reading : BOOLEAN,
        starts : SUBSET Start, indexer : Indexer \cup {Nothing}, indexing : BOOLEAN,
        refusal : BOOLEAN, demoted : BOOLEAN]

(* A tab with nothing in it.                                                *)
Blank(life) ==
    [life |-> life, queued |-> FALSE, holding |-> FALSE, stealing |-> FALSE, resigned |-> FALSE,
     role |-> "none", seating |-> FALSE, reading |-> FALSE, starts |-> {}, indexer |-> Nothing,
     indexing |-> FALSE, refusal |-> FALSE, demoted |-> FALSE]

Init ==
    /\ plan \in Plans
    /\ holder = Nothing /\ waiting = <<>> /\ inbox = [t \in Tabs |-> <<>>]
    /\ tab = [t \in Tabs |-> Blank("unopened")]
    /\ visible = plan.tabs
    /\ heard = [t \in Tabs |-> Nothing] /\ said = [t \in Tabs |-> Nothing]
    /\ stored = 0 /\ claim = Nothing
    /\ steals = 0 /\ closes = 0 /\ flips = 0 /\ faults = 0

Becomes(t, now) == tab' = [tab EXCEPT ![t] = now]
Hears(t, event) == inbox[t] # <<>> /\ Head(inbox[t]) = event
InQueue(t) == \E i \in DOMAIN waiting : waiting[i] = t

(* The queue when the request of a tab is aborted.                          *)
Without(t) ==
    IF InQueue(t)
    THEN LET i == CHOOSE i \in DOMAIN waiting : waiting[i] = t
         IN SubSeq(waiting, 1, i - 1) \o SubSeq(waiting, i + 1, Len(waiting))
    ELSE waiting

-----------------------------------------------------------------------------
(* The lock manager. `in` is the inboxes it writes to, `by` the request.    *)

Told(in, t, event) == [in EXCEPT ![t] = Append(@, event)]
Handled(t) == [inbox EXCEPT ![t] = Tail(@)]

(* A request that waits its turn: granted when the lock is free.            *)
Queues(t, in) ==
    IF holder = Nothing
    THEN /\ holder' = [tab |-> t, by |-> "queue"]
         /\ inbox' = Told(in, t, "queueGranted") /\ UNCHANGED waiting
    ELSE /\ waiting' = Append(waiting, t)
         /\ inbox' = in /\ UNCHANGED holder

(* The lock goes to the next in the queue.                                  *)
Releases(queue, in) ==
    IF queue = <<>>
    THEN /\ holder' = Nothing /\ waiting' = queue /\ inbox' = in
    ELSE /\ holder' = [tab |-> Head(queue), by |-> "queue"]
         /\ waiting' = Tail(queue) /\ inbox' = Told(in, Head(queue), "queueGranted")

(* A callback that returns at once gives back the lock of its own request.  *)
GivesBack(t, by, in) ==
    IF holder = [tab |-> t, by |-> by]
    THEN Releases(waiting, in)
    ELSE inbox' = in /\ UNCHANGED <<holder, waiting>>

-----------------------------------------------------------------------------
(* The election's channel. A report is heard at once: the time a message    *)
(* takes is nothing beside the settle time.                                 *)

Opens(t) == tab[t].life = "open"

(* publishProgress, by a tab that is in the writer's seat.                  *)
Reports(t, on) ==
    LET report == IF on THEN "visible" ELSE "hidden"
    IN /\ said' = [said EXCEPT ![t] = report]
       /\ heard' = [u \in Tabs |-> IF u # t /\ Opens(u) THEN report ELSE heard[u]]

(* The tabs that answer an ask: any that has reported, and leads no more.   *)
Answers(t) == {u \in Tabs \ {t} : said[u] # Nothing /\ (plan.ghosts \/ tab[u].role = "writer")}

(* onProgress: what was heard before is heard again; else the channel is    *)
(* asked, and every tab hears the answers.                                  *)
Asks(t) ==
    IF heard[t] # Nothing \/ Answers(t) = {} THEN UNCHANGED channel
    ELSE \E last \in Answers(t) :
            /\ heard' = [u \in Tabs |-> IF u # last /\ Opens(u) THEN said[last] ELSE heard[u]]
            /\ UNCHANGED said

-----------------------------------------------------------------------------
(* The host: what takes a tab in and out of its seats.                      *)

(* A handle that neither a fresh start nor the indexer of the tab uses.     *)
Unused(me, h) ==
    /\ \A s \in me.starts : s.handle # h
    /\ me.indexer # Nothing => me.indexer.handle # h

FreshHandle(me) == CHOOSE h \in Handles : Unused(me, h)

(* tenure++: no start begun before is the current one.                      *)
Outdated(starts) == {[s EXCEPT !.current = FALSE] : s \in starts}

(* takeOver and the first start: a new tenure, and its coroutine.           *)
Begins(me, pc, first) ==
    [me EXCEPT !.starts =
        Outdated(@) \cup {[handle |-> FreshHandle(me), pc |-> pc, current |-> TRUE, first |-> first]}]

(* Room for another start; without races, nothing of the last tenure is     *)
(* still in flight.                                                         *)
MayBegin(me) ==
    /\ \E h \in Handles : Unused(me, h)
    /\ plan.races \/ (me.starts = {} /\ ~me.refusal)

letGoOfTheWriter(me) == [me EXCEPT !.indexer = Nothing, !.indexing = FALSE]

(* The tab reads, and its writer is left running.                           *)
stepDownSeatOnly(me) ==
    [me EXCEPT !.role = "reader", !.starts = Outdated(@), !.seating = TRUE]

(* The lease was taken: a writer is demoted and let go, and a reader seat   *)
(* is built.                                                                *)
stepDown(me) ==
    LET down == [me EXCEPT !.role = "reader", !.starts = Outdated(@), !.seating = TRUE]
    IN IF me.indexer = Nothing THEN down
       ELSE letGoOfTheWriter([down EXCEPT !.demoted = TRUE])

-----------------------------------------------------------------------------
(* standForElection.                                                        *)

(* init: ask for the lock if it is free.                                    *)
Open(t) ==
    /\ t \in plan.tabs /\ tab[t].life = "unopened"
    /\ Becomes(t, Blank("open"))
    /\ holder' = IF holder = Nothing THEN [tab |-> t, by |-> "ask"] ELSE holder
    /\ inbox' = Told(inbox, t, IF holder = Nothing THEN "granted" ELSE "denied")
    /\ UNCHANGED <<plan, waiting, screen, store, counters>>

(* atOnce: the first start goes ahead with no seat to wait for.             *)
Granted(t) ==
    /\ Hears(t, "granted")
    /\ MayBegin(tab[t])
    /\ Becomes(t, Begins([tab[t] EXCEPT !.holding = TRUE, !.role = "writer"], "claim", TRUE))
    /\ inbox' = Handled(t) /\ Reports(t, t \in visible)
    /\ UNCHANGED <<plan, holder, waiting, visible, store, counters>>

(* Not at once: build the reader seat, and queue.                           *)
Denied(t) ==
    /\ Hears(t, "denied")
    /\ Becomes(t, [tab[t] EXCEPT !.seating = TRUE, !.queued = TRUE])
    /\ Queues(t, Handled(t))
    /\ UNCHANGED <<plan, screen, store, counters>>

SeatOpened(t) ==
    /\ tab[t].seating
    /\ Becomes(t, [tab[t] EXCEPT !.seating = FALSE, !.reading = TRUE, !.role = "reader"])
    /\ Asks(t)
    /\ UNCHANGED <<plan, lock, visible, store, counters>>

(* The queued request is granted to a tab that has left the queue.          *)
QueueGrantedLate(t) ==
    /\ Hears(t, "queueGranted")
    /\ tab[t].resigned \/ ~tab[t].queued
    /\ GivesBack(t, "queue", Handled(t))
    /\ UNCHANGED <<plan, tab, screen, store, counters>>

QueueGranted(t) ==
    /\ Hears(t, "queueGranted")
    /\ ~tab[t].resigned /\ tab[t].queued
    /\ MayBegin(tab[t])
    /\ Becomes(t, Begins([tab[t] EXCEPT !.queued = FALSE, !.holding = TRUE], "seat", FALSE))
    /\ inbox' = Handled(t)
    /\ UNCHANGED <<plan, holder, waiting, screen, store, counters>>

(* Only a leader that never said anything can be displaced.                 *)
leaderIsSilent(t) == heard[t] = Nothing

(* The leader said that it is hidden, or nothing was ever said.             *)
leaderIsDisplaceable(t) == heard[t] \in {Nothing, "hidden"}

eligible(t) ==
    LET me == tab[t]
    IN /\ me.reading /\ me.indexer = Nothing /\ me.role = "reader"
       /\ t \in visible /\ leaderIsDisplaceable(t)

(* watchForBackgroundedLeader: the timer fires for a tab that is eligible.  *)
TimerFires(t) == steals < plan.steals /\ tab[t].life = "open" /\ eligible(t)

(* takeFromBackgroundedLeader.                                              *)
Steal(t) ==
    LET me == tab[t]
    IN /\ TimerFires(t)
       /\ ~me.resigned /\ ~me.holding /\ ~me.stealing
       /\ plan.races \/ holder = Nothing \/ (tab[holder.tab].holding /\ tab[holder.tab].starts = {})
       /\ Becomes(t, [me EXCEPT !.stealing = TRUE, !.queued = FALSE])
       /\ waiting' = Without(t)
       /\ holder' = [tab |-> t, by |-> "steal"]
       /\ inbox' = LET in == IF holder = Nothing \/ holder.tab = t THEN inbox ELSE Told(inbox, holder.tab, "broken")
                   IN Told(in, t, "stealGranted")
       /\ steals' = steals + 1
       /\ UNCHANGED <<plan, screen, store, closes, flips, faults>>

StealGrantedLate(t) ==
    /\ Hears(t, "stealGranted")
    /\ tab[t].resigned
    /\ Becomes(t, [tab[t] EXCEPT !.stealing = FALSE])
    /\ GivesBack(t, "steal", Handled(t))
    /\ UNCHANGED <<plan, screen, store, counters>>

StealGranted(t) ==
    /\ Hears(t, "stealGranted")
    /\ ~tab[t].resigned
    /\ MayBegin(tab[t])
    /\ Becomes(t, Begins([tab[t] EXCEPT !.stealing = FALSE, !.holding = TRUE], "seat", FALSE))
    /\ inbox' = Handled(t)
    /\ UNCHANGED <<plan, holder, waiting, screen, store, counters>>

(* The tab steps down, and does not stand again.                            *)
TenureEndedForGood(t) ==
    /\ Hears(t, "broken")
    /\ ~tab[t].resigned /\ tab[t].holding
    /\ Becomes(t, stepDown([tab[t] EXCEPT !.holding = FALSE]))
    /\ inbox' = Handled(t)
    /\ UNCHANGED <<plan, holder, waiting, screen, store, counters>>

(* tenureEnded: the request that holds was rejected; step down and queue    *)
(* again.                                                                   *)
TenureEnded(t) ==
    /\ Hears(t, "broken")
    /\ ~tab[t].resigned /\ tab[t].holding
    /\ Becomes(t, stepDown([tab[t] EXCEPT !.holding = FALSE, !.queued = TRUE]))
    /\ Queues(t, Handled(t))
    /\ UNCHANGED <<plan, screen, store, counters>>

(* The request was never held by this tab, or the tab has resigned.         *)
TenureEndedLate(t) ==
    /\ Hears(t, "broken")
    /\ tab[t].resigned \/ ~tab[t].holding
    /\ inbox' = Handled(t)
    /\ UNCHANGED <<plan, holder, waiting, tab, screen, store, counters>>

-----------------------------------------------------------------------------
(* A fresh start: takeOver, initAsWriter, openContainer.                    *)

At(t, s, pc) == s \in tab[t].starts /\ s.pc = pc

(* The start `s` of tab record `me` moves on to `pc`.                       *)
Moved(me, s, pc) == [me EXCEPT !.starts = (@ \ {s}) \cup {[s EXCEPT !.pc = pc]}]
Ended(me, s) == [me EXCEPT !.starts = @ \ {s}]

(* The seat was waited for: is the lease still this start's?                *)
Seated(t, s) ==
    /\ At(t, s, "seat") /\ ~tab[t].seating
    /\ tab[t].indexer = Nothing /\ s.current
    /\ Becomes(t, [Moved(tab[t], s, "claim") EXCEPT !.demoted = FALSE, !.role = "writer"])
    /\ Reports(t, t \in visible)
    /\ UNCHANGED <<plan, lock, visible, store, counters>>

SeatedLate(t, s) ==
    /\ At(t, s, "seat") /\ ~tab[t].seating
    /\ tab[t].indexer # Nothing \/ ~s.current
    /\ Becomes(t, Ended(tab[t], s))
    /\ UNCHANGED <<plan, lock, screen, store, counters>>

(* A claim that is there already is left as it is.                          *)
ClaimIfFree(t, s) ==
    /\ At(t, s, "claim")
    /\ claim' = IF claim = Nothing THEN [tab |-> t, handle |-> s.handle] ELSE claim
    /\ Becomes(t, Moved(tab[t], s, "open"))
    /\ UNCHANGED <<plan, lock, screen, stored, counters>>

(* createState: openForWriting takes the claim from whoever had it.         *)
Claim(t, s) ==
    /\ At(t, s, "claim")
    /\ claim' = [tab |-> t, handle |-> s.handle]
    /\ Becomes(t, Moved(tab[t], s, "open"))
    /\ UNCHANGED <<plan, lock, screen, stored, counters>>

openContainer(me, s) == [Ended(me, s) EXCEPT !.indexer = [handle |-> s.handle, cursor |-> Nothing]]

(* The container is opened. The first start does not look whether its lease *)
(* is still there; a later one that was displaced lets go what it built.    *)
Opened(t, s) ==
    LET me == tab[t]
        writer == openContainer(me, s)
    IN /\ At(t, s, "open")
       /\ Becomes(t, IF s.first THEN [writer EXCEPT !.indexing = ~me.demoted]
                     ELSE IF ~s.current THEN letGoOfTheWriter(writer)
                     ELSE [writer EXCEPT !.indexing = ~me.demoted, !.reading = FALSE])
       /\ UNCHANGED <<plan, lock, screen, store, counters>>

(* The start throws, at whichever await: it is reported, and the lock kept. *)
StartFails(t, s) ==
    /\ faults < plan.faults
    /\ At(t, s, "claim") \/ At(t, s, "open")
    /\ Becomes(t, Ended(tab[t], s))
    /\ faults' = faults + 1
    /\ UNCHANGED <<plan, lock, screen, store, steals, closes, flips>>

-----------------------------------------------------------------------------
(* The indexing loop.                                                       *)

(* Whether the tab's loop may take its next step.                           *)
Loops(me) == me.indexer # Nothing /\ me.indexing /\ ~me.demoted /\ ~me.refusal

Load(t) ==
    /\ Loops(tab[t]) /\ tab[t].indexer.cursor = Nothing
    /\ Becomes(t, [tab[t] EXCEPT !.indexer.cursor = stored])
    /\ UNCHANGED <<plan, lock, screen, store, counters>>

(* A claim once taken is taken to stand.                                    *)
heldOnce(t) == TRUE

(* claimOrCheck, in the transaction that writes.                            *)
held(t) == claim = [tab |-> t, handle |-> tab[t].indexer.handle]

Write(t) ==
    LET next == tab[t].indexer.cursor + 1
    IN /\ Loops(tab[t]) /\ tab[t].indexer.cursor \in 0 .. MaxBlock - 1
       /\ held(t)
       /\ stored' = next
       /\ Becomes(t, [tab[t] EXCEPT !.indexer.cursor = next])
       /\ IF tab[t].role = "writer" THEN Reports(t, t \in visible) ELSE UNCHANGED channel
       /\ UNCHANGED <<plan, lock, visible, claim, counters>>

(* StoreWriterChangedError; its rejection is on its way to the loop.        *)
WriteRefused(t) ==
    /\ Loops(tab[t]) /\ tab[t].indexer.cursor # Nothing
    /\ ~held(t)
    /\ Becomes(t, [tab[t] EXCEPT !.refusal = TRUE])
    /\ UNCHANGED <<plan, lock, screen, store, counters>>

(* demote, unless it was demoted before: the loop stops and the tab resigns *)
(* from the election.                                                       *)
Demote(t) ==
    LET me == [tab[t] EXCEPT !.refusal = FALSE]
    IN /\ tab[t].refusal
       /\ IF me.demoted
          THEN Becomes(t, me) /\ UNCHANGED lock
          ELSE /\ Becomes(t, [me EXCEPT !.demoted = TRUE, !.indexing = FALSE, !.resigned = TRUE,
                                        !.queued = FALSE, !.holding = FALSE])
               /\ IF holder # Nothing /\ holder.tab = t /\ me.holding
                  THEN Releases(Without(t), inbox)
                  ELSE waiting' = Without(t) /\ UNCHANGED <<holder, inbox>>
       /\ UNCHANGED <<plan, screen, store, counters>>

-----------------------------------------------------------------------------
(* The browser: a tab is closed, or killed; another comes to the front.     *)

Close(t) ==
    /\ closes < plan.closes
    /\ tab[t].life = "open"
    /\ Becomes(t, Blank("closed"))
    /\ LET in == [inbox EXCEPT ![t] = <<>>]
       IN IF holder # Nothing /\ holder.tab = t
          THEN Releases(Without(t), in)
          ELSE waiting' = Without(t) /\ inbox' = in /\ UNCHANGED holder
    /\ heard' = [heard EXCEPT ![t] = Nothing] /\ said' = [said EXCEPT ![t] = Nothing]
    /\ closes' = closes + 1
    /\ UNCHANGED <<plan, visible, store, steals, flips, faults>>

Flip(t) ==
    /\ flips < plan.flips
    /\ tab[t].life = "open"
    /\ visible' = IF t \in visible THEN visible \ {t} ELSE visible \cup {t}
    /\ IF tab[t].role = "writer" THEN Reports(t, t \notin visible) ELSE UNCHANGED channel
    /\ flips' = flips + 1
    /\ UNCHANGED <<plan, lock, tab, store, steals, closes, faults>>

-----------------------------------------------------------------------------
Handling(t) ==
    \/ Granted(t) \/ Denied(t) \/ QueueGranted(t) \/ QueueGrantedLate(t)
    \/ StealGranted(t) \/ StealGrantedLate(t) \/ TenureEnded(t) \/ TenureEndedLate(t)
Starting(t) == \E s \in tab[t].starts : Seated(t, s) \/ SeatedLate(t, s) \/ Claim(t, s) \/ Opened(t, s)
Indexing(t) == Load(t) \/ Write(t) \/ WriteRefused(t)

(* Nothing is left to do in a tab.                                          *)
Quiet ==
    \A t \in Tabs :
        /\ tab[t].life = "unopened" => t \notin plan.tabs
        /\ inbox[t] = <<>> /\ tab[t].starts = {} /\ ~tab[t].seating /\ ~tab[t].refusal
        /\ Loops(tab[t]) => stored = MaxBlock

Next ==
    \/ \E t \in Tabs :
        \/ Open(t) \/ Handling(t) \/ SeatOpened(t) \/ Steal(t)
        \/ Starting(t) \/ \E s \in tab[t].starts : StartFails(t, s)
        \/ Indexing(t) \/ Demote(t) \/ Close(t) \/ Flip(t)
    \/ Quiet /\ UNCHANGED vars

Spec == Init /\ [][Next]_vars

(* A tab on screen takes its steps, and its settle timer fires. One in the  *)
(* background is slow: it handles its events in the end, unless the plan    *)
(* lets it freeze, and nothing is assumed of its indexing.                  *)
Runs(t) == t \in visible \/ ~plan.frozen

FairSpec ==
    /\ Spec
    /\ \A t \in Tabs :
        /\ WF_vars(Runs(t) /\ Handling(t)) /\ WF_vars(Runs(t) /\ SeatOpened(t))
        /\ WF_vars(Runs(t) /\ Starting(t)) /\ WF_vars(Runs(t) /\ Demote(t))
        /\ WF_vars(t \in visible /\ Indexing(t)) /\ WF_vars(Steal(t))

-----------------------------------------------------------------------------
(* Properties.                                                              *)

TypeOK ==
    /\ plan \in Plans
    /\ holder \in [tab : Tabs, by : {"ask", "queue", "steal"}] \cup {Nothing}
    /\ waiting \in Seq(Tabs) /\ inbox \in [Tabs -> Seq(Event)]
    /\ tab \in [Tabs -> Tab]
    /\ visible \subseteq Tabs
    /\ heard \in [Tabs -> {Nothing, "visible", "hidden"}] /\ said \in [Tabs -> {Nothing, "visible", "hidden"}]
    /\ stored \in 0 .. MaxBlock
    /\ claim \in [tab : Tabs, handle : Handles] \cup {Nothing}

Tells(t, events) == \E i \in DOMAIN inbox[t] : inbox[t][i] \in events

(* The lock and what the tabs make of it agree, but for what is still on    *)
(* its way: a tab that holds the lock knows it, or will; one that thinks it *)
(* holds it does, or will learn that it was taken; and a tab that has not   *)
(* resigned never drops out: it leads, waits in the queue, or is about to   *)
(* be told (tabElection.ts: standForElection, queue, tenureEnded, resign).  *)
LeaseKnown ==
    /\ TypeOK
    /\ \A t \in Tabs :
        LET me == tab[t]
        IN /\ holder # Nothing /\ holder.tab = t =>
                me.life = "open" /\ (me.holding \/ Tells(t, {"granted", "queueGranted", "stealGranted"}))
           /\ me.holding => (holder # Nothing /\ holder.tab = t) \/ Tells(t, {"broken"})
           /\ me.life = "open" /\ ~me.resigned =>
                me.holding \/ inbox[t] # <<>> \/ InQueue(t)

(* However many tabs believe that they lead, the store moves one block at a *)
(* time: none is written twice, none is left out. It is the writer claim,   *)
(* checked in the transaction that writes, and the cursor read after the    *)
(* claim that make it so (state-store/src/store.ts: claim; claimOrCheck).   *)
WritesContinue == [][stored' # stored => stored' = stored + 1]_vars

(* A tab that reads writes nothing: once it has learnt that its lease was   *)
(* taken, no block it derives lands (IndexerState.ts: stepDown). A tab      *)
(* displaced during a fresh start is excepted: see plan.races.              *)
ReadersDoNotWrite ==
    \A t \in Tabs : tab[t].role = "reader" /\ ~plan.races => tab[t].indexer = Nothing

(* The tab that leads is not the one that is refused: while it holds the    *)
(* lock, and has opened its writer, the claim in the store is its own       *)
(* (IndexerState.ts: takeOver, initAsWriter).                               *)
LeaderHasTheClaim ==
    \A t \in Tabs :
        /\ ~plan.races
        /\ holder # Nothing /\ holder.tab = t /\ tab[t].holding /\ tab[t].indexer # Nothing
        => held(t)

(* A tab that stays on screen and in the election sees the store reach the  *)
(* head of the chain, whatever the leaders in the background do: it takes   *)
(* the lease, or one that indexes has it (tabElection.ts:                   *)
(* watchForBackgroundedLeader).                                             *)
ForegroundCatchesUp ==
    \A t \in Tabs :
        ( /\ ~plan.races /\ [](faults = 0 /\ steals < plan.steals)
          /\ <>[](t \in visible /\ tab[t].life = "open" /\ ~tab[t].resigned) )
        => <>(stored = MaxBlock)
=============================================================================
