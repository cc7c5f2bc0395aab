-------------------------- MODULE TabElectionProofs --------------------------
(***************************************************************************)
(* The writer claim keeps the store correct whatever the election does:    *)
(* for any number of tabs and any plan, races, steals, closes and          *)
(* refusals included, a block is never written twice or left out.          *)
(*                                                                         *)
(* The argument: a claim names one writer. The writer it names read its    *)
(* cursor from the store after it claimed, and every write since then was  *)
(* its own, so its cursor is what is stored.                               *)
(*                                                                         *)
(* The lock and the tabs agree because the events of a tab arrive in       *)
(* order: what is still in its inbox is what it does not know yet, and     *)
(* only a few inboxes are possible in each phase of a candidacy. Without   *)
(* races a start is over before its tab can lose the lock, so whoever      *)
(* claims holds it.                                                        *)
(***************************************************************************)
EXTENDS TabElection, SequenceTheorems, TLAPS

(* One tab's writers have handles of their own.                             *)
OwnHandles(me) ==
    /\ \A r, s \in me.starts : r.handle = s.handle => r = s
    /\ me.indexer # Nothing => \A s \in me.starts : s.handle # me.indexer.handle

(* The writer the claim names has read what is stored.                      *)
ClaimIsLevel ==
    \A t \in Tabs :
        /\ tab[t].indexer # Nothing
        /\ claim = [tab |-> t, handle |-> tab[t].indexer.handle]
        /\ tab[t].indexer.cursor # Nothing
        => tab[t].indexer.cursor = stored

Writers ==
    /\ tab \in [Tabs -> Tab]
    /\ stored \in 0 .. MaxBlock
    /\ \A t \in Tabs : OwnHandles(tab[t])
    /\ ClaimIsLevel

(* The steps of one tab that leave its writer as it is or let it go, and    *)
(* give no start a handle that another has.                                 *)
Keeps(me, now) ==
    /\ now \in Tab
    /\ now.indexer \in {me.indexer, Nothing}
    /\ OwnHandles(now)

-----------------------------------------------------------------------------
(* Lemmas about the records of a tab.                                       *)

(* A new tenure leaves the handles of the starts alone.                     *)
LEMMA OutdatedKeeps ==
    ASSUME NEW me \in Tab, OwnHandles(me)
    PROVE  /\ Outdated(me.starts) \subseteq Start
           /\ \A r, s \in Outdated(me.starts) : r.handle = s.handle => r = s
           /\ \A s \in Outdated(me.starts) : \E r \in me.starts : s.handle = r.handle
<1>1. me.starts \subseteq Start
  BY DEF Tab
<1>2. \A r \in me.starts :
        LET s == [r EXCEPT !.current = FALSE]
        IN s \in Start /\ s.handle = r.handle
  BY <1>1 DEF Start
<1>3. \A r, s \in me.starts : r.handle = s.handle => r = s
  BY DEF OwnHandles
<1>4. \A s \in Outdated(me.starts) : \E r \in me.starts : s = [r EXCEPT !.current = FALSE]
  BY DEF Outdated
<1>5. \A s \in Outdated(me.starts) : s \in Start /\ \E r \in me.starts : s.handle = r.handle
  BY <1>2, <1>4
<1>6. ASSUME NEW p \in Outdated(me.starts), NEW q \in Outdated(me.starts), p.handle = q.handle
      PROVE  p = q
  <2>1. PICK r \in me.starts : p = [r EXCEPT !.current = FALSE]
    BY <1>4
  <2>2. PICK s \in me.starts : q = [s EXCEPT !.current = FALSE]
    BY <1>4
  <2>3. r.handle = s.handle
    BY <1>2, <1>6, <2>1, <2>2
  <2> QED
    BY <1>3, <2>1, <2>2, <2>3
<1> QED
  BY <1>5, <1>6

(* A fresh start takes a handle that no writer of the tab has.              *)
LEMMA BeginsKeeps ==
    ASSUME NEW me \in Tab, OwnHandles(me), \E h \in Handles : Unused(me, h),
           NEW pc \in {"seat", "claim"}, NEW first \in BOOLEAN
    PROVE  Keeps(me, Begins(me, pc, first))
<1> DEFINE h == FreshHandle(me)
           new == [handle |-> h, pc |-> pc, current |-> TRUE, first |-> first]
           now == Begins(me, pc, first)
<1>1. h \in Handles /\ Unused(me, h)
  BY DEF FreshHandle
<1>2. new \in Start
  BY <1>1 DEF Start
<1>3. now = [me EXCEPT !.starts = Outdated(me.starts) \cup {new}]
  BY DEF Begins, Tab
<1> HIDE DEF new, h, now
<1>4. now \in Tab /\ now.starts = Outdated(me.starts) \cup {new} /\ now.indexer = me.indexer
  BY <1>2, <1>3, OutdatedKeeps DEF Tab
<1>5. \A s \in Outdated(me.starts) : s.handle # new.handle
  BY <1>1, OutdatedKeeps DEF Unused, new
<1>6. me.indexer # Nothing => \A s \in now.starts : s.handle # me.indexer.handle
  BY <1>1, <1>4, OutdatedKeeps DEF Unused, new, OwnHandles
<1>7. \A r, s \in Outdated(me.starts) : r.handle = s.handle => r = s
  BY OutdatedKeeps
<1>8. \A r, s \in now.starts : r.handle = s.handle => r = s
  BY <1>4, <1>5, <1>7
<1>9. Keeps(me, now)
  BY <1>4, <1>6, <1>8 DEF Keeps, OwnHandles
<1> QED
  BY <1>9 DEF now

(* Stepping down lets the writer go.                                        *)
LEMMA StepDownKeeps ==
    ASSUME NEW me \in Tab, OwnHandles(me)
    PROVE  Keeps(me, stepDown(me))
<1> DEFINE down == [me EXCEPT !.role = "reader", !.starts = Outdated(me.starts), !.seating = TRUE]
<1>1. /\ down \in Tab /\ down.starts = Outdated(me.starts) /\ down.indexer = me.indexer
  BY OutdatedKeeps DEF Tab
<1>2. stepDown(me) = IF me.indexer = Nothing THEN down
                     ELSE letGoOfTheWriter([down EXCEPT !.demoted = TRUE])
  BY DEF stepDown
<1> HIDE DEF down
<1>3. LET gone == letGoOfTheWriter([down EXCEPT !.demoted = TRUE])
      IN gone \in Tab /\ gone.starts = down.starts /\ gone.indexer = Nothing
  BY <1>1 DEF letGoOfTheWriter, Tab
<1>4. /\ \A r, s \in down.starts : r.handle = s.handle => r = s
      /\ me.indexer # Nothing => \A s \in down.starts : s.handle # me.indexer.handle
  BY <1>1, OutdatedKeeps DEF OwnHandles
<1>5. CASE me.indexer = Nothing
  BY <1>1, <1>2, <1>4, <1>5 DEF Keeps, OwnHandles
<1>6. CASE me.indexer # Nothing
  BY <1>2, <1>3, <1>4, <1>6, <1>1 DEF Keeps, OwnHandles
<1> QED
  BY <1>5, <1>6

(* A start that moves on, or ends, keeps the others' handles.               *)
LEMMA MovedKeeps ==
    ASSUME NEW me \in Tab, OwnHandles(me), NEW s \in me.starts, NEW pc \in {"claim", "open"}
    PROVE  Keeps(me, Moved(me, s, pc)) /\ Keeps(me, Ended(me, s))
<1> DEFINE moved == [s EXCEPT !.pc = pc]
<1>1. s \in Start /\ me.starts \subseteq Start
  BY DEF Tab
<1>2. moved \in Start /\ moved.handle = s.handle
  BY <1>1 DEF Start
<1>3. Moved(me, s, pc) = [me EXCEPT !.starts = (me.starts \ {s}) \cup {moved}]
  BY DEF Moved, Tab
<1> HIDE DEF moved
<1>4. /\ Moved(me, s, pc) \in Tab
      /\ Moved(me, s, pc).starts = (me.starts \ {s}) \cup {moved}
      /\ Moved(me, s, pc).indexer = me.indexer
  BY <1>1, <1>2, <1>3 DEF Tab
<1>5. Ended(me, s) \in Tab /\ Ended(me, s).starts = me.starts \ {s} /\ Ended(me, s).indexer = me.indexer
  BY <1>1 DEF Ended, Tab
<1>6. Keeps(me, Moved(me, s, pc))
  BY <1>2, <1>4 DEF Keeps, OwnHandles
<1> QED
  BY <1>5, <1>6 DEF Keeps, OwnHandles

-----------------------------------------------------------------------------
(* Steps.                                                                   *)

(* A step that keeps a tab's writers, and does not touch the store.         *)
LEMMA QuietStep ==
    ASSUME Writers, NEW t \in Tabs, NEW now, Keeps(tab[t], now),
           tab' = [tab EXCEPT ![t] = now], UNCHANGED store
    PROVE  Writers' /\ stored' = stored
<1>1. stored' = stored /\ claim' = claim
  BY DEF store
<1>2. tab' \in [Tabs -> Tab] /\ \A u \in Tabs : OwnHandles(tab'[u])
  BY DEF Writers, Keeps
<1>3. \A u \in Tabs : tab'[u].indexer \in {tab[u].indexer, Nothing}
  BY DEF Writers, Keeps
<1>4. ClaimIsLevel'
  BY <1>1, <1>3 DEF ClaimIsLevel, Writers
<1> QED
  BY <1>1, <1>2, <1>4 DEF Writers, OwnHandles
(* Every step but those of the writer itself keeps the writers.             *)
LEMMA HandlingStep ==
    ASSUME Writers, NEW t \in Tabs, Open(t) \/ Handling(t) \/ SeatOpened(t) \/ Steal(t)
    PROVE  Writers' /\ stored' = stored
<1> DEFINE me == tab[t]
<1>0. me \in Tab /\ OwnHandles(me)
  BY DEF Writers
<1>1. CASE Open(t)
  <2>1. Keeps(me, Blank("open"))
    BY DEF Keeps, Blank, Tab, OwnHandles
  <2> QED
    BY <1>1, <2>1, QuietStep DEF Open, Becomes
<1>2. CASE Granted(t)
  <2> DEFINE it == [me EXCEPT !.holding = TRUE, !.role = "writer"]
  <2>1. it \in Tab /\ it.starts = me.starts /\ it.indexer = me.indexer
    BY <1>0 DEF Tab
  <2> HIDE DEF it
  <2>2. OwnHandles(it) /\ \E h \in Handles : Unused(it, h)
    BY <1>0, <1>2, <2>1 DEF OwnHandles, Granted, MayBegin, Unused
  <2>3. Keeps(it, Begins(it, "claim", TRUE))
    BY <2>1, <2>2, BeginsKeeps
  <2>4. Keeps(me, Begins(it, "claim", TRUE))
    BY <2>1, <2>3 DEF Keeps
  <2> QED
    BY <1>2, <2>4, QuietStep DEF Granted, Becomes, it
<1>3. CASE QueueGranted(t)
  <2> DEFINE it == [me EXCEPT !.queued = FALSE, !.holding = TRUE]
  <2>1. it \in Tab /\ it.starts = me.starts /\ it.indexer = me.indexer
    BY <1>0 DEF Tab
  <2> HIDE DEF it
  <2>2. OwnHandles(it) /\ \E h \in Handles : Unused(it, h)
    BY <1>0, <1>3, <2>1 DEF OwnHandles, QueueGranted, MayBegin, Unused
  <2>3. Keeps(it, Begins(it, "seat", FALSE))
    BY <2>1, <2>2, BeginsKeeps
  <2>4. Keeps(me, Begins(it, "seat", FALSE))
    BY <2>1, <2>3 DEF Keeps
  <2> QED
    BY <1>3, <2>4, QuietStep DEF QueueGranted, Becomes, it
<1>4. CASE StealGranted(t)
  <2> DEFINE it == [me EXCEPT !.stealing = FALSE, !.holding = TRUE]
  <2>1. it \in Tab /\ it.starts = me.starts /\ it.indexer = me.indexer
    BY <1>0 DEF Tab
  <2> HIDE DEF it
  <2>2. OwnHandles(it) /\ \E h \in Handles : Unused(it, h)
    BY <1>0, <1>4, <2>1 DEF OwnHandles, StealGranted, MayBegin, Unused
  <2>3. Keeps(it, Begins(it, "seat", FALSE))
    BY <2>1, <2>2, BeginsKeeps
  <2>4. Keeps(me, Begins(it, "seat", FALSE))
    BY <2>1, <2>3 DEF Keeps
  <2> QED
    BY <1>4, <2>4, QuietStep DEF StealGranted, Becomes, it
<1>5. CASE TenureEnded(t)
  <2> DEFINE it == [me EXCEPT !.holding = FALSE, !.queued = TRUE]
  <2>1. it \in Tab /\ it.starts = me.starts /\ it.indexer = me.indexer
    BY <1>0 DEF Tab
  <2> HIDE DEF it
  <2>2. OwnHandles(it)
    BY <1>0, <2>1 DEF OwnHandles
  <2>3. Keeps(me, stepDown(it))
    BY <2>1, <2>2, StepDownKeeps DEF Keeps
  <2> QED
    BY <1>5, <2>3, QuietStep DEF TenureEnded, Becomes, it
<1>6. CASE Denied(t)
  <2>1. Keeps(me, [me EXCEPT !.seating = TRUE, !.queued = TRUE])
    BY <1>0 DEF Keeps, Tab, OwnHandles
  <2> QED
    BY <1>6, <2>1, QuietStep DEF Denied, Becomes
<1>7. CASE SeatOpened(t)
  <2>1. Keeps(me, [me EXCEPT !.seating = FALSE, !.reading = TRUE, !.role = "reader"])
    BY <1>0 DEF Keeps, Tab, OwnHandles
  <2> QED
    BY <1>7, <2>1, QuietStep DEF SeatOpened, Becomes
<1>8. CASE Steal(t)
  <2>1. Keeps(me, [me EXCEPT !.stealing = TRUE, !.queued = FALSE])
    BY <1>0 DEF Keeps, Tab, OwnHandles
  <2> QED
    BY <1>8, <2>1, QuietStep DEF Steal, Becomes
<1>9. CASE StealGrantedLate(t)
  <2>1. Keeps(me, [me EXCEPT !.stealing = FALSE])
    BY <1>0 DEF Keeps, Tab, OwnHandles
  <2> QED
    BY <1>9, <2>1, QuietStep DEF StealGrantedLate, Becomes
<1>10. CASE QueueGrantedLate(t) \/ TenureEndedLate(t)
  BY <1>10 DEF QueueGrantedLate, TenureEndedLate, store, Writers, ClaimIsLevel, OwnHandles
<1> QED
  BY <1>1, <1>2, <1>3, <1>4, <1>5, <1>6, <1>7, <1>8, <1>9, <1>10 DEF Handling
(* A fresh start claims for a writer that does not index yet, and opens it  *)
(* with no cursor.                                                          *)
LEMMA StartingStep ==
    ASSUME Writers, NEW t \in Tabs, NEW s \in tab[t].starts,
           Seated(t, s) \/ SeatedLate(t, s) \/ Claim(t, s) \/ Opened(t, s) \/ StartFails(t, s)
    PROVE  Writers' /\ stored' = stored
<1> DEFINE me == tab[t]
<1>0. me \in Tab /\ OwnHandles(me)
  BY DEF Writers
<1>1. CASE Seated(t, s)
  <2> DEFINE moved == Moved(me, s, "claim")
  <2>1. Keeps(me, moved)
    BY <1>0, MovedKeeps
  <2> HIDE DEF moved
  <2>2. Keeps(me, [moved EXCEPT !.demoted = FALSE, !.role = "writer"])
    BY <2>1 DEF Keeps, Tab, OwnHandles
  <2> QED
    BY <1>1, <2>2, QuietStep DEF Seated, Becomes, moved
<1>2. CASE SeatedLate(t, s)
  BY <1>0, <1>2, MovedKeeps, QuietStep DEF SeatedLate, Becomes
<1>3. CASE StartFails(t, s)
  BY <1>0, <1>3, MovedKeeps, QuietStep DEF StartFails, Becomes
<1>4. CASE Claim(t, s)
  <2>1. Keeps(me, Moved(me, s, "open"))
    BY <1>0, MovedKeeps
  <2>2. /\ tab' = [tab EXCEPT ![t] = Moved(me, s, "open")]
        /\ claim' = [tab |-> t, handle |-> s.handle] /\ stored' = stored
    BY <1>4 DEF Claim, Becomes
  <2>3. tab' \in [Tabs -> Tab] /\ \A u \in Tabs : OwnHandles(tab'[u])
    BY <2>1, <2>2 DEF Writers, Keeps
  <2>4. \A u \in Tabs : tab'[u].indexer \in {tab[u].indexer, Nothing}
    BY <2>1, <2>2 DEF Writers, Keeps
  <2>5. ASSUME NEW u \in Tabs, tab'[u].indexer # Nothing
        PROVE  claim' # [tab |-> u, handle |-> tab'[u].indexer.handle]
    <3>1. u = t => s.handle # tab'[u].indexer.handle
      BY <1>0, <2>4, <2>5 DEF OwnHandles
    <3> QED
      BY <2>2, <3>1
  <2> QED
    BY <2>2, <2>3, <2>5 DEF Writers, ClaimIsLevel, OwnHandles
<1>5. CASE Opened(t, s)
  <2> DEFINE ended == Ended(me, s)
             made == [handle |-> s.handle, cursor |-> Nothing]
             writer == [ended EXCEPT !.indexer = made]
             now == tab'[t]
  <2>1. Keeps(me, ended) /\ ended.starts = me.starts \ {s}
    BY <1>0, MovedKeeps DEF Ended, Tab
  <2>2. made \in Indexer /\ made.handle = s.handle /\ made.cursor = Nothing
    BY <1>0 DEF Indexer, Tab, Start
  <2>3. /\ tab' = [tab EXCEPT ![t] = IF s.first THEN [writer EXCEPT !.indexing = ~me.demoted]
                                     ELSE IF ~s.current THEN letGoOfTheWriter(writer)
                                     ELSE [writer EXCEPT !.indexing = ~me.demoted, !.reading = FALSE]]
        /\ stored' = stored /\ claim' = claim
    BY <1>5 DEF Opened, openContainer, Becomes, store
  <2> HIDE DEF ended, made
  <2>4. writer \in Tab /\ writer.starts = me.starts \ {s} /\ writer.indexer = made
    BY <2>1, <2>2 DEF Keeps, Tab
  <2> HIDE DEF writer
  <2>5. /\ now \in Tab /\ now.starts = me.starts \ {s}
        /\ now.indexer \in {made, Nothing}
    <3>1. now = IF s.first THEN [writer EXCEPT !.indexing = ~me.demoted]
                ELSE IF ~s.current THEN letGoOfTheWriter(writer)
                ELSE [writer EXCEPT !.indexing = ~me.demoted, !.reading = FALSE]
      BY <2>3 DEF Writers
    <3>2. (~me.demoted) \in BOOLEAN
      OBVIOUS
    <3>3. CASE s.first
      BY <2>4, <3>1, <3>2, <3>3, ZenonT(30) DEF Tab
    <3>4. CASE ~s.first /\ ~s.current
      BY <2>4, <3>1, <3>4 DEF Tab, letGoOfTheWriter
    <3>5. CASE ~s.first /\ s.current
      BY <2>4, <3>1, <3>2, <3>5, ZenonT(30) DEF Tab
    <3> QED
      BY <3>3, <3>4, <3>5
  <2>6. OwnHandles(now)
    BY <1>0, <2>2, <2>5 DEF OwnHandles
  <2>7. tab' \in [Tabs -> Tab] /\ \A u \in Tabs : u # t => tab'[u] = tab[u]
    BY <2>3, <2>5 DEF Writers
  <2>8. \A u \in Tabs : OwnHandles(tab'[u])
    BY <2>6, <2>7 DEF Writers
  <2>9. ClaimIsLevel'
    BY <2>2, <2>3, <2>5, <2>7 DEF ClaimIsLevel, Writers
  <2> QED
    BY <2>3, <2>7, <2>8, <2>9 DEF Writers, OwnHandles
<1> QED
  BY <1>1, <1>2, <1>3, <1>4, <1>5
(* A write lands only for the writer that the claim names, and continues    *)
(* from what is stored.                                                     *)
LEMMA IndexingStep ==
    ASSUME Writers, NEW t \in Tabs, Indexing(t)
    PROVE  Writers' /\ (stored' # stored => stored' = stored + 1)
<1> DEFINE me == tab[t]
<1>0. /\ me \in Tab /\ OwnHandles(me)
      /\ me.indexer # Nothing /\ me.indexer \in Indexer
  BY DEF Writers, Indexing, Load, Write, WriteRefused, Loops, Tab
<1>1. CASE WriteRefused(t)
  <2>1. Keeps(me, [me EXCEPT !.refusal = TRUE])
    BY <1>0 DEF Keeps, Tab, OwnHandles
  <2> QED
    BY <1>1, <2>1, QuietStep DEF WriteRefused, Becomes
<1>2. ASSUME NEW c \in 0 .. MaxBlock, stored' = c, claim' = claim,
             tab' = [tab EXCEPT ![t] = [me EXCEPT !.indexer.cursor = c]],
             \A u \in Tabs \ {t} : stored' # stored =>
                (tab[u].indexer # Nothing => claim # [tab |-> u, handle |-> tab[u].indexer.handle])
      PROVE  Writers'
  <2> DEFINE now == tab'[t]
  <2>1. /\ now \in Tab /\ now.starts = me.starts
        /\ now.indexer # Nothing => now.indexer.handle = me.indexer.handle /\ now.indexer.cursor = c
    BY <1>0, <1>2 DEF Writers, Tab, Indexer
  <2>2. tab' \in [Tabs -> Tab] /\ \A u \in Tabs : u # t => tab'[u] = tab[u]
    BY <1>2, <2>1 DEF Writers
  <2>3. OwnHandles(now)
    BY <1>0, <2>1 DEF OwnHandles
  <2>4. \A u \in Tabs : OwnHandles(tab'[u])
    BY <2>2, <2>3 DEF Writers
  <2>5. ClaimIsLevel'
    BY <1>2, <2>1, <2>2 DEF ClaimIsLevel, Writers
  <2> QED
    BY <1>2, <2>2, <2>4, <2>5 DEF Writers, OwnHandles
<1>3. CASE Load(t)
  BY <1>2, <1>3 DEF Load, Becomes, store, Writers
<1>4. CASE Write(t)
  <2> DEFINE c == me.indexer.cursor
  <2>1. /\ c \in 0 .. MaxBlock - 1 /\ stored' = c + 1 /\ claim' = claim
        /\ claim = [tab |-> t, handle |-> me.indexer.handle]
        /\ tab' = [tab EXCEPT ![t] = [me EXCEPT !.indexer.cursor = c + 1]]
    BY <1>4 DEF Write, Becomes, held
  <2>2. c # Nothing /\ MaxBlock \in Nat
    BY <2>1, TabAssumption
  <2>3. c = stored
    BY <1>0, <2>1, <2>2 DEF Writers, ClaimIsLevel
  <2>4. c + 1 \in 0 .. MaxBlock
    BY <2>1, <2>2
  <2>5. \A u \in Tabs \ {t} : claim # [tab |-> u, handle |-> tab[u].indexer.handle]
    BY <2>1
  <2> QED
    BY <1>2, <2>1, <2>3, <2>4, <2>5
<1> QED
  BY <1>1, <1>3, <1>4 DEF Indexing, Load, store

(* A refusal that is handled, and what the browser does to a tab.           *)
LEMMA OtherStep ==
    ASSUME Writers, NEW t \in Tabs, Demote(t) \/ Close(t) \/ Flip(t)
    PROVE  Writers' /\ stored' = stored
<1> DEFINE me == tab[t]
           told == [me EXCEPT !.refusal = FALSE]
<1>0. me \in Tab /\ OwnHandles(me)
  BY DEF Writers
<1>1. CASE Demote(t)
  <2>1. Keeps(me, told)
    BY <1>0 DEF Keeps, Tab, OwnHandles
  <2>2. Keeps(me, [told EXCEPT !.demoted = TRUE, !.indexing = FALSE, !.resigned = TRUE,
                               !.queued = FALSE, !.holding = FALSE])
    BY <1>0 DEF Keeps, Tab, OwnHandles
  <2> QED
    BY <1>1, <2>1, <2>2, QuietStep DEF Demote, Becomes
<1>2. CASE Close(t)
  <2>1. Keeps(me, Blank("closed"))
    BY DEF Keeps, Blank, Tab, OwnHandles
  <2> QED
    BY <1>2, <2>1, QuietStep DEF Close, Becomes
<1>3. CASE Flip(t)
  BY <1>3 DEF Flip, store, Writers, ClaimIsLevel, OwnHandles
<1> QED
  BY <1>1, <1>2, <1>3

(* The writers are as they should be at first.                              *)
LEMMA WritersInit ==
    ASSUME Init
    PROVE  Writers
<1>1. Blank("unopened") \in Tab /\ Blank("unopened").starts = {} /\ Blank("unopened").indexer = Nothing
  BY DEF Blank, Tab
<1> QED
  BY <1>1, TabAssumption DEF Init, Writers, OwnHandles, ClaimIsLevel

(* Every step keeps the invariant, and moves the store by one block or not  *)
(* at all.                                                                  *)
LEMMA WritersStep ==
    ASSUME Writers, [Next]_vars
    PROVE  Writers' /\ (stored' # stored => stored' = stored + 1)
<1>1. CASE UNCHANGED vars
  BY <1>1 DEF vars, store, Writers, ClaimIsLevel, OwnHandles
<1>2. CASE \E t \in Tabs : Open(t) \/ Handling(t) \/ SeatOpened(t) \/ Steal(t)
  BY <1>2, HandlingStep
<1>3. CASE \E t \in Tabs : \E s \in tab[t].starts :
             Seated(t, s) \/ SeatedLate(t, s) \/ Claim(t, s) \/ Opened(t, s) \/ StartFails(t, s)
  BY <1>3, StartingStep
<1>4. CASE \E t \in Tabs : Indexing(t)
  BY <1>4, IndexingStep
<1>5. CASE \E t \in Tabs : Demote(t) \/ Close(t) \/ Flip(t)
  BY <1>5, OtherStep
<1> QED
  BY <1>1, <1>2, <1>3, <1>4, <1>5 DEF Next, Starting

(* Whatever the tabs believe, the store moves one block at a time: the      *)
(* writer claim alone makes it so (claimOrCheck).                           *)
THEOREM OneWriterContinues == Spec => WritesContinue
<1>1. Init => Writers
  BY WritersInit
<1>2. Writers /\ [Next]_vars => Writers'
  BY WritersStep
<1>3. Writers /\ [Next]_vars => [stored' # stored => stored' = stored + 1]_vars
  BY WritersStep
<1> QED
  BY <1>1, <1>2, <1>3, PTL DEF Spec, WritesContinue

-----------------------------------------------------------------------------
(* The phases of a candidacy (standForElection), each with what the lock    *)
(* manager has said that the tab has not handled: the tab's record, its     *)
(* inbox, whether its request is queued, and how it holds the lock.         *)

By(t) == IF holder # Nothing /\ holder.tab = t THEN holder.by ELSE "none"

(* Not standing: before the tab is opened, and after it is closed.          *)
Away(me, box, in, by) == me.life # "open" /\ ~me.holding /\ box = <<>> /\ ~in /\ by = "none"

(* The first request is answered, and the tab does not know.                *)
New(me, box, in, by) ==
    /\ me = Blank("open") /\ ~in
    /\ \/ box = <<"granted">> /\ by = "ask"
       \/ box \in {<<"granted", "broken">>, <<"denied">>} /\ by = "none"

Leads(me, box, in, by) ==
    /\ me.life = "open" /\ ~me.resigned /\ me.holding /\ ~me.queued /\ ~me.stealing /\ ~in
    /\ \/ box = <<>> /\ by # "none"
       \/ box = <<"broken">> /\ by = "none"

Waits(me, box, in, by) ==
    /\ me.life = "open" /\ ~me.resigned /\ ~me.holding /\ me.queued /\ ~me.stealing /\ in
    /\ box = <<>> /\ by = "none"

(* The queued request is granted, and the tab does not know.                *)
Called(me, box, in, by) ==
    /\ me.life = "open" /\ ~me.resigned /\ ~me.holding /\ me.queued /\ ~me.stealing /\ ~in
    /\ \/ box = <<"queueGranted">> /\ by = "queue"
       \/ box = <<"queueGranted", "broken">> /\ by = "none"

(* The tab has stolen: what is left of its queued request comes first.      *)
Stale == {<<>>, <<"queueGranted">>, <<"queueGranted", "broken">>, <<"broken">>}
Stolen == {<<"stealGranted">>, <<"queueGranted", "stealGranted">>, <<"broken", "stealGranted">>,
           <<"queueGranted", "broken", "stealGranted">>}
StolenBack == {<<"stealGranted", "broken">>, <<"queueGranted", "stealGranted", "broken">>,
               <<"broken", "stealGranted", "broken">>,
               <<"queueGranted", "broken", "stealGranted", "broken">>}

Takes(me, box, in, by) ==
    /\ me.life = "open" /\ ~me.resigned /\ ~me.holding /\ ~me.queued /\ me.stealing /\ ~in
    /\ \/ box \in Stolen /\ by = "steal"
       \/ box \in StolenBack /\ by = "none"

(* The tab has resigned: a grant that still comes is given back.            *)
Retired(me, box, in, by) ==
    /\ me.life = "open" /\ me.resigned /\ ~me.holding /\ ~me.queued /\ ~in
    /\ \/ box \in Stale \cup Stolen \cup StolenBack /\ by = "none"
       \/ box = <<"queueGranted">> /\ by = "queue"
       \/ box \in Stolen /\ by = "steal"

Phase(me, box, in, by) ==
    \/ Away(me, box, in, by) \/ New(me, box, in, by) \/ Leads(me, box, in, by)
    \/ Waits(me, box, in, by) \/ Called(me, box, in, by) \/ Takes(me, box, in, by)
    \/ Retired(me, box, in, by)

(* No tab waits twice.                                                      *)
OneEach(queue) == \A i, j \in DOMAIN queue : queue[i] = queue[j] => i = j

Lease ==
    /\ TypeOK /\ OneEach(waiting)
    /\ \A t \in Tabs : Phase(tab[t], inbox[t], InQueue(t), By(t))

-----------------------------------------------------------------------------
(* Lemmas about the inboxes and the queue.                                  *)

(* What the lock manager adds to the inboxes that occur.                    *)
LEMMA Adding ==
    ASSUME NEW a \in Event, NEW b \in Event, NEW c \in Event, NEW d \in Event
    PROVE  /\ Append(<<>>, a) = <<a>> /\ Append(<<a>>, b) = <<a, b>>
           /\ Append(<<a, b>>, c) = <<a, b, c>> /\ Append(<<a, b, c>>, d) = <<a, b, c, d>>
<1> DEFINE one == <<a>> two == <<a, b>> three == <<a, b, c>> four == <<a, b, c, d>>
<1>1. one \in Seq(Event) /\ Len(one) = 1 /\ one[1] = a
  OBVIOUS
<1>2. two \in Seq(Event) /\ Len(two) = 2 /\ two[1] = a /\ two[2] = b
  OBVIOUS
<1>3. three \in Seq(Event) /\ Len(three) = 3 /\ three[1] = a /\ three[2] = b /\ three[3] = c
  OBVIOUS
<1>4. /\ four \in Seq(Event) /\ Len(four) = 4
      /\ four[1] = a /\ four[2] = b /\ four[3] = c /\ four[4] = d
  OBVIOUS
<1>5. Append(<<>>, a) = one
  OBVIOUS
<1> HIDE DEF one, two, three, four
<1>6. Append(one, b) = two
  <2> DEFINE z == Append(one, b)
  <2>1. /\ z \in Seq(Event) /\ Len(z) = Len(one) + 1
        /\ (\A i \in 1 .. Len(one) : z[i] = one[i]) /\ z[Len(one) + 1] = b
    <3>1. one \in Seq(Event)
      BY <1>1
    <3> QED
      BY <3>1, AppendProperties
  <2> HIDE DEF z
  <2>2. z = two
    BY <1>1, <1>2, <2>1, SeqEqual
  <2> QED
    BY <2>2 DEF z
<1>7. Append(two, c) = three
  <2> DEFINE z == Append(two, c)
  <2>1. /\ z \in Seq(Event) /\ Len(z) = Len(two) + 1
        /\ (\A i \in 1 .. Len(two) : z[i] = two[i]) /\ z[Len(two) + 1] = c
    <3>1. two \in Seq(Event)
      BY <1>2
    <3> QED
      BY <3>1, AppendProperties
  <2> HIDE DEF z
  <2>2. z = three
    BY <1>2, <1>3, <2>1, SeqEqual
  <2> QED
    BY <2>2 DEF z
<1>8. Append(three, d) = four
  <2> DEFINE z == Append(three, d)
  <2>1. /\ z \in Seq(Event) /\ Len(z) = Len(three) + 1
        /\ (\A i \in 1 .. Len(three) : z[i] = three[i]) /\ z[Len(three) + 1] = d
    <3>1. three \in Seq(Event)
      BY <1>3
    <3> QED
      BY <3>1, AppendProperties
  <2> HIDE DEF z
  <2>2. z = four
    BY <1>3, <1>4, <2>1, SeqEqual
  <2> QED
    BY <2>2 DEF z
<1> QED
  BY <1>5, <1>6, <1>7, <1>8 DEF one, two, three, four

(* A request that is added to the queue.                                    *)
LEMMA QueueGrows ==
    ASSUME NEW q \in Seq(Tabs), OneEach(q), NEW t \in Tabs, \A i \in DOMAIN q : q[i] # t
    PROVE  /\ Append(q, t) \in Seq(Tabs) /\ OneEach(Append(q, t))
           /\ \A u \in Tabs : (\E i \in DOMAIN Append(q, t) : Append(q, t)[i] = u)
                                <=> u = t \/ \E i \in DOMAIN q : q[i] = u
<1> DEFINE p == Append(q, t)
<1>1. /\ p \in Seq(Tabs) /\ Len(p) = Len(q) + 1 /\ Len(q) \in Nat
      /\ \A i \in 1 .. Len(q) : p[i] = q[i]
      /\ p[Len(q) + 1] = t
      /\ DOMAIN p = 1 .. Len(q) + 1 /\ DOMAIN q = 1 .. Len(q)
  OBVIOUS
<1> HIDE DEF p
<1>2. OneEach(p)
  BY <1>1 DEF OneEach
<1>3. ASSUME NEW u \in Tabs
      PROVE  (\E i \in DOMAIN p : p[i] = u) <=> u = t \/ \E i \in DOMAIN q : q[i] = u
  BY <1>1
<1> QED
  BY <1>1, <1>2, <1>3 DEF p

(* The request at the head of the queue leaves it.                          *)
LEMMA QueueMoves ==
    ASSUME NEW q \in Seq(Tabs), OneEach(q), q # <<>>
    PROVE  /\ Head(q) \in Tabs /\ Tail(q) \in Seq(Tabs) /\ OneEach(Tail(q))
           /\ \E i \in DOMAIN q : q[i] = Head(q)
           /\ \A u \in Tabs : (\E i \in DOMAIN Tail(q) : Tail(q)[i] = u)
                                <=> u # Head(q) /\ \E i \in DOMAIN q : q[i] = u
<1> DEFINE p == Tail(q)
<1>1. /\ p \in Seq(Tabs) /\ Len(p) = Len(q) - 1 /\ Len(q) \in Nat \ {0}
      /\ \A i \in 1 .. Len(p) : p[i] = q[i + 1]
      /\ Head(q) = q[1] /\ q[1] \in Tabs
      /\ DOMAIN p = 1 .. Len(q) - 1 /\ DOMAIN q = 1 .. Len(q)
  OBVIOUS
<1> HIDE DEF p
<1>2. OneEach(p)
  BY <1>1 DEF OneEach
<1>3. ASSUME NEW u \in Tabs
      PROVE  (\E i \in DOMAIN p : p[i] = u) <=> u # q[1] /\ \E i \in DOMAIN q : q[i] = u
  <2>1. ASSUME NEW i \in DOMAIN p, p[i] = u
        PROVE  i + 1 \in DOMAIN q /\ q[i + 1] = u /\ u # q[1]
    BY <1>1, <2>1 DEF OneEach
  <2>2. ASSUME NEW i \in DOMAIN q, q[i] = u, u # q[1]
        PROVE  i - 1 \in DOMAIN p /\ p[i - 1] = u
    BY <1>1, <2>2
  <2> QED
    BY <2>1, <2>2
<1>4. 1 \in DOMAIN q
  BY <1>1
<1> QED
  BY <1>1, <1>2, <1>3, <1>4 DEF p

(* A request that is aborted leaves the queue, and no other does.           *)
LEMMA QueueWithout ==
    ASSUME waiting \in Seq(Tabs), OneEach(waiting), NEW t \in Tabs
    PROVE  /\ Without(t) \in Seq(Tabs) /\ OneEach(Without(t))
           /\ \A u \in Tabs : (\E i \in DOMAIN Without(t) : Without(t)[i] = u) <=> u # t /\ InQueue(u)
           /\ ~InQueue(t) => Without(t) = waiting
<1>1. CASE ~InQueue(t)
  BY <1>1 DEF Without, InQueue
<1>2. CASE InQueue(t)
  <2> DEFINE k == CHOOSE i \in DOMAIN waiting : waiting[i] = t
             n == Len(waiting)
             p == SubSeq(waiting, 1, k - 1) \o SubSeq(waiting, k + 1, n)
  <2>1. k \in DOMAIN waiting /\ waiting[k] = t
    BY <1>2 DEF InQueue
  <2>2. Without(t) = p
    BY <1>2 DEF Without
  <2>3. n \in Nat /\ DOMAIN waiting = 1 .. n /\ \A i \in 1 .. n : waiting[i] \in Tabs
    OBVIOUS
  <2> HIDE DEF k, n
  <2>4. k \in 1 .. n /\ k \in Nat
    BY <2>1, <2>3
  <2> DEFINE l == SubSeq(waiting, 1, k - 1)
             r == SubSeq(waiting, k + 1, n)
  <2>5. l \in Seq(Tabs) /\ Len(l) = k - 1 /\ \A i \in 1 .. k - 1 : l[i] = waiting[i]
    BY <2>3, <2>4 DEF n
  <2>6. r \in Seq(Tabs) /\ Len(r) = n - k /\ \A i \in 1 .. n - k : r[i] = waiting[i + k]
    <3>1. /\ Len(r) = n - k /\ r \in Seq(Tabs)
          /\ \A i \in 1 .. n - k : r[i] = waiting[(k + 1) + i - 1]
      BY <2>3, <2>4 DEF n
    <3>2. \A i \in 1 .. n - k : (k + 1) + i - 1 = i + k
      BY <2>3, <2>4
    <3> QED
      BY <3>1, <3>2
  <2> HIDE DEF l, r
  <2>7. /\ p = l \o r /\ p \in Seq(Tabs) /\ Len(p) = n - 1
        /\ \A i \in 1 .. n - 1 : p[i] = IF i < k THEN waiting[i] ELSE waiting[i + 1]
    <3>1. p = l \o r
      BY DEF l, r
    <3>2. /\ l \o r \in Seq(Tabs) /\ Len(l \o r) = n - 1
          /\ \A i \in 1 .. n - 1 : (l \o r)[i] = IF i <= k - 1 THEN l[i] ELSE r[i - (k - 1)]
      BY <2>3, <2>4, <2>5, <2>6
    <3>3. ASSUME NEW i \in 1 .. n - 1
          PROVE  (l \o r)[i] = IF i < k THEN waiting[i] ELSE waiting[i + 1]
      <4>1. CASE i < k
        BY <2>3, <2>4, <2>5, <3>2, <4>1
      <4>2. CASE ~(i < k)
        <5>1. i - (k - 1) \in 1 .. n - k /\ (i - (k - 1)) + k = i + 1 /\ ~(i <= k - 1)
          BY <2>3, <2>4, <4>2
        <5> QED
          BY <2>6, <3>2, <4>2, <5>1
      <4> QED
        BY <4>1, <4>2
    <3> QED
      BY <3>1, <3>2, <3>3
  <2> HIDE DEF p
  <2>8. DOMAIN p = 1 .. n - 1
    BY <2>7
  <2>9. OneEach(p)
    <3>1. SUFFICES ASSUME NEW i \in 1 .. n - 1, NEW j \in 1 .. n - 1, p[i] = p[j]
                   PROVE  i = j
      BY <2>8 DEF OneEach
    <3> DEFINE f == IF i < k THEN i ELSE i + 1
               g == IF j < k THEN j ELSE j + 1
    <3>2. f \in 1 .. n /\ g \in 1 .. n /\ p[i] = waiting[f] /\ p[j] = waiting[g]
      BY <2>3, <2>4, <2>7
    <3>3. f = g
      BY <2>3, <3>1, <3>2 DEF OneEach
    <3> QED
      BY <2>4, <3>3
  <2>10. ASSUME NEW u \in Tabs
         PROVE  (\E i \in DOMAIN p : p[i] = u) <=> u # t /\ InQueue(u)
    <3>1. ASSUME NEW i \in DOMAIN p, p[i] = u
          PROVE  u # t /\ InQueue(u)
      <4> DEFINE j == IF i < k THEN i ELSE i + 1
      <4>1. j \in 1 .. n /\ j # k /\ waiting[j] = u
        BY <2>3, <2>4, <2>7, <2>8, <3>1
      <4> QED
        BY <2>1, <2>3, <4>1 DEF InQueue, OneEach
    <3>2. ASSUME u # t, NEW i \in 1 .. n, waiting[i] = u
          PROVE  \E j \in DOMAIN p : p[j] = u
      <4> DEFINE j == IF i < k THEN i ELSE i - 1
      <4>1. i # k
        BY <2>1, <3>2
      <4>2. j \in 1 .. n - 1 /\ (IF j < k THEN j ELSE j + 1) = i
        BY <2>3, <2>4, <4>1
      <4>3. p[j] = waiting[i]
        BY <2>7, <4>2
      <4> QED
        BY <2>8, <3>2, <4>2, <4>3
    <3> QED
      BY <2>3, <3>1, <3>2 DEF InQueue
  <2> QED
    BY <1>2, <2>2, <2>7, <2>9, <2>10
<1> QED
  BY <1>1, <1>2

-----------------------------------------------------------------------------
(* The phases, as the lock manager moves on.                                *)

(* The inboxes that occur, as the lock is taken and as events are handled.  *)
LEMMA Taken ==
    /\ Append(<<>>, "broken") = <<"broken">>
    /\ Append(<<"granted">>, "broken") = <<"granted", "broken">>
    /\ Append(<<"queueGranted">>, "broken") = <<"queueGranted", "broken">>
    /\ \A box \in Stolen : Append(box, "broken") \in StolenBack
<1>1. /\ \A a \in Event : Append(<<>>, a) = <<a>>
      /\ \A a, b \in Event : Append(<<a>>, b) = <<a, b>>
      /\ \A a, b, c \in Event : Append(<<a, b>>, c) = <<a, b, c>>
      /\ \A a, b, c, d \in Event : Append(<<a, b, c>>, d) = <<a, b, c, d>>
  BY Adding
<1>2. {"granted", "queueGranted", "stealGranted", "broken"} \subseteq Event
  BY DEF Event
<1>3. /\ Append(<<>>, "broken") = <<"broken">>
      /\ Append(<<"granted">>, "broken") = <<"granted", "broken">>
      /\ Append(<<"queueGranted">>, "broken") = <<"queueGranted", "broken">>
  BY <1>1, <1>2
<1>4. Append(<<"stealGranted">>, "broken") = <<"stealGranted", "broken">>
  BY <1>1, <1>2
<1>5. Append(<<"queueGranted", "stealGranted">>, "broken") = <<"queueGranted", "stealGranted", "broken">>
  BY <1>1, <1>2
<1>6. Append(<<"broken", "stealGranted">>, "broken") = <<"broken", "stealGranted", "broken">>
  BY <1>1, <1>2
<1>7. Append(<<"queueGranted", "broken", "stealGranted">>, "broken")
        = <<"queueGranted", "broken", "stealGranted", "broken">>
  BY <1>1, <1>2
<1>8. \A box \in Stolen : Append(box, "broken") \in StolenBack
  BY <1>4, <1>5, <1>6, <1>7, Zenon DEF Stolen, StolenBack
<1> QED
  BY <1>3, <1>8

(* The lock is taken from a tab.                                            *)
LEMMA PhaseBroken ==
    ASSUME NEW me, NEW box, NEW in \in BOOLEAN, NEW by, by # "none", Phase(me, box, in, by)
    PROVE  ~in /\ Phase(me, Append(box, "broken"), in, "none")
<1>1. CASE New(me, box, in, by)
  BY <1>1, Taken, Zenon DEF New, Phase
<1>2. CASE Leads(me, box, in, by)
  BY <1>2, Taken, Zenon DEF Leads, Phase
<1>3. CASE Called(me, box, in, by)
  BY <1>3, Taken, Zenon DEF Called, Phase
<1>4. CASE Takes(me, box, in, by)
  BY <1>4, Taken, Zenon DEF Takes, Phase
<1>5. CASE Retired(me, box, in, by)
  <2>1. Append(box, "broken") \in Stale \cup StolenBack
    BY <1>5, Taken, Zenon DEF Retired, Stale
  <2> QED
    BY <1>5, <2>1, Zenon DEF Retired, Phase
<1>6. ~Away(me, box, in, by) /\ ~Waits(me, box, in, by)
  BY DEF Away, Waits
<1> QED
  BY <1>1, <1>2, <1>3, <1>4, <1>5, <1>6 DEF Phase

(* The lock comes to a tab that waits.                                      *)
LEMMA PhaseCalled ==
    ASSUME NEW me, NEW box, NEW by, Phase(me, box, TRUE, by)
    PROVE  by = "none" /\ Phase(me, Append(box, "queueGranted"), FALSE, "queue")
<1>1. Waits(me, box, TRUE, by)
  BY DEF Phase, Away, New, Leads, Called, Takes, Retired
<1>2. Append(box, "queueGranted") = <<"queueGranted">>
  BY <1>1 DEF Waits
<1> QED
  BY <1>1, <1>2 DEF Waits, Called, Phase

(* The inboxes that occur, as their events are handled.                     *)
LEMMA Handed ==
    /\ \A a \in Event : <<a>> # <<>> /\ Head(<<a>>) = a /\ Tail(<<a>>) = <<>>
    /\ \A a, b \in Event : <<a, b>> # <<>> /\ Head(<<a, b>>) = a /\ Tail(<<a, b>>) = <<b>>
    /\ \A box \in Stale : box = <<>> \/ (Head(box) \in {"queueGranted", "broken"} /\ Tail(box) \in Stale)
    /\ \A box \in Stolen :
        box = <<"stealGranted">> \/ (Head(box) \in {"queueGranted", "broken"} /\ Tail(box) \in Stolen)
    /\ \A box \in StolenBack :
        \/ box = <<"stealGranted", "broken">>
        \/ Head(box) \in {"queueGranted", "broken"} /\ Tail(box) \in StolenBack
<1>1. /\ \A a \in Event : <<a>> # <<>> /\ Head(<<a>>) = a /\ Tail(<<a>>) = <<>>
      /\ \A a, b \in Event : <<a, b>> # <<>> /\ Head(<<a, b>>) = a /\ Tail(<<a, b>>) = <<b>>
  OBVIOUS
<1>2. \A a, b, c \in Event : Head(<<a, b, c>>) = a /\ Tail(<<a, b, c>>) = <<b, c>>
  OBVIOUS
<1>3. \A a, b, c, d \in Event : Head(<<a, b, c, d>>) = a /\ Tail(<<a, b, c, d>>) = <<b, c, d>>
  <2>1. ASSUME NEW a \in Event, NEW b \in Event, NEW c \in Event, NEW d \in Event
        PROVE  Head(<<a, b, c, d>>) = a /\ Tail(<<a, b, c, d>>) = <<b, c, d>>
    OBVIOUS
  <2> QED
    BY <2>1
<1>4. {"queueGranted", "stealGranted", "broken"} \subseteq Event
  BY DEF Event
<1>5. /\ Head(<<"queueGranted">>) = "queueGranted" /\ Tail(<<"queueGranted">>) = <<>>
      /\ Head(<<"broken">>) = "broken" /\ Tail(<<"broken">>) = <<>>
      /\ Head(<<"queueGranted", "broken">>) = "queueGranted"
      /\ Tail(<<"queueGranted", "broken">>) = <<"broken">>
  BY <1>1, <1>4
<1>6. /\ Head(<<"queueGranted", "stealGranted">>) = "queueGranted"
      /\ Tail(<<"queueGranted", "stealGranted">>) = <<"stealGranted">>
      /\ Head(<<"broken", "stealGranted">>) = "broken"
      /\ Tail(<<"broken", "stealGranted">>) = <<"stealGranted">>
  BY <1>1, <1>4
<1>7. /\ Head(<<"queueGranted", "broken", "stealGranted">>) = "queueGranted"
      /\ Tail(<<"queueGranted", "broken", "stealGranted">>) = <<"broken", "stealGranted">>
  BY <1>2, <1>4
<1>8. /\ Head(<<"queueGranted", "stealGranted", "broken">>) = "queueGranted"
      /\ Tail(<<"queueGranted", "stealGranted", "broken">>) = <<"stealGranted", "broken">>
  BY <1>2, <1>4
<1>9. /\ Head(<<"broken", "stealGranted", "broken">>) = "broken"
      /\ Tail(<<"broken", "stealGranted", "broken">>) = <<"stealGranted", "broken">>
  BY <1>2, <1>4
<1>10. /\ Head(<<"queueGranted", "broken", "stealGranted", "broken">>) = "queueGranted"
       /\ Tail(<<"queueGranted", "broken", "stealGranted", "broken">>) = <<"broken", "stealGranted", "broken">>
  BY <1>3, <1>4
<1>11. \A box \in Stale : box = <<>> \/ (Head(box) \in {"queueGranted", "broken"} /\ Tail(box) \in Stale)
  BY <1>5, Zenon DEF Stale
<1>12. \A box \in Stolen :
        box = <<"stealGranted">> \/ (Head(box) \in {"queueGranted", "broken"} /\ Tail(box) \in Stolen)
  BY <1>6, <1>7, Zenon DEF Stolen
<1>13. \A box \in StolenBack :
        \/ box = <<"stealGranted", "broken">>
        \/ Head(box) \in {"queueGranted", "broken"} /\ Tail(box) \in StolenBack
  BY <1>8, <1>9, <1>10, Zenon DEF StolenBack
<1> QED
  BY <1>1, <1>11, <1>12, <1>13

(* The steps of a tab that do not touch its candidacy.                      *)
SameStand(me, now) ==
    /\ now.life = me.life /\ now.resigned = me.resigned /\ now.holding = me.holding
    /\ now.queued = me.queued /\ now.stealing = me.stealing

(* The phases, as a tab handles its events.                                 *)

(* What the tab does besides standing leaves its phase alone.               *)
LEMMA PhaseKept ==
    ASSUME NEW me, NEW now, NEW box, NEW in, NEW by, Phase(me, box, in, by),
           me # Blank("open"), SameStand(me, now)
    PROVE  Phase(now, box, in, by)
  BY DEF Phase, Away, New, Leads, Waits, Called, Takes, Retired, SameStand

(* A tab that is not open has no request.                                   *)
LEMMA PhaseAway ==
    ASSUME NEW me, NEW box, NEW in \in BOOLEAN, NEW by, Phase(me, box, in, by), me.life # "open"
    PROVE  box = <<>> /\ ~in /\ by = "none"
  BY DEF Phase, Away, New, Leads, Waits, Called, Takes, Retired, Blank

(* The event that comes next tells the phases apart.                        *)
LEMMA NextEvent ==
    ASSUME NEW me, NEW box, NEW in, NEW by, box # <<>>
    PROVE  /\ ~Away(me, box, in, by) /\ ~Waits(me, box, in, by)
           /\ New(me, box, in, by) => Head(box) \in {"granted", "denied"}
           /\ Leads(me, box, in, by) => Head(box) = "broken"
           /\ Called(me, box, in, by) => Head(box) = "queueGranted"
           /\ Takes(me, box, in, by) => Head(box) \in {"queueGranted", "broken", "stealGranted"}
           /\ Retired(me, box, in, by) => Head(box) \in {"queueGranted", "broken", "stealGranted"}
<1>1. /\ Head(<<"granted">>) = "granted" /\ Head(<<"granted", "broken">>) = "granted"
      /\ Head(<<"denied">>) = "denied" /\ Head(<<"broken">>) = "broken"
      /\ Head(<<"queueGranted">>) = "queueGranted" /\ Head(<<"queueGranted", "broken">>) = "queueGranted"
      /\ Head(<<"stealGranted">>) = "stealGranted" /\ Head(<<"stealGranted", "broken">>) = "stealGranted"
  BY Handed DEF Event
<1>2. ~Away(me, box, in, by) /\ ~Waits(me, box, in, by)
  BY DEF Away, Waits
<1>3. New(me, box, in, by) => Head(box) \in {"granted", "denied"}
  BY <1>1, Zenon DEF New
<1>4. Leads(me, box, in, by) => Head(box) = "broken"
  BY <1>1, Zenon DEF Leads
<1>5. Called(me, box, in, by) => Head(box) = "queueGranted"
  BY <1>1, Zenon DEF Called
<1>6. box \in Stale \cup Stolen \cup StolenBack => Head(box) \in {"queueGranted", "broken", "stealGranted"}
  BY <1>1, Handed, Zenon
<1>7. Takes(me, box, in, by) => box \in Stolen \cup StolenBack
  BY DEF Takes
<1>8. Retired(me, box, in, by) => box \in Stale \cup Stolen \cup StolenBack
  BY Zenon DEF Retired, Stale
<1> QED
  BY <1>2, <1>3, <1>4, <1>5, <1>6, <1>7, <1>8

(* The inboxes that are handled whole, or but for a loss.                   *)
LEMMA Rest ==
    /\ Tail(<<"granted">>) = <<>> /\ Tail(<<"granted", "broken">>) = <<"broken">>
    /\ Tail(<<"denied">>) = <<>> /\ Tail(<<"broken">>) = <<>>
    /\ Tail(<<"queueGranted">>) = <<>> /\ Tail(<<"queueGranted", "broken">>) = <<"broken">>
    /\ Tail(<<"stealGranted">>) = <<>> /\ Tail(<<"stealGranted", "broken">>) = <<"broken">>
  BY Handed DEF Event

(* A tab that is granted the lock at once leads.                            *)
LEMMA PhaseGranted ==
    ASSUME NEW me, NEW now, NEW box, NEW in, NEW by, Phase(me, box, in, by),
           box # <<>>, Head(box) = "granted",
           now.life = "open", ~now.resigned, now.holding, ~now.queued, ~now.stealing
    PROVE  Phase(now, Tail(box), in, by)
<1>1. New(me, box, in, by)
  BY NextEvent DEF Phase
<1>2. ~in /\ \/ Tail(box) = <<>> /\ by # "none"
             \/ Tail(box) = <<"broken">> /\ by = "none"
  <2>1. box # <<"denied">>
    BY Handed DEF Event
  <2> QED
    BY <1>1, <2>1, Rest, Zenon DEF New
<1> QED
  BY <1>1, <1>2, Zenon DEF New, Phase, Leads

(* A tab that queues waits, or is called.                                   *)
LEMMA PhaseQueues ==
    ASSUME NEW now, now.life = "open", ~now.resigned, ~now.holding, now.queued, ~now.stealing
    PROVE  Phase(now, <<>>, TRUE, "none") /\ Phase(now, <<"queueGranted">>, FALSE, "queue")
  BY Zenon DEF Phase, Waits, Called

(* A tab that is denied the lock has no request.                            *)
LEMMA PhaseDenied ==
    ASSUME NEW me, NEW box, NEW in, NEW by, Phase(me, box, in, by), box # <<>>, Head(box) = "denied"
    PROVE  ~in /\ by = "none" /\ Tail(box) = <<>>
<1>1. New(me, box, in, by)
  BY NextEvent DEF Phase
<1>2. box = <<"denied">>
  <2>1. box # <<"granted">> /\ box # <<"granted", "broken">>
    BY Handed DEF Event
  <2> QED
    BY <1>1, <2>1, Zenon DEF New
<1>3. by = "none"
  BY <1>1, <1>2, Handed DEF New, Event
<1> QED
  BY <1>1, <1>2, <1>3, Rest, Zenon DEF New

(* A tab whose queued request is granted leads.                             *)
LEMMA PhaseQueueGranted ==
    ASSUME NEW me, NEW now, NEW box, NEW in, NEW by, Phase(me, box, in, by),
           box # <<>>, Head(box) = "queueGranted", ~me.resigned, me.queued,
           now.life = me.life, ~now.resigned, now.holding, ~now.queued, now.stealing = me.stealing
    PROVE  Phase(now, Tail(box), in, by)
<1>1. Called(me, box, in, by)
  BY NextEvent DEF Phase, Takes, Retired
<1> QED
  BY <1>1, Rest, Zenon DEF Called, Phase, Leads

(* The queued request is granted too late: unless the grant is given back,  *)
(* the tab has stolen the lock or lost it.                                  *)
LEMMA PhaseQueueGrantedLate ==
    ASSUME NEW me, NEW box, NEW in, NEW by, Phase(me, box, in, by),
           box # <<>>, Head(box) = "queueGranted", me.resigned \/ ~me.queued
    PROVE  /\ ~in
           /\ by # "queue" => Phase(me, Tail(box), in, by)
           /\ by = "queue" => Phase(me, Tail(box), in, "none")
<1>1. Takes(me, box, in, by) \/ Retired(me, box, in, by)
  BY NextEvent DEF Phase, Called
<1>2. box # <<"stealGranted">> /\ box # <<"stealGranted", "broken">>
  BY Handed DEF Event
<1>3. /\ box \in Stale => Tail(box) \in Stale
      /\ box \in Stolen => Tail(box) \in Stolen
      /\ box \in StolenBack => Tail(box) \in StolenBack
  BY <1>2, Handed
<1>4. <<>> \in Stale
  BY DEF Stale
<1>5. CASE Takes(me, box, in, by)
  BY <1>3, <1>5, Zenon DEF Takes, Phase
<1>6. CASE Retired(me, box, in, by)
  BY <1>3, <1>4, <1>6, Rest, Zenon DEF Retired, Phase
<1> QED
  BY <1>1, <1>5, <1>6

(* A loss of what the tab did not hold.                                     *)
LEMMA PhaseTenureEndedLate ==
    ASSUME NEW me, NEW box, NEW in, NEW by, Phase(me, box, in, by),
           box # <<>>, Head(box) = "broken", me.resigned \/ ~me.holding
    PROVE  Phase(me, Tail(box), in, by)
<1>1. Takes(me, box, in, by) \/ Retired(me, box, in, by)
  BY NextEvent DEF Phase, Leads
<1>2. box # <<"stealGranted">> /\ box # <<"stealGranted", "broken">> /\ box # <<"queueGranted">>
  BY Handed DEF Event
<1>3. /\ box \in Stale => Tail(box) \in Stale
      /\ box \in Stolen => Tail(box) \in Stolen
      /\ box \in StolenBack => Tail(box) \in StolenBack
  BY <1>2, Handed
<1>4. CASE Takes(me, box, in, by)
  BY <1>3, <1>4, Zenon DEF Takes, Phase
<1>5. CASE Retired(me, box, in, by)
  BY <1>2, <1>3, <1>5, Zenon DEF Retired, Phase
<1> QED
  BY <1>1, <1>4, <1>5

(* A leader that has lost the lock has no request.                          *)
LEMMA PhaseTenureEnded ==
    ASSUME NEW me, NEW box, NEW in, NEW by, Phase(me, box, in, by),
           box # <<>>, Head(box) = "broken", ~me.resigned, me.holding
    PROVE  me.life = "open" /\ ~me.stealing /\ ~in /\ by = "none" /\ Tail(box) = <<>>
<1>1. Leads(me, box, in, by)
  BY NextEvent DEF Phase, Takes, Retired
<1> QED
  BY <1>1, Rest, Zenon DEF Leads

(* A reader steals, whether its queued request was granted or not.          *)
LEMMA PhaseSteal ==
    ASSUME NEW me, NEW now, NEW box, NEW in, NEW by, Phase(me, box, in, by),
           me.life = "open", me.reading, ~me.resigned, ~me.holding, ~me.stealing,
           now.life = me.life, ~now.resigned, ~now.holding, ~now.queued, now.stealing
    PROVE  Phase(now, Append(box, "stealGranted"), FALSE, "steal")
<1>1. Waits(me, box, in, by) \/ Called(me, box, in, by)
  BY DEF Phase, Away, New, Leads, Takes, Retired, Blank
<1>2. /\ Append(<<>>, "stealGranted") = <<"stealGranted">>
      /\ Append(<<"queueGranted">>, "stealGranted") = <<"queueGranted", "stealGranted">>
  BY Adding DEF Event
<1>3. Append(<<"queueGranted", "broken">>, "stealGranted") = <<"queueGranted", "broken", "stealGranted">>
  BY Adding DEF Event
<1>4. Append(box, "stealGranted") \in Stolen
  BY <1>1, <1>2, <1>3, Zenon DEF Waits, Called, Stolen
<1> QED
  BY <1>4, <1>1, Zenon DEF Phase, Takes, Waits, Called

(* A tab whose theft is granted leads.                                      *)
LEMMA PhaseStealGranted ==
    ASSUME NEW me, NEW now, NEW box, NEW in, NEW by, Phase(me, box, in, by),
           box # <<>>, Head(box) = "stealGranted", ~me.resigned,
           now.life = me.life, ~now.resigned, now.holding, now.queued = me.queued, ~now.stealing
    PROVE  Phase(now, Tail(box), in, by)
<1>1. Takes(me, box, in, by)
  BY NextEvent DEF Phase, Retired
<1>2. /\ box \in Stolen => box = <<"stealGranted">>
      /\ box \in StolenBack => box = <<"stealGranted", "broken">>
  BY Handed
<1> QED
  BY <1>1, <1>2, Rest, Zenon DEF Takes, Phase, Leads

(* The theft is granted to a tab that has resigned.                         *)
LEMMA PhaseStealGrantedLate ==
    ASSUME NEW me, NEW now, NEW box, NEW in, NEW by, Phase(me, box, in, by),
           box # <<>>, Head(box) = "stealGranted", me.resigned,
           now.life = me.life, now.resigned, now.holding = me.holding, now.queued = me.queued
    PROVE  /\ ~in
           /\ by # "steal" => Phase(now, Tail(box), in, by)
           /\ by = "steal" => Phase(now, Tail(box), in, "none")
<1>1. Retired(me, box, in, by)
  BY NextEvent DEF Phase, Takes
<1>2. /\ box \in Stolen => box = <<"stealGranted">>
      /\ box \in StolenBack => box = <<"stealGranted", "broken">>
      /\ box \notin Stale /\ box # <<"queueGranted">>
  BY Handed DEF Event
<1>3. <<>> \in Stale /\ <<"broken">> \in Stale
  BY DEF Stale
<1>4. Tail(box) \in Stale
  BY <1>1, <1>2, <1>3, Rest, Zenon DEF Retired
<1>5. by \in {"none", "steal"}
  BY <1>1, <1>2 DEF Retired
<1> QED
  BY <1>1, <1>4, <1>5, Zenon DEF Retired, Phase

(* A tab that resigns. One that leads gives the lock back.                  *)
LEMMA PhaseDemote ==
    ASSUME NEW me, NEW now, NEW box, NEW in, NEW by, Phase(me, box, in, by), me # Blank("open"),
           now.life = me.life, now.resigned, ~now.holding, ~now.queued
    PROVE  /\ by # "none" /\ me.holding => ~in /\ Phase(now, box, FALSE, "none")
           /\ ~(by # "none" /\ me.holding) => Phase(now, box, FALSE, by)
<1>1. /\ <<>> \in Stale /\ <<"broken">> \in Stale /\ <<"queueGranted", "broken">> \in Stale
  BY DEF Stale
<1>2. CASE Away(me, box, in, by)
  BY <1>2, Zenon DEF Away, Phase
<1>3. CASE Leads(me, box, in, by)
  BY <1>1, <1>3, Zenon DEF Leads, Retired, Phase
<1>4. CASE Waits(me, box, in, by)
  BY <1>1, <1>4, Zenon DEF Waits, Retired, Phase
<1>5. CASE Called(me, box, in, by)
  BY <1>1, <1>5, Zenon DEF Called, Retired, Phase
<1>6. CASE Takes(me, box, in, by)
  BY <1>6, Zenon DEF Takes, Retired, Phase
<1>7. CASE Retired(me, box, in, by)
  BY <1>7, Zenon DEF Retired, Phase
<1>8. ~New(me, box, in, by)
  BY DEF New
<1> QED
  BY <1>2, <1>3, <1>4, <1>5, <1>6, <1>7, <1>8 DEF Phase

-----------------------------------------------------------------------------
(* What the steps of the lock manager do for the request of tab `t`, whose  *)
(* inbox the step may have changed to in[t], and to the other tabs.         *)

LockTyped ==
    /\ holder \in [tab : Tabs, by : {"ask", "queue", "steal"}] \cup {Nothing}
    /\ waiting \in Seq(Tabs) /\ OneEach(waiting) /\ inbox \in [Tabs -> Seq(Event)]

OthersStand(t) == \A u \in Tabs \ {t} : Phase(tab[u], inbox'[u], InQueue(u)', By(u)')

Inboxes(t, in) == in \in [Tabs -> Seq(Event)] /\ \A u \in Tabs \ {t} : in[u] = inbox[u]

(* One tab at most holds the lock.                                          *)
LEMMA OneHolder ==
    ASSUME Lease, NEW t \in Tabs
    PROVE  /\ LockTyped /\ InQueue(t) \in BOOLEAN /\ By(t) \in {"none", "ask", "queue", "steal"}
           /\ By(t) # "none" <=> holder # Nothing /\ holder.tab = t
           /\ Phase(tab[t], inbox[t], InQueue(t), By(t))
           /\ \A u \in Tabs \ {t} : By(t) # "none" => By(u) = "none"
  BY DEF Lease, TypeOK, LockTyped, InQueue, By

(* The lock stays where it is.                                              *)
LEMMA LockKept ==
    ASSUME Lease, NEW t \in Tabs, Inboxes(t, inbox'), UNCHANGED <<holder, waiting>>
    PROVE  LockTyped' /\ OthersStand(t) /\ InQueue(t)' = InQueue(t) /\ By(t)' = By(t)
<1>1. \A u \in Tabs : InQueue(u)' = InQueue(u) /\ By(u)' = By(u)
  BY DEF InQueue, By
<1>2. LockTyped'
  BY OneHolder DEF LockTyped, Inboxes, OneEach
<1>3. OthersStand(t)
  BY <1>1, OneHolder DEF OthersStand, Inboxes
<1> QED
  BY <1>1, <1>2, <1>3

(* A tab that has no request queues, or is granted the lock.                *)
LEMMA LockQueues ==
    ASSUME Lease, NEW t \in Tabs, NEW in, Inboxes(t, in), in[t] = <<>>, ~InQueue(t), By(t) = "none",
           Queues(t, in)
    PROVE  /\ LockTyped' /\ OthersStand(t)
           /\ \/ inbox'[t] = <<>> /\ InQueue(t)' = TRUE /\ By(t)' = "none"
              \/ inbox'[t] = <<"queueGranted">> /\ InQueue(t)' = FALSE /\ By(t)' = "queue"
<1>0. LockTyped /\ InQueue(t) = FALSE /\ \A u \in Tabs : Phase(tab[u], inbox[u], InQueue(u), By(u))
  BY OneHolder
<1>1. CASE holder = Nothing
  <2>1. /\ holder' = [tab |-> t, by |-> "queue"] /\ waiting' = waiting
        /\ inbox' = [in EXCEPT ![t] = Append(@, "queueGranted")]
    BY <1>1 DEF Queues, Told
  <2>2. inbox' \in [Tabs -> Seq(Event)] /\ Inboxes(t, inbox')
    BY <2>1 DEF Inboxes, Event
  <2>3. inbox'[t] = <<"queueGranted">>
    BY <2>1 DEF Inboxes
  <2>4. \A u \in Tabs : InQueue(u)' = InQueue(u)
    BY <2>1 DEF InQueue
  <2>5. By(t)' = "queue" /\ \A u \in Tabs \ {t} : By(u)' = By(u)
    <3>1. holder' # Nothing /\ holder'.tab = t /\ holder'.by = "queue"
      BY <2>1, TabAssumption
    <3> QED
      BY <1>1, <3>1 DEF By
  <2>6. LockTyped'
    BY <1>0, <2>1, <2>2 DEF LockTyped, OneEach
  <2>7. OthersStand(t)
    BY <1>0, <2>2, <2>4, <2>5 DEF OthersStand, Inboxes
  <2> QED
    BY <1>0, <2>3, <2>4, <2>5, <2>6, <2>7
<1>2. CASE holder # Nothing
  <2>1. holder' = holder /\ waiting' = Append(waiting, t) /\ inbox' = in
    BY <1>2 DEF Queues
  <2>2. /\ waiting' \in Seq(Tabs) /\ OneEach(waiting')
        /\ \A u \in Tabs : InQueue(u)' <=> (u = t \/ InQueue(u))
    <3>1. waiting \in Seq(Tabs) /\ OneEach(waiting) /\ \A i \in DOMAIN waiting : waiting[i] # t
      BY <1>0 DEF LockTyped, InQueue
    <3>2. /\ waiting' \in Seq(Tabs) /\ OneEach(waiting')
          /\ \A u \in Tabs : (\E i \in DOMAIN waiting' : waiting'[i] = u)
                               <=> u = t \/ \E i \in DOMAIN waiting : waiting[i] = u
      BY <2>1, <3>1, QueueGrows, Zenon
    <3> QED
      BY <3>2 DEF InQueue
  <2>3. \A u \in Tabs : By(u)' = By(u)
    BY <2>1 DEF By
  <2>4. LockTyped'
    BY <1>0, <2>1, <2>2 DEF LockTyped, Inboxes
  <2>5. \A u \in Tabs \ {t} : InQueue(u)' = InQueue(u)
    BY <2>2 DEF InQueue
  <2>6. OthersStand(t)
    BY <1>0, <2>1, <2>3, <2>5 DEF OthersStand, Inboxes
  <2>7. InQueue(t)' = TRUE
    BY <2>2 DEF InQueue
  <2> QED
    BY <2>1, <2>3, <2>4, <2>6, <2>7
<1> QED
  BY <1>1, <1>2

(* The tab that has the lock lets it go: the next in the queue is called.   *)
LEMMA LockReleases ==
    ASSUME Lease, NEW t \in Tabs, NEW in, Inboxes(t, in), By(t) # "none", Releases(waiting, in)
    PROVE  /\ LockTyped' /\ OthersStand(t)
           /\ inbox'[t] = in[t] /\ InQueue(t)' = FALSE /\ By(t)' = "none"
<1>0. /\ LockTyped /\ \A u \in Tabs : Phase(tab[u], inbox[u], InQueue(u), By(u))
      /\ \A u \in Tabs \ {t} : By(u) = "none"
      /\ ~InQueue(t)
  BY OneHolder, PhaseBroken
<1>1. CASE waiting = <<>>
  <2>1. holder' = Nothing /\ waiting' = waiting /\ inbox' = in
    BY <1>1 DEF Releases
  <2>2. \A u \in Tabs : InQueue(u)' = InQueue(u) /\ By(u)' = "none"
    BY <2>1 DEF InQueue, By
  <2>3. LockTyped'
    BY <1>0, <2>1 DEF LockTyped, Inboxes, OneEach
  <2>4. OthersStand(t)
    BY <1>0, <2>1, <2>2 DEF OthersStand, Inboxes
  <2>5. InQueue(t) = FALSE
    BY <1>0 DEF InQueue
  <2> QED
    BY <2>1, <2>2, <2>3, <2>4, <2>5
<1>2. CASE waiting # <<>>
  <2>0. PICK next \in Tabs : next = Head(waiting)
    BY <1>0, <1>2, QueueMoves DEF LockTyped
  <2>1. /\ holder' = [tab |-> next, by |-> "queue"] /\ waiting' = Tail(waiting)
        /\ inbox' = [in EXCEPT ![next] = Append(@, "queueGranted")]
    BY <1>2, <2>0 DEF Releases, Told
  <2>2. /\ next \in Tabs /\ waiting' \in Seq(Tabs) /\ OneEach(waiting')
        /\ InQueue(next)
        /\ \A u \in Tabs : InQueue(u)' <=> (u # next /\ InQueue(u))
    BY <1>0, <1>2, <2>0, <2>1, QueueMoves DEF InQueue, LockTyped
  <2>3. next # t
    BY <1>0, <2>2
  <2>4. By(next)' = "queue" /\ \A u \in Tabs \ {next} : By(u)' = "none"
    <3>1. holder' # Nothing /\ holder'.tab = next /\ holder'.by = "queue"
      BY <2>1, <2>2, TabAssumption
    <3> QED
      BY <3>1 DEF By
  <2>5. /\ inbox' \in [Tabs -> Seq(Event)] /\ inbox'[next] = Append(inbox[next], "queueGranted")
        /\ \A u \in Tabs \ {next} : inbox'[u] = in[u]
    BY <2>1, <2>2, <2>3 DEF Inboxes, Event
  <2>6. LockTyped'
    BY <2>1, <2>2, <2>5 DEF LockTyped
  <2>7. InQueue(next)' = FALSE /\ \A u \in Tabs \ {next} : InQueue(u)' = InQueue(u)
    <3>1. InQueue(next)' = FALSE
      BY <2>2 DEF InQueue
    <3>2. ASSUME NEW u \in Tabs, u # next PROVE InQueue(u)' = InQueue(u)
      BY <2>2, <3>2 DEF InQueue
    <3> QED
      BY <3>1, <3>2
  <2>8. Phase(tab[next], inbox'[next], InQueue(next)', By(next)')
    <3>0. InQueue(next) = TRUE
      BY <2>2 DEF InQueue
    <3>1. Phase(tab[next], inbox[next], TRUE, By(next))
      BY <1>0, <2>2, <3>0
    <3>2. Phase(tab[next], Append(inbox[next], "queueGranted"), FALSE, "queue")
      BY <3>1, PhaseCalled
    <3> QED
      BY <2>4, <2>5, <2>7, <3>2
  <2>9. OthersStand(t)
    <3>1. SUFFICES ASSUME NEW u \in Tabs \ {t}
                   PROVE  Phase(tab[u], inbox'[u], InQueue(u)', By(u)')
      BY DEF OthersStand
    <3>2. CASE u = next
      BY <2>8, <3>2
    <3>3. CASE u # next
      <4>1. inbox'[u] = inbox[u] /\ InQueue(u)' = InQueue(u) /\ By(u)' = By(u)
        BY <1>0, <2>4, <2>5, <2>7, <3>3 DEF Inboxes
      <4> QED
        BY <1>0, <4>1
    <3> QED
      BY <3>2, <3>3
  <2>10. InQueue(t)' = FALSE
    BY <1>0, <2>3, <2>7 DEF InQueue
  <2> QED
    BY <2>3, <2>4, <2>5, <2>6, <2>9, <2>10
<1> QED
  BY <1>1, <1>2

(* A request is aborted.                                                    *)
LEMMA LockAborts ==
    ASSUME Lease, NEW t \in Tabs, Inboxes(t, inbox'), waiting' = Without(t), holder' = holder
    PROVE  LockTyped' /\ OthersStand(t) /\ InQueue(t)' = FALSE /\ By(t)' = By(t)
<1>0. LockTyped /\ \A u \in Tabs : Phase(tab[u], inbox[u], InQueue(u), By(u))
  BY OneHolder
<1>1. /\ waiting' \in Seq(Tabs) /\ OneEach(waiting')
      /\ \A u \in Tabs : InQueue(u)' <=> (u # t /\ InQueue(u))
  <2>1. waiting \in Seq(Tabs) /\ OneEach(waiting)
    BY <1>0 DEF LockTyped
  <2>2. /\ waiting' \in Seq(Tabs) /\ OneEach(waiting')
        /\ \A u \in Tabs : (\E i \in DOMAIN waiting' : waiting'[i] = u) <=> u # t /\ InQueue(u)
    BY <2>1, QueueWithout, Zenon
  <2> QED
    BY <2>2 DEF InQueue
<1>2. InQueue(t)' = FALSE /\ \A u \in Tabs \ {t} : InQueue(u)' = InQueue(u)
  BY <1>1 DEF InQueue
<1>3. \A u \in Tabs : By(u)' = By(u)
  BY DEF By
<1>4. LockTyped'
  BY <1>0, <1>1 DEF LockTyped, Inboxes
<1>5. OthersStand(t)
  BY <1>0, <1>2, <1>3 DEF OthersStand, Inboxes
<1> QED
  BY <1>2, <1>3, <1>4, <1>5

(* The lock is stolen from the tab that holds it, if there is one.          *)
LEMMA LockStolen ==
    ASSUME Lease, NEW t \in Tabs, waiting' = Without(t), holder' = [tab |-> t, by |-> "steal"],
           inbox' = LET in == IF holder = Nothing \/ holder.tab = t THEN inbox
                              ELSE Told(inbox, holder.tab, "broken")
                    IN Told(in, t, "stealGranted")
    PROVE  /\ LockTyped' /\ OthersStand(t)
           /\ inbox'[t] = Append(inbox[t], "stealGranted") /\ InQueue(t)' = FALSE /\ By(t)' = "steal"
<1>0. LockTyped /\ \A u \in Tabs : Phase(tab[u], inbox[u], InQueue(u), By(u)) /\ InQueue(u) \in BOOLEAN
  BY OneHolder
<1>1. /\ waiting' \in Seq(Tabs) /\ OneEach(waiting')
      /\ \A u \in Tabs : InQueue(u)' <=> (u # t /\ InQueue(u))
  <2>1. waiting \in Seq(Tabs) /\ OneEach(waiting)
    BY <1>0 DEF LockTyped
  <2>2. /\ waiting' \in Seq(Tabs) /\ OneEach(waiting')
        /\ \A u \in Tabs : (\E i \in DOMAIN waiting' : waiting'[i] = u) <=> u # t /\ InQueue(u)
    BY <2>1, QueueWithout, Zenon
  <2> QED
    BY <2>2 DEF InQueue
<1>2. InQueue(t)' = FALSE /\ \A u \in Tabs \ {t} : InQueue(u)' = InQueue(u)
  BY <1>1 DEF InQueue
<1>3. By(t)' = "steal" /\ \A u \in Tabs \ {t} : By(u)' = "none"
  <2>1. holder' # Nothing /\ holder'.tab = t /\ holder'.by = "steal"
    BY TabAssumption
  <2> QED
    BY <2>1 DEF By
<1>4. /\ inbox' \in [Tabs -> Seq(Event)] /\ inbox'[t] = Append(inbox[t], "stealGranted")
      /\ \A u \in Tabs \ {t} :
            inbox'[u] = IF By(u) # "none" THEN Append(inbox[u], "broken") ELSE inbox[u]
  <2>1. CASE holder = Nothing \/ holder.tab = t
    <3>1. inbox' = [inbox EXCEPT ![t] = Append(@, "stealGranted")]
      BY <2>1 DEF Told
    <3>2. \A u \in Tabs \ {t} : By(u) = "none"
      BY <2>1 DEF By
    <3>3. Append(inbox[t], "stealGranted") \in Seq(Event)
      BY <1>0, AppendProperties DEF LockTyped, Event
    <3> QED
      BY <1>0, <3>1, <3>2, <3>3 DEF LockTyped
  <2>2. CASE holder # Nothing /\ holder.tab # t
    <3> DEFINE in == [inbox EXCEPT ![holder.tab] = Append(@, "broken")]
    <3>1. inbox' = [in EXCEPT ![t] = Append(@, "stealGranted")]
      BY <2>2 DEF Told
    <3>2. holder.tab \in Tabs /\ holder.by # "none"
      BY <1>0, <2>2 DEF LockTyped
    <3>3. /\ in \in [Tabs -> Seq(Event)] /\ in[t] = inbox[t]
          /\ in[holder.tab] = Append(inbox[holder.tab], "broken")
          /\ \A u \in Tabs : u # holder.tab => in[u] = inbox[u]
      BY <1>0, <2>2, <3>2 DEF LockTyped, Event
    <3> HIDE DEF in
    <3>4. /\ inbox' \in [Tabs -> Seq(Event)] /\ inbox'[t] = Append(inbox[t], "stealGranted")
          /\ \A u \in Tabs \ {t} : inbox'[u] = in[u]
      <4>1. Append(in[t], "stealGranted") \in Seq(Event)
        BY <3>3, AppendProperties DEF Event
      <4> QED
        BY <3>1, <3>3, <4>1
    <3>5. By(holder.tab) # "none" /\ \A u \in Tabs : u # holder.tab => By(u) = "none"
      BY <2>2, <3>2 DEF By
    <3> QED
      BY <2>2, <3>2, <3>3, <3>4, <3>5
  <2> QED
    BY <2>1, <2>2
<1>5. LockTyped'
  BY <1>1, <1>4 DEF LockTyped
<1>6. OthersStand(t)
  <2>1. SUFFICES ASSUME NEW u \in Tabs \ {t}
                 PROVE  Phase(tab[u], inbox'[u], InQueue(u), "none")
    BY <1>2, <1>3 DEF OthersStand
  <2>2. CASE By(u) # "none"
    BY <1>0, <1>4, <2>2, PhaseBroken
  <2>3. CASE By(u) = "none"
    BY <1>0, <1>4, <2>3
  <2> QED
    BY <2>2, <2>3
<1> QED
  BY <1>2, <1>3, <1>4, <1>5, <1>6

-----------------------------------------------------------------------------
(* Types.                                                                   *)

(* The channel carries the visibility of a tab.                             *)
LEMMA ChannelTyped ==
    ASSUME TypeOK, NEW t \in Tabs,
           (\E on \in BOOLEAN : Reports(t, on)) \/ Asks(t) \/ UNCHANGED channel
    PROVE  /\ heard' \in [Tabs -> {Nothing, "visible", "hidden"}]
           /\ said' \in [Tabs -> {Nothing, "visible", "hidden"}]
<1>0. /\ heard \in [Tabs -> {Nothing, "visible", "hidden"}]
      /\ said \in [Tabs -> {Nothing, "visible", "hidden"}]
  BY DEF TypeOK
<1>1. ASSUME NEW on \in BOOLEAN, Reports(t, on)
      PROVE  /\ heard' \in [Tabs -> {Nothing, "visible", "hidden"}]
             /\ said' \in [Tabs -> {Nothing, "visible", "hidden"}]
  BY <1>0, <1>1 DEF Reports
<1>2. CASE UNCHANGED channel
  BY <1>0, <1>2 DEF channel
<1>3. ASSUME NEW last \in Answers(t),
             heard' = [u \in Tabs |-> IF u # last /\ Opens(u) THEN said[last] ELSE heard[u]],
             UNCHANGED said
      PROVE  /\ heard' \in [Tabs -> {Nothing, "visible", "hidden"}]
             /\ said' \in [Tabs -> {Nothing, "visible", "hidden"}]
  BY <1>0, <1>3 DEF Answers
<1>4. CASE Asks(t)
  BY <1>2, <1>3, <1>4 DEF Asks
<1> QED
  BY <1>1, <1>2, <1>4

(* What a step has to keep for the types to hold.                           *)
LEMMA TypeStep ==
    ASSUME TypeOK, Writers', LockTyped', plan' = plan, visible' \subseteq Tabs,
           heard' \in [Tabs -> {Nothing, "visible", "hidden"}],
           said' \in [Tabs -> {Nothing, "visible", "hidden"}],
           claim' \in [tab : Tabs, handle : Handles] \cup {Nothing}
    PROVE  TypeOK'
  BY DEF TypeOK, LockTyped, Writers

(* Every step keeps the plan, the channel and the claim as they should be.  *)
LEMMA WorldTyped ==
    ASSUME TypeOK, [Next]_vars
    PROVE  /\ plan' = plan /\ visible' \subseteq Tabs
           /\ heard' \in [Tabs -> {Nothing, "visible", "hidden"}]
           /\ said' \in [Tabs -> {Nothing, "visible", "hidden"}]
           /\ claim' \in [tab : Tabs, handle : Handles] \cup {Nothing}
<1>0. visible \subseteq Tabs /\ claim \in [tab : Tabs, handle : Handles] \cup {Nothing}
  BY DEF TypeOK
<1> DEFINE Goal == /\ plan' = plan /\ visible' \subseteq Tabs
                   /\ heard' \in [Tabs -> {Nothing, "visible", "hidden"}]
                   /\ said' \in [Tabs -> {Nothing, "visible", "hidden"}]
                   /\ claim' \in [tab : Tabs, handle : Handles] \cup {Nothing}
<1>1. ASSUME NEW t \in Tabs, plan' = plan, visible' \subseteq Tabs, claim' = claim,
             (\E on \in BOOLEAN : Reports(t, on)) \/ Asks(t) \/ UNCHANGED channel
      PROVE  Goal
  BY <1>0, <1>1, ChannelTyped
<1>2. CASE UNCHANGED vars
  BY <1>2 DEF vars, screen, channel, store, TypeOK
<1>3. ASSUME NEW t \in Tabs, Open(t) \/ Handling(t) \/ Steal(t) \/ Demote(t)
      PROVE  Goal
  <2>1. Granted(t) => Goal
    <3>1. (t \in visible) \in BOOLEAN
      OBVIOUS
    <3> QED
      BY <1>0, <1>1, <3>1 DEF Granted, store
  <2>2. ~Granted(t) => plan' = plan /\ UNCHANGED screen /\ UNCHANGED store
    BY <1>3 DEF Open, Handling, Denied, QueueGranted, QueueGrantedLate, StealGranted, StealGrantedLate,
                TenureEnded, TenureEndedLate, Steal, Demote
  <2> QED
    BY <1>0, <1>1, <2>1, <2>2 DEF screen, store
<1>4. ASSUME NEW t \in Tabs, SeatOpened(t) \/ Indexing(t)
      PROVE  Goal
  <2>1. (t \in visible) \in BOOLEAN
    OBVIOUS
  <2>2. CASE SeatOpened(t)
    BY <1>0, <1>1, <2>2 DEF SeatOpened, store
  <2>3. CASE Load(t) \/ WriteRefused(t)
    BY <1>0, <1>1, <2>3 DEF Load, WriteRefused, store, screen
  <2>4. CASE Write(t)
    <3>1. plan' = plan /\ visible' = visible /\ claim' = claim
      BY <2>4 DEF Write
    <3>2. Reports(t, t \in visible) \/ UNCHANGED channel
      BY <2>4 DEF Write
    <3> QED
      BY <1>0, <1>1, <2>1, <3>1, <3>2
  <2> QED
    BY <1>4, <2>2, <2>3, <2>4 DEF Indexing
<1>5. ASSUME NEW t \in Tabs, NEW s \in tab[t].starts,
             Seated(t, s) \/ SeatedLate(t, s) \/ Claim(t, s) \/ Opened(t, s) \/ StartFails(t, s)
      PROVE  Goal
  <2>1. (t \in visible) \in BOOLEAN
    OBVIOUS
  <2>2. CASE Seated(t, s)
    BY <1>0, <1>1, <2>1, <2>2 DEF Seated, store
  <2>3. CASE SeatedLate(t, s) \/ Opened(t, s) \/ StartFails(t, s)
    BY <1>0, <1>1, <2>3 DEF SeatedLate, Opened, StartFails, screen, store
  <2>4. CASE Claim(t, s)
    <3>1. s.handle \in Handles
      BY DEF TypeOK, Tab, Start
    <3>2. claim' \in [tab : Tabs, handle : Handles]
      BY <2>4, <3>1 DEF Claim
    <3>3. plan' = plan /\ visible' = visible /\ heard' = heard /\ said' = said
      BY <2>4 DEF Claim, screen, channel
    <3> QED
      BY <3>2, <3>3 DEF TypeOK
  <2> QED
    BY <1>5, <2>2, <2>3, <2>4
<1>6. ASSUME NEW t \in Tabs, Close(t) \/ Flip(t)
      PROVE  Goal
  <2>1. CASE Close(t)
    BY <2>1 DEF Close, store, TypeOK
  <2>2. CASE Flip(t)
    <3>1. plan' = plan /\ visible' \subseteq Tabs /\ claim' = claim
      BY <1>0, <2>2 DEF Flip, store
    <3>2. Reports(t, t \notin visible) \/ UNCHANGED channel
      BY <2>2 DEF Flip
    <3>3. (t \notin visible) \in BOOLEAN
      OBVIOUS
    <3> QED
      BY <1>1, <3>1, <3>2, <3>3
  <2> QED
    BY <1>6, <2>1, <2>2
<1> QED
  BY <1>2, <1>3, <1>4, <1>5, <1>6 DEF Next, Starting

-----------------------------------------------------------------------------
(* The lock and the tabs agree.                                             *)

(* The step of one tab keeps the phases when its own is a phase again.      *)
LEMMA LeaseStep ==
    ASSUME Lease, Writers', [Next]_vars, LockTyped', NEW t \in Tabs, NEW now, OthersStand(t),
           tab' = [tab EXCEPT ![t] = now],
           Phase(now, inbox'[t], InQueue(t)', By(t)')
    PROVE  Lease'
<1>1. tab'[t] = now /\ \A u \in Tabs \ {t} : tab'[u] = tab[u]
  BY DEF Lease, TypeOK
<1>2. \A u \in Tabs : Phase(tab'[u], inbox'[u], InQueue(u)', By(u)')
  BY <1>1 DEF OthersStand
<1>3. TypeOK'
  BY WorldTyped, TypeStep DEF Lease
<1> QED
  BY <1>2, <1>3 DEF Lease, LockTyped

(* A step of a tab that leaves the lock and its candidacy alone.            *)
LEMMA SeatStep ==
    ASSUME Lease, Writers', [Next]_vars, NEW t \in Tabs, NEW now,
           tab' = [tab EXCEPT ![t] = now], UNCHANGED lock,
           tab[t] # Blank("open"), SameStand(tab[t], now)
    PROVE  Lease'
<1>1. Inboxes(t, inbox') /\ inbox' = inbox /\ UNCHANGED <<holder, waiting>>
  BY DEF lock, Inboxes, Lease, TypeOK
<1>2. LockTyped' /\ OthersStand(t) /\ InQueue(t)' = InQueue(t) /\ By(t)' = By(t)
  BY <1>1, LockKept
<1>3. Phase(now, inbox'[t], InQueue(t)', By(t)')
  BY <1>1, <1>2, OneHolder, PhaseKept
<1> QED
  BY <1>2, <1>3, LeaseStep

(* A fresh start leaves the candidacy alone.                                *)
LEMMA BeginsStand ==
    ASSUME NEW me \in Tab, NEW pc, NEW first
    PROVE  SameStand(me, Begins(me, pc, first))
  BY DEF SameStand, Begins, Tab

(* So does the end of a start, and its progress.                            *)
LEMMA MovedStand ==
    ASSUME NEW me \in Tab, NEW s, NEW pc
    PROVE  SameStand(me, Moved(me, s, pc)) /\ SameStand(me, Ended(me, s))
  BY DEF SameStand, Moved, Ended, Tab

(* So does stepping down: the caller says what becomes of the candidacy.    *)
LEMMA StepDownStand ==
    ASSUME NEW me \in Tab
    PROVE  SameStand(me, stepDown(me))
<1> DEFINE down == [me EXCEPT !.role = "reader", !.starts = Outdated(@), !.seating = TRUE]
           gone == [down EXCEPT !.demoted = TRUE]
<1>1. SameStand(me, down) /\ SameStand(me, letGoOfTheWriter(gone))
  BY DEF SameStand, Tab, letGoOfTheWriter
<1> QED
  BY <1>1 DEF stepDown

(* A fresh start, and the loop.                                             *)
LEMMA LeaseWorks ==
    ASSUME Lease, Writers', [Next]_vars, NEW t \in Tabs,
           SeatOpened(t) \/ Starting(t) \/ (\E s \in tab[t].starts : StartFails(t, s)) \/ Indexing(t)
    PROVE  Lease'
<1> DEFINE me == tab[t]
<1>0. me \in Tab
  BY DEF Lease, TypeOK
<1>1. Blank("open").starts = {} /\ Blank("open").indexer = Nothing /\ ~Blank("open").seating
  BY DEF Blank
<1>2. CASE SeatOpened(t)
  <2> DEFINE now == [me EXCEPT !.seating = FALSE, !.reading = TRUE, !.role = "reader"]
  <2>1. SameStand(me, now)
    BY <1>0 DEF SameStand, Tab
  <2>2. tab' = [tab EXCEPT ![t] = now] /\ UNCHANGED lock /\ me # Blank("open")
    BY <1>1, <1>2 DEF SeatOpened, Becomes
  <2> HIDE DEF now
  <2> QED
    BY <2>1, <2>2, SeatStep
<1>3. ASSUME NEW s \in me.starts,
             Seated(t, s) \/ SeatedLate(t, s) \/ Claim(t, s) \/ Opened(t, s) \/ StartFails(t, s)
      PROVE  Lease'
  <2>0. me # Blank("open")
    BY <1>1
  <2>1. CASE Seated(t, s)
    <3> DEFINE moved == Moved(me, s, "claim")
               now == [moved EXCEPT !.demoted = FALSE, !.role = "writer"]
    <3>1. SameStand(me, now)
      BY <1>0 DEF SameStand, Moved, Tab
    <3>2. tab' = [tab EXCEPT ![t] = now] /\ UNCHANGED lock
      BY <2>1 DEF Seated, Becomes
    <3> HIDE DEF now
    <3> QED
      BY <2>0, <3>1, <3>2, SeatStep
  <2>2. CASE SeatedLate(t, s) \/ StartFails(t, s)
    <3>1. tab' = [tab EXCEPT ![t] = Ended(me, s)] /\ UNCHANGED lock
      BY <2>2 DEF SeatedLate, StartFails, Becomes
    <3> QED
      BY <1>0, <2>0, <3>1, MovedStand, SeatStep
  <2>3. CASE Claim(t, s)
    <3>1. tab' = [tab EXCEPT ![t] = Moved(me, s, "open")] /\ UNCHANGED lock
      BY <2>3 DEF Claim, Becomes
    <3> QED
      BY <1>0, <2>0, <3>1, MovedStand, SeatStep
  <2>4. CASE Opened(t, s)
    <3> DEFINE writer == openContainer(me, s)
               now == IF s.first THEN [writer EXCEPT !.indexing = ~me.demoted]
                      ELSE IF ~s.current THEN letGoOfTheWriter(writer)
                      ELSE [writer EXCEPT !.indexing = ~me.demoted, !.reading = FALSE]
    <3>1. SameStand(me, writer)
      BY <1>0 DEF SameStand, openContainer, Ended, Tab
    <3>2. /\ SameStand(writer, [writer EXCEPT !.indexing = ~me.demoted])
          /\ SameStand(writer, letGoOfTheWriter(writer))
          /\ SameStand(writer, [writer EXCEPT !.indexing = ~me.demoted, !.reading = FALSE])
      BY <1>0 DEF SameStand, openContainer, Ended, Tab, letGoOfTheWriter
    <3>3. tab' = [tab EXCEPT ![t] = now] /\ UNCHANGED lock
      BY <2>4 DEF Opened, Becomes
    <3> HIDE DEF writer
    <3>4. SameStand(writer, now)
      BY <3>2
    <3> HIDE DEF now
    <3>5. SameStand(me, now)
      BY <3>1, <3>4 DEF SameStand
    <3> QED
      BY <2>0, <3>3, <3>5, SeatStep
  <2> QED
    BY <1>3, <2>1, <2>2, <2>3, <2>4
<1>4. CASE Indexing(t)
  <2>1. me.indexer # Nothing /\ me # Blank("open")
    BY <1>1, <1>4 DEF Indexing, Load, Write, WriteRefused, Loops
  <2>2. CASE WriteRefused(t)
    <3> DEFINE now == [me EXCEPT !.refusal = TRUE]
    <3>1. SameStand(me, now)
      BY <1>0 DEF SameStand, Tab
    <3>2. tab' = [tab EXCEPT ![t] = now] /\ UNCHANGED lock
      BY <2>2 DEF WriteRefused, Becomes
    <3> HIDE DEF now
    <3> QED
      BY <2>1, <3>1, <3>2, SeatStep
  <2>3. ASSUME NEW c, tab' = [tab EXCEPT ![t] = [me EXCEPT !.indexer.cursor = c]], UNCHANGED lock
        PROVE  Lease'
    <3> DEFINE now == [me EXCEPT !.indexer.cursor = c]
    <3>1. SameStand(me, now)
      BY <1>0 DEF SameStand, Tab
    <3>2. tab' = [tab EXCEPT ![t] = now]
      BY <2>3
    <3> HIDE DEF now
    <3> QED
      BY <2>1, <2>3, <3>1, <3>2, SeatStep
  <2>4. CASE Load(t)
    BY <2>3, <2>4 DEF Load, Becomes
  <2>5. CASE Write(t)
    BY <2>3, <2>5 DEF Write, Becomes
  <2> QED
    BY <1>4, <2>2, <2>4, <2>5 DEF Indexing
<1> QED
  BY <1>2, <1>3, <1>4 DEF Starting

(* A tab stands, and hears from the lock manager.                           *)
LEMMA LeaseHandles ==
    ASSUME Lease, Writers', [Next]_vars, NEW t \in Tabs, Open(t) \/ Handling(t)
    PROVE  Lease'
<1> DEFINE me == tab[t]
           box == inbox[t]
<1>0. /\ me \in Tab /\ Phase(me, box, InQueue(t), By(t)) /\ InQueue(t) \in BOOLEAN
      /\ inbox \in [Tabs -> Seq(Event)]
  BY OneHolder DEF Lease, TypeOK, LockTyped
<1>1. ASSUME box # <<>>
      PROVE  Inboxes(t, Handled(t)) /\ Handled(t)[t] = Tail(box)
  <2>1. Tail(box) \in Seq(Event)
    BY <1>0, <1>1
  <2> QED
    BY <1>0, <2>1 DEF Inboxes, Handled
<1>2. ASSUME NEW now, tab' = [tab EXCEPT ![t] = now], box # <<>>, inbox' = Handled(t),
             UNCHANGED <<holder, waiting>>, Phase(now, Tail(box), InQueue(t), By(t))
      PROVE  Lease'
  <2>1. LockTyped' /\ OthersStand(t) /\ InQueue(t)' = InQueue(t) /\ By(t)' = By(t)
    BY <1>1, <1>2, LockKept
  <2>2. inbox'[t] = Tail(box)
    BY <1>1, <1>2
  <2> QED
    BY <1>2, <2>1, <2>2, LeaseStep
<1>3. ASSUME NEW now, tab' = [tab EXCEPT ![t] = now], box # <<>>, Queues(t, Handled(t)),
             ~InQueue(t), By(t) = "none", Tail(box) = <<>>,
             Phase(now, <<>>, TRUE, "none"), Phase(now, <<"queueGranted">>, FALSE, "queue")
      PROVE  Lease'
  <2>1. /\ LockTyped' /\ OthersStand(t)
        /\ \/ inbox'[t] = <<>> /\ InQueue(t)' = TRUE /\ By(t)' = "none"
           \/ inbox'[t] = <<"queueGranted">> /\ InQueue(t)' = FALSE /\ By(t)' = "queue"
    BY <1>1, <1>3, LockQueues
  <2>2. Phase(now, inbox'[t], InQueue(t)', By(t)')
    BY <1>3, <2>1
  <2> QED
    BY <1>3, <2>1, <2>2, LeaseStep
<1>4. ASSUME NEW now, NEW by \in {"queue", "steal"},
             tab' = [tab EXCEPT ![t] = now], box # <<>>, GivesBack(t, by, Handled(t)), ~InQueue(t),
             By(t) # by => Phase(now, Tail(box), InQueue(t), By(t)),
             By(t) = by => Phase(now, Tail(box), InQueue(t), "none")
      PROVE  Lease'
  <2>1. CASE By(t) = by
    <3>1. holder = [tab |-> t, by |-> by]
      BY <2>1 DEF By, Lease, TypeOK
    <3>2. Releases(waiting, Handled(t))
      BY <1>4, <3>1 DEF GivesBack
    <3>3. /\ LockTyped' /\ OthersStand(t)
          /\ inbox'[t] = Tail(box) /\ InQueue(t)' = FALSE /\ By(t)' = "none"
      BY <1>1, <1>4, <2>1, <3>2, LockReleases
    <3>4. InQueue(t) = FALSE
      BY <1>4 DEF InQueue
    <3> QED
      BY <1>4, <2>1, <3>3, <3>4, LeaseStep
  <2>2. CASE By(t) # by
    <3>1. holder # [tab |-> t, by |-> by]
      BY <2>2, TabAssumption DEF By
    <3>2. inbox' = Handled(t) /\ UNCHANGED <<holder, waiting>>
      BY <1>4, <3>1 DEF GivesBack
    <3> QED
      BY <1>2, <1>4, <2>2, <3>2
  <2> QED
    BY <2>1, <2>2
<1>5. CASE Open(t)
  <2>1. me.life = "unopened"
    BY <1>5 DEF Open
  <2>2. box = <<>> /\ InQueue(t) = FALSE /\ By(t) = "none"
    BY <1>0, <2>1, PhaseAway
  <2>3. /\ tab' = [tab EXCEPT ![t] = Blank("open")] /\ waiting' = waiting
        /\ holder' = IF holder = Nothing THEN [tab |-> t, by |-> "ask"] ELSE holder
        /\ inbox' = [inbox EXCEPT ![t] = Append(@, IF holder = Nothing THEN "granted" ELSE "denied")]
    BY <1>5 DEF Open, Becomes, Told
  <2>4. /\ inbox' \in [Tabs -> Seq(Event)]
        /\ inbox'[t] = IF holder = Nothing THEN <<"granted">> ELSE <<"denied">>
        /\ \A u \in Tabs \ {t} : inbox'[u] = inbox[u]
    BY <1>0, <2>2, <2>3 DEF Event
  <2>5. \A u \in Tabs : InQueue(u)' = InQueue(u)
    BY <2>3 DEF InQueue
  <2>6. /\ By(t)' = IF holder = Nothing THEN "ask" ELSE "none"
        /\ \A u \in Tabs \ {t} : By(u)' = By(u)
    <3>1. CASE holder = Nothing
      <4>1. holder' # Nothing /\ holder'.tab = t /\ holder'.by = "ask"
        BY <2>3, <3>1, TabAssumption
      <4> QED
        BY <3>1, <4>1 DEF By
    <3>2. CASE holder # Nothing
      BY <2>2, <2>3, <3>2 DEF By
    <3> QED
      BY <3>1, <3>2
  <2>7. LockTyped'
    BY <2>3, <2>4, OneHolder DEF LockTyped, OneEach
  <2>8. OthersStand(t)
    BY <2>4, <2>5, <2>6, OneHolder DEF OthersStand
  <2>9. Phase(Blank("open"), inbox'[t], InQueue(t)', By(t)')
    <3>1. InQueue(t)' = FALSE
      BY <2>2, <2>5
    <3>2. CASE holder = Nothing
      BY <2>4, <2>6, <3>1, <3>2, Zenon DEF Phase, New
    <3>3. CASE holder # Nothing
      BY <2>4, <2>6, <3>1, <3>3, Zenon DEF Phase, New
    <3> QED
      BY <3>2, <3>3
  <2> QED
    BY <2>3, <2>7, <2>8, <2>9, LeaseStep
<1>6. CASE Granted(t)
  <2> DEFINE it == [me EXCEPT !.holding = TRUE, !.role = "writer"]
             now == Begins(it, "claim", TRUE)
  <2>1. /\ box # <<>> /\ Head(box) = "granted" /\ tab' = [tab EXCEPT ![t] = now]
        /\ inbox' = Handled(t) /\ UNCHANGED <<holder, waiting>>
    BY <1>6 DEF Granted, Hears, Becomes
  <2>2. me = Blank("open")
    BY <1>0, <2>1, NextEvent DEF Phase, New
  <2>3. it \in Tab /\ it.life = "open" /\ it.holding /\ ~it.resigned /\ ~it.queued /\ ~it.stealing
    <3>1. me.life = "open" /\ ~me.resigned /\ ~me.queued /\ ~me.stealing
      BY <2>2 DEF Blank
    <3> QED
      BY <1>0, <3>1 DEF Tab
  <2> HIDE DEF it
  <2>4. now.life = "open" /\ now.holding /\ ~now.resigned /\ ~now.queued /\ ~now.stealing
    <3>1. SameStand(it, now)
      BY <2>3, BeginsStand
    <3> HIDE DEF now
    <3> QED
      BY <2>3, <3>1 DEF SameStand
  <2> HIDE DEF now
  <2>5. Phase(now, Tail(box), InQueue(t), By(t))
    BY <1>0, <2>1, <2>4, PhaseGranted
  <2> QED
    BY <1>2, <2>1, <2>5
<1>7. CASE Denied(t)
  <2> DEFINE now == [me EXCEPT !.seating = TRUE, !.queued = TRUE]
  <2>1. /\ box # <<>> /\ Head(box) = "denied" /\ tab' = [tab EXCEPT ![t] = now]
        /\ Queues(t, Handled(t))
    BY <1>7 DEF Denied, Hears, Becomes
  <2>2. me = Blank("open")
    BY <1>0, <2>1, NextEvent DEF Phase, New
  <2>3. now.life = "open" /\ ~now.holding /\ ~now.resigned /\ now.queued /\ ~now.stealing
    BY <1>0, <2>2 DEF Tab, Blank
  <2> HIDE DEF now
  <2>4. ~InQueue(t) /\ By(t) = "none" /\ Tail(box) = <<>>
    BY <1>0, <2>1, PhaseDenied
  <2>5. Phase(now, <<>>, TRUE, "none") /\ Phase(now, <<"queueGranted">>, FALSE, "queue")
    BY <2>3, PhaseQueues
  <2> QED
    BY <1>3, <2>1, <2>4, <2>5
<1>8. CASE QueueGranted(t)
  <2> DEFINE it == [me EXCEPT !.queued = FALSE, !.holding = TRUE]
             now == Begins(it, "seat", FALSE)
  <2>1. /\ box # <<>> /\ Head(box) = "queueGranted" /\ ~me.resigned /\ me.queued
        /\ tab' = [tab EXCEPT ![t] = now]
        /\ inbox' = Handled(t) /\ UNCHANGED <<holder, waiting>>
    BY <1>8 DEF QueueGranted, Hears, Becomes
  <2>2. it \in Tab /\ it.life = me.life /\ it.holding /\ ~it.resigned /\ ~it.queued /\ it.stealing = me.stealing
    BY <1>0, <2>1 DEF Tab
  <2> HIDE DEF it
  <2>3. now.life = me.life /\ now.holding /\ ~now.resigned /\ ~now.queued /\ now.stealing = me.stealing
    <3>1. SameStand(it, now)
      BY <2>2, BeginsStand
    <3> HIDE DEF now
    <3> QED
      BY <2>2, <3>1 DEF SameStand
  <2> HIDE DEF now
  <2>4. Phase(now, Tail(box), InQueue(t), By(t))
    BY <1>0, <2>1, <2>3, PhaseQueueGranted
  <2> QED
    BY <1>2, <2>1, <2>4
<1>9. CASE QueueGrantedLate(t)
  <2>1. /\ box # <<>> /\ Head(box) = "queueGranted" /\ (me.resigned \/ ~me.queued)
        /\ tab' = tab /\ GivesBack(t, "queue", Handled(t))
    BY <1>9 DEF QueueGrantedLate, Hears
  <2>2. tab' = [tab EXCEPT ![t] = me]
    BY <2>1 DEF Lease, TypeOK
  <2>3. /\ ~InQueue(t)
        /\ By(t) # "queue" => Phase(me, Tail(box), InQueue(t), By(t))
        /\ By(t) = "queue" => Phase(me, Tail(box), InQueue(t), "none")
    BY <1>0, <2>1, PhaseQueueGrantedLate
  <2> QED
    BY <1>4, <2>1, <2>2, <2>3
<1>10. CASE StealGranted(t)
  <2> DEFINE it == [me EXCEPT !.stealing = FALSE, !.holding = TRUE]
             now == Begins(it, "seat", FALSE)
  <2>1. /\ box # <<>> /\ Head(box) = "stealGranted" /\ ~me.resigned
        /\ tab' = [tab EXCEPT ![t] = now]
        /\ inbox' = Handled(t) /\ UNCHANGED <<holder, waiting>>
    BY <1>10 DEF StealGranted, Hears, Becomes
  <2>2. it \in Tab /\ it.life = me.life /\ it.holding /\ ~it.resigned /\ it.queued = me.queued /\ ~it.stealing
    BY <1>0, <2>1 DEF Tab
  <2> HIDE DEF it
  <2>3. now.life = me.life /\ now.holding /\ ~now.resigned /\ now.queued = me.queued /\ ~now.stealing
    <3>1. SameStand(it, now)
      BY <2>2, BeginsStand
    <3> HIDE DEF now
    <3> QED
      BY <2>2, <3>1 DEF SameStand
  <2> HIDE DEF now
  <2>4. Phase(now, Tail(box), InQueue(t), By(t))
    BY <1>0, <2>1, <2>3, PhaseStealGranted
  <2> QED
    BY <1>2, <2>1, <2>4
<1>11. CASE StealGrantedLate(t)
  <2> DEFINE now == [me EXCEPT !.stealing = FALSE]
  <2>1. /\ box # <<>> /\ Head(box) = "stealGranted" /\ me.resigned
        /\ tab' = [tab EXCEPT ![t] = now] /\ GivesBack(t, "steal", Handled(t))
    BY <1>11 DEF StealGrantedLate, Hears, Becomes
  <2>2. now.life = me.life /\ now.resigned /\ now.holding = me.holding /\ now.queued = me.queued
    BY <1>0, <2>1 DEF Tab
  <2> HIDE DEF now
  <2>3. /\ ~InQueue(t)
        /\ By(t) # "steal" => Phase(now, Tail(box), InQueue(t), By(t))
        /\ By(t) = "steal" => Phase(now, Tail(box), InQueue(t), "none")
    BY <1>0, <2>1, <2>2, PhaseStealGrantedLate
  <2> QED
    BY <1>4, <2>1, <2>3
<1>12. CASE TenureEnded(t)
  <2> DEFINE it == [me EXCEPT !.holding = FALSE, !.queued = TRUE]
             now == stepDown(it)
  <2>1. /\ box # <<>> /\ Head(box) = "broken" /\ ~me.resigned /\ me.holding
        /\ tab' = [tab EXCEPT ![t] = now] /\ Queues(t, Handled(t))
    BY <1>12 DEF TenureEnded, Hears, Becomes
  <2>2. it \in Tab /\ it.life = me.life /\ ~it.holding /\ ~it.resigned /\ it.queued /\ it.stealing = me.stealing
    BY <1>0, <2>1 DEF Tab
  <2> HIDE DEF it
  <2>3. now.life = me.life /\ ~now.holding /\ ~now.resigned /\ now.queued /\ now.stealing = me.stealing
    BY <2>2, StepDownStand DEF SameStand
  <2> HIDE DEF now
  <2>4. me.life = "open" /\ ~me.stealing /\ ~InQueue(t) /\ By(t) = "none" /\ Tail(box) = <<>>
    BY <1>0, <2>1, PhaseTenureEnded
  <2>5. Phase(now, <<>>, TRUE, "none") /\ Phase(now, <<"queueGranted">>, FALSE, "queue")
    BY <2>3, <2>4, PhaseQueues
  <2> QED
    BY <1>3, <2>1, <2>4, <2>5
<1>13. CASE TenureEndedLate(t)
  <2>1. /\ box # <<>> /\ Head(box) = "broken" /\ (me.resigned \/ ~me.holding)
        /\ tab' = tab /\ inbox' = Handled(t) /\ UNCHANGED <<holder, waiting>>
    BY <1>13 DEF TenureEndedLate, Hears
  <2>2. tab' = [tab EXCEPT ![t] = me]
    BY <2>1 DEF Lease, TypeOK
  <2>3. Phase(me, Tail(box), InQueue(t), By(t))
    BY <1>0, <2>1, PhaseTenureEndedLate
  <2> QED
    BY <1>2, <2>1, <2>2, <2>3
<1> QED
  BY <1>5, <1>6, <1>7, <1>8, <1>9, <1>10, <1>11, <1>12, <1>13 DEF Handling

(* The lock is stolen, a tab resigns, a tab is closed.                      *)
LEMMA LeaseMoves ==
    ASSUME Lease, Writers', [Next]_vars, NEW t \in Tabs, Steal(t) \/ Demote(t) \/ Close(t) \/ Flip(t)
    PROVE  Lease'
<1> DEFINE me == tab[t]
           box == inbox[t]
<1>0. /\ me \in Tab /\ Phase(me, box, InQueue(t), By(t)) /\ InQueue(t) \in BOOLEAN
      /\ By(t) # "none" <=> holder # Nothing /\ holder.tab = t
      /\ waiting \in Seq(Tabs) /\ OneEach(waiting) /\ inbox \in [Tabs -> Seq(Event)]
  BY OneHolder DEF Lease, TypeOK, LockTyped
<1>1. ~InQueue(t) => Without(t) = waiting
  BY <1>0, QueueWithout
<1>2. By(t) # "none" => ~InQueue(t)
  BY <1>0, PhaseBroken
<1>3. CASE Steal(t)
  <2> DEFINE now == [me EXCEPT !.stealing = TRUE, !.queued = FALSE]
  <2>1. /\ me.life = "open" /\ me.reading /\ ~me.resigned /\ ~me.holding /\ ~me.stealing
        /\ tab' = [tab EXCEPT ![t] = now]
    BY <1>3 DEF Steal, TimerFires, eligible, Becomes
  <2>2. /\ LockTyped' /\ OthersStand(t)
        /\ inbox'[t] = Append(box, "stealGranted") /\ InQueue(t)' = FALSE /\ By(t)' = "steal"
    BY <1>3, LockStolen DEF Steal
  <2>3. now.life = me.life /\ ~now.resigned /\ ~now.holding /\ ~now.queued /\ now.stealing
    BY <1>0, <2>1 DEF Tab
  <2> HIDE DEF now
  <2>4. Phase(now, Append(box, "stealGranted"), FALSE, "steal")
    BY <1>0, <2>1, <2>3, PhaseSteal
  <2> QED
    BY <2>1, <2>2, <2>4, LeaseStep
<1>4. CASE Demote(t)
  <2> DEFINE told == [me EXCEPT !.refusal = FALSE]
             now == [told EXCEPT !.demoted = TRUE, !.indexing = FALSE, !.resigned = TRUE,
                                 !.queued = FALSE, !.holding = FALSE]
  <2>0. me # Blank("open")
    BY <1>4 DEF Demote, Blank
  <2>1. SameStand(me, told) /\ told.demoted = me.demoted /\ told.holding = me.holding
    BY <1>0 DEF SameStand, Tab
  <2>2. now.life = me.life /\ now.resigned /\ ~now.holding /\ ~now.queued
    BY <1>0 DEF Tab
  <2>3. CASE me.demoted
    <3>1. tab' = [tab EXCEPT ![t] = told] /\ UNCHANGED lock
      BY <1>4, <2>1, <2>3 DEF Demote, Becomes
    <3> HIDE DEF told
    <3> QED
      BY <2>0, <2>1, <3>1, SeatStep
  <2>4. CASE ~me.demoted
    <3>1. /\ tab' = [tab EXCEPT ![t] = now]
          /\ IF holder # Nothing /\ holder.tab = t /\ told.holding
             THEN Releases(Without(t), inbox)
             ELSE waiting' = Without(t) /\ UNCHANGED <<holder, inbox>>
      BY <1>4, <2>1, <2>4 DEF Demote, Becomes
    <3> HIDE DEF now, told
    <3>2. Inboxes(t, inbox)
      BY <1>0 DEF Inboxes
    <3>3. /\ By(t) # "none" /\ me.holding => Phase(now, box, FALSE, "none")
          /\ ~(By(t) # "none" /\ me.holding) => Phase(now, box, FALSE, By(t))
      BY <1>0, <2>0, <2>2, PhaseDemote
    <3>4. CASE By(t) # "none" /\ me.holding
      <4>1. Releases(waiting, inbox)
        BY <1>0, <1>1, <1>2, <2>1, <3>1, <3>4
      <4>2. /\ LockTyped' /\ OthersStand(t)
            /\ inbox'[t] = box /\ InQueue(t)' = FALSE /\ By(t)' = "none"
        BY <3>2, <3>4, <4>1, LockReleases
      <4> QED
        BY <3>1, <3>3, <3>4, <4>2, LeaseStep
    <3>5. CASE ~(By(t) # "none" /\ me.holding)
      <4>1. waiting' = Without(t) /\ holder' = holder /\ inbox' = inbox
        BY <1>0, <2>1, <3>1, <3>5
      <4>2. LockTyped' /\ OthersStand(t) /\ InQueue(t)' = FALSE /\ By(t)' = By(t)
        BY <3>2, <4>1, LockAborts
      <4> QED
        BY <3>1, <3>3, <3>5, <4>1, <4>2, LeaseStep
    <3> QED
      BY <3>4, <3>5
  <2> QED
    BY <2>3, <2>4
<1>5. CASE Close(t)
  <2> DEFINE in == [inbox EXCEPT ![t] = <<>>]
  <2>1. /\ tab' = [tab EXCEPT ![t] = Blank("closed")]
        /\ IF holder # Nothing /\ holder.tab = t
           THEN Releases(Without(t), in)
           ELSE waiting' = Without(t) /\ inbox' = in /\ UNCHANGED holder
    BY <1>5 DEF Close, Becomes
  <2>2. Inboxes(t, in) /\ in[t] = <<>>
    BY <1>0 DEF Inboxes
  <2> HIDE DEF in
  <2>3. Phase(Blank("closed"), <<>>, FALSE, "none")
    <3>1. Blank("closed").life = "closed" /\ ~Blank("closed").holding
      BY DEF Blank
    <3> QED
      BY <3>1 DEF Phase, Away
  <2>4. CASE By(t) # "none"
    <3>1. Releases(waiting, in)
      BY <1>0, <1>1, <1>2, <2>1, <2>4
    <3>2. /\ LockTyped' /\ OthersStand(t)
          /\ inbox'[t] = <<>> /\ InQueue(t)' = FALSE /\ By(t)' = "none"
      BY <2>2, <2>4, <3>1, LockReleases
    <3> QED
      BY <2>1, <2>3, <3>2, LeaseStep
  <2>5. CASE By(t) = "none"
    <3>1. waiting' = Without(t) /\ holder' = holder /\ inbox' = in
      BY <1>0, <2>1, <2>5
    <3>2. LockTyped' /\ OthersStand(t) /\ InQueue(t)' = FALSE /\ By(t)' = By(t)
      BY <2>2, <3>1, LockAborts
    <3> QED
      BY <2>1, <2>2, <2>3, <2>5, <3>1, <3>2, LeaseStep
  <2> QED
    BY <2>4, <2>5
<1>6. CASE Flip(t)
  <2>1. tab' = tab /\ UNCHANGED lock
    BY <1>6 DEF Flip
  <2>2. tab' = [tab EXCEPT ![t] = me]
    BY <2>1 DEF Lease, TypeOK
  <2>3. Inboxes(t, inbox') /\ inbox' = inbox /\ UNCHANGED <<holder, waiting>>
    BY <1>0, <2>1 DEF lock, Inboxes
  <2>4. LockTyped' /\ OthersStand(t) /\ InQueue(t)' = InQueue(t) /\ By(t)' = By(t)
    BY <2>3, LockKept
  <2> QED
    BY <1>0, <2>2, <2>3, <2>4, LeaseStep
<1> QED
  BY <1>3, <1>4, <1>5, <1>6

(* The lock and the tabs agree at first.                                    *)
LEMMA LeaseInit ==
    ASSUME Init
    PROVE  Lease
<1>1. Blank("unopened") \in Tab /\ Blank("unopened").life = "unopened" /\ ~Blank("unopened").holding
  BY DEF Blank, Tab
<1>2. TypeOK
  <2>1. plan \in Plans /\ plan.tabs \subseteq Tabs
    BY TabAssumption DEF Init
  <2> QED
    BY <1>1, <2>1, TabAssumption DEF Init, TypeOK
<1>3. \A t \in Tabs : inbox[t] = <<>> /\ InQueue(t) = FALSE /\ By(t) = "none"
        /\ tab[t].life = "unopened" /\ ~tab[t].holding
  BY <1>1 DEF Init, InQueue, By
<1>4. \A t \in Tabs : Phase(tab[t], inbox[t], InQueue(t), By(t))
  BY <1>3 DEF Phase, Away
<1> QED
  BY <1>2, <1>4 DEF Init, Lease, OneEach

(* Every step keeps the lock and the tabs in agreement.                     *)
LEMMA LeaseNext ==
    ASSUME Lease, Writers', [Next]_vars
    PROVE  Lease'
<1>1. CASE UNCHANGED vars
  BY <1>1 DEF vars, lock, screen, channel, store, Lease, TypeOK, OneEach, InQueue, By
<1>2. CASE \E t \in Tabs : Open(t) \/ Handling(t)
  BY <1>2, LeaseHandles
<1>3. CASE \E t \in Tabs :
            SeatOpened(t) \/ Starting(t) \/ (\E s \in tab[t].starts : StartFails(t, s)) \/ Indexing(t)
  BY <1>3, LeaseWorks
<1>4. CASE \E t \in Tabs : Steal(t) \/ Demote(t) \/ Close(t) \/ Flip(t)
  BY <1>4, LeaseMoves
<1> QED
  BY <1>1, <1>2, <1>3, <1>4 DEF Next

(* A grant, or a loss, that a tab does not know of is in its inbox.         *)
LEMMA Telling ==
    ASSUME NEW t \in Tabs
    PROVE  /\ inbox[t] = <<"granted">> => Tells(t, {"granted", "queueGranted", "stealGranted"})
           /\ inbox[t] = <<"queueGranted">> => Tells(t, {"granted", "queueGranted", "stealGranted"})
           /\ inbox[t] \in Stolen => Tells(t, {"granted", "queueGranted", "stealGranted"})
           /\ inbox[t] = <<"broken">> => Tells(t, {"broken"})
<1> DEFINE box == inbox[t]
<1>1. \A i \in DOMAIN box : \A events : box[i] \in events => Tells(t, events)
  BY DEF Tells
<1>2. ASSUME NEW e \in Event, box = <<e>>
      PROVE  1 \in DOMAIN box /\ box[1] = e
  BY <1>2
<1>3. ASSUME box \in Stolen
      PROVE  \/ 1 \in DOMAIN box /\ box[1] \in {"queueGranted", "stealGranted"}
             \/ 2 \in DOMAIN box /\ box[2] = "stealGranted"
  <2>1. CASE box = <<"stealGranted">>
    <3>1. 1 \in DOMAIN box /\ box[1] = "stealGranted"
      BY <2>1
    <3> QED
      BY <3>1
  <2>2. CASE box = <<"queueGranted", "stealGranted">>
    BY <2>2
  <2>3. CASE box = <<"broken", "stealGranted">>
    BY <2>3
  <2>4. CASE box = <<"queueGranted", "broken", "stealGranted">>
    <3>1. 1 \in DOMAIN box /\ box[1] = "queueGranted"
      BY <2>4
    <3> QED
      BY <3>1
  <2> QED
    BY <1>3, <2>1, <2>2, <2>3, <2>4, Zenon DEF Stolen
<1> HIDE DEF box
<1>4. box = <<"granted">> \/ box = <<"queueGranted">> => Tells(t, {"granted", "queueGranted", "stealGranted"})
  BY <1>1, <1>2 DEF Event
<1>5. box \in Stolen => Tells(t, {"granted", "queueGranted", "stealGranted"})
  BY <1>1, <1>3
<1>6. box = <<"broken">> => Tells(t, {"broken"})
  BY <1>1, <1>2 DEF Event
<1> QED
  BY <1>4, <1>5, <1>6 DEF box

(* The agreement, as the phases show it.                                    *)
LEMMA LeaseTells ==
    ASSUME Lease
    PROVE  LeaseKnown
<1> DEFINE Grant(t) == Tells(t, {"granted", "queueGranted", "stealGranted"})
           Loss(t) == Tells(t, {"broken"})
<1>1. ASSUME NEW t \in Tabs
      PROVE  /\ By(t) # "none" => tab[t].life = "open" /\ (tab[t].holding \/ Grant(t))
             /\ tab[t].holding => By(t) # "none" \/ Loss(t)
             /\ tab[t].life = "open" /\ ~tab[t].resigned => tab[t].holding \/ inbox[t] # <<>> \/ InQueue(t)
  <2> DEFINE me == tab[t]
             box == inbox[t]
             in == InQueue(t)
             by == By(t)
  <2>0. Phase(me, box, in, by)
    BY OneHolder
  <2>1. /\ box = <<"granted">> => Grant(t)
        /\ box = <<"queueGranted">> => Grant(t)
        /\ box \in Stolen => Grant(t)
        /\ box = <<"broken">> => Loss(t)
    BY Telling
  <2>2. <<>> \notin Stolen /\ <<>> \notin StolenBack
    BY DEF Stolen, StolenBack
  <2>3. <<"granted">> # <<>> /\ <<"granted", "broken">> # <<>> /\ <<"denied">> # <<>>
        /\ <<"queueGranted">> # <<>> /\ <<"queueGranted", "broken">> # <<>>
    OBVIOUS
  <2> HIDE DEF me, box, in, by, Grant, Loss
  <2>4. CASE Away(me, box, in, by)
    BY <2>4, Zenon DEF Away, me, box, in, by
  <2>5. CASE New(me, box, in, by)
    <3>1. me.life = "open" /\ ~me.holding
      BY <2>5 DEF New, Blank
    <3>2. box # <<>> /\ (by # "none" => Grant(t))
      BY <2>1, <2>3, <2>5, Zenon DEF New
    <3> QED
      BY <3>1, <3>2 DEF me, box, in, by
  <2>6. CASE Leads(me, box, in, by)
    BY <2>1, <2>6, Zenon DEF Leads, me, box, in, by
  <2>7. CASE Waits(me, box, in, by)
    BY <2>7, Zenon DEF Waits, me, box, in, by
  <2>8. CASE Called(me, box, in, by)
    BY <2>1, <2>3, <2>8, Zenon DEF Called, me, box, in, by
  <2>9. CASE Takes(me, box, in, by)
    BY <2>1, <2>2, <2>9, Zenon DEF Takes, me, box, in, by
  <2>10. CASE Retired(me, box, in, by)
    BY <2>1, <2>10, Zenon DEF Retired, me, box, in, by
  <2> QED
    BY <2>0, <2>4, <2>5, <2>6, <2>7, <2>8, <2>9, <2>10 DEF Phase
<1>2. \A t \in Tabs : By(t) # "none" <=> holder # Nothing /\ holder.tab = t
  BY OneHolder
<1> QED
  BY <1>1, <1>2, Zenon DEF LeaseKnown, Lease

(* What the tabs know of the lock, and of their candidacies, agrees with    *)
(* the lock manager but for the events on their way, for any number of      *)
(* tabs and whatever they do, races included (standForElection, queue,      *)
(* tenureEnded, resign).                                                    *)
THEOREM LeaseIsKnown == Spec => []LeaseKnown
<1>1. Init => Writers /\ Lease
  BY WritersInit, LeaseInit
<1>2. Writers /\ Lease /\ [Next]_vars => (Writers /\ Lease)'
  BY WritersStep, LeaseNext
<1>3. Lease => LeaseKnown
  BY LeaseTells
<1> QED
  BY <1>1, <1>2, <1>3, PTL DEF Spec

-----------------------------------------------------------------------------
(* Without races: a start belongs to the tab that has the lock, which has   *)
(* no writer yet; a writer is in its seat, and only a tab that holds the    *)
(* lock, or has resigned, is to hear that it was taken. `claimed` is the    *)
(* claim in the store.                                                      *)

Named(t, handle) == [tab |-> t, handle |-> handle]

CalmStart(t, me, s, by, claimed) ==
    /\ s.current /\ me.holding /\ by # "none" /\ me.indexer = Nothing /\ ~me.refusal
    /\ s.pc # "seat" => me.role = "writer" /\ ~me.seating
    /\ s.pc = "open" => claimed = Named(t, s.handle)

CalmWriter(t, me, by, claimed) ==
    me.indexer # Nothing =>
        /\ me.role = "writer" /\ ~me.seating /\ (me.holding \/ me.resigned)
        /\ me.holding /\ by # "none" => claimed = Named(t, me.indexer.handle)

Calm(t, me, box, by, claimed) ==
    /\ \A r, s \in me.starts : r = s
    /\ \A s \in me.starts : CalmStart(t, me, s, by, claimed)
    /\ CalmWriter(t, me, by, claimed)
    /\ me.holding \/ me.resigned \/ box = <<>> \/ Head(box) = "denied" \/ by # "none"

Election ==
    /\ Writers /\ Lease
    /\ ~plan.races => \A t \in Tabs : Calm(t, tab[t], inbox[t], By(t), claim)

(* A step of tab `t` leaves another tab what it has, or gives it the lock   *)
(* that it waited for.                                                      *)
Undisturbed(t) ==
    \A u \in Tabs \ {t} :
        \/ By(u)' = By(u) /\ inbox'[u] = inbox[u]
        \/ ~tab[u].holding /\ By(u)' # "none"

(* The lock stays where it was, or comes to the tab itself.                 *)
LEMMA Elsewhere ==
    ASSUME Lease, NEW t \in Tabs, Inboxes(t, inbox'),
           holder' = holder \/ (holder = Nothing /\ holder'.tab = t)
    PROVE  Undisturbed(t)
<1>1. \A u \in Tabs \ {t} : By(u)' = By(u)
  BY DEF By
<1> QED
  BY <1>1 DEF Undisturbed, Inboxes

(* The lock of the tab is let go.                                           *)
LEMMA LetGo ==
    ASSUME Lease, NEW t \in Tabs, NEW in, Inboxes(t, in), By(t) # "none", Releases(waiting, in)
    PROVE  Undisturbed(t)
<1>0. /\ LockTyped /\ \A u \in Tabs : Phase(tab[u], inbox[u], InQueue(u), By(u))
      /\ \A u \in Tabs \ {t} : By(u) = "none"
  BY OneHolder
<1>1. CASE waiting = <<>>
  <2>1. holder' = Nothing /\ inbox' = in
    BY <1>1 DEF Releases
  <2> QED
    BY <1>0, <2>1 DEF Undisturbed, By, Inboxes
<1>2. CASE waiting # <<>>
  <2>1. PICK next \in Tabs : next = Head(waiting) /\ InQueue(next)
    BY <1>0, <1>2, QueueMoves DEF LockTyped, InQueue
  <2>2. /\ holder' = [tab |-> next, by |-> "queue"]
        /\ inbox' = [in EXCEPT ![next] = Append(@, "queueGranted")]
    BY <1>2, <2>1 DEF Releases, Told
  <2>3. holder' # Nothing /\ holder'.tab = next /\ holder'.by = "queue"
    BY <2>2, TabAssumption
  <2>4. By(next)' = "queue" /\ \A u \in Tabs \ {next} : By(u)' = "none"
    BY <2>3 DEF By
  <2>5. \A u \in Tabs \ {next} : inbox'[u] = in[u]
    BY <2>2 DEF Inboxes
  <2>6. ~tab[next].holding
    <3>1. InQueue(next) = TRUE
      BY <2>1 DEF InQueue
    <3>2. Phase(tab[next], inbox[next], TRUE, By(next))
      BY <1>0, <3>1
    <3> QED
      BY <3>2 DEF Phase, Away, New, Leads, Waits, Called, Takes, Retired, Blank
  <2>7. ASSUME NEW u \in Tabs \ {t}
        PROVE  \/ By(u)' = By(u) /\ inbox'[u] = inbox[u]
               \/ ~tab[u].holding /\ By(u)' # "none"
    <3>1. CASE u = next
      <4>1. By(u)' = "queue"
        BY <2>4, <3>1
      <4> QED
        BY <2>6, <3>1, <4>1
    <3>2. CASE u # next
      BY <1>0, <2>4, <2>5, <3>2 DEF Inboxes
    <3> QED
      BY <3>1, <3>2
  <2> QED
    BY <2>7 DEF Undisturbed
<1> QED
  BY <1>1, <1>2

(* Only a theft disturbs another tab.                                       *)
LEMMA OthersUndisturbed ==
    ASSUME Lease, NEW t \in Tabs,
           \/ Open(t) \/ Handling(t) \/ SeatOpened(t) \/ Starting(t) \/ Indexing(t)
           \/ (\E s \in tab[t].starts : StartFails(t, s)) \/ Demote(t) \/ Close(t) \/ Flip(t)
    PROVE  Undisturbed(t)
<1> DEFINE box == inbox[t]
<1>0. /\ LockTyped /\ Phase(tab[t], box, InQueue(t), By(t)) /\ InQueue(t) \in BOOLEAN
      /\ By(t) # "none" <=> holder # Nothing /\ holder.tab = t
      /\ waiting \in Seq(Tabs) /\ OneEach(waiting) /\ inbox \in [Tabs -> Seq(Event)]
  BY OneHolder DEF LockTyped
<1>1. Inboxes(t, inbox)
  BY <1>0 DEF Inboxes
<1>2. box # <<>> => Inboxes(t, Handled(t))
  <2>1. box # <<>> => Tail(box) \in Seq(Event)
    BY <1>0
  <2> QED
    BY <1>0, <2>1 DEF Inboxes, Handled
<1>3. By(t) # "none" => Without(t) = waiting
  <2>1. By(t) # "none" => ~InQueue(t)
    BY <1>0, PhaseBroken
  <2> QED
    BY <1>0, <2>1, QueueWithout
<1>4. CASE UNCHANGED lock
  BY <1>1, <1>4, Elsewhere DEF lock
<1>5. ASSUME NEW by \in {"queue", "steal"}, box # <<>>, GivesBack(t, by, Handled(t))
      PROVE  Undisturbed(t)
  <2>1. CASE holder = [tab |-> t, by |-> by]
    <3>1. holder # Nothing /\ holder.tab = t
      BY <2>1, <1>5, TabAssumption
    <3>2. Releases(waiting, Handled(t))
      BY <1>5, <2>1 DEF GivesBack
    <3> QED
      BY <1>0, <1>2, <1>5, <3>1, <3>2, LetGo
  <2>2. CASE holder # [tab |-> t, by |-> by]
    BY <1>2, <1>5, <2>2, Elsewhere DEF GivesBack
  <2> QED
    BY <2>1, <2>2
<1>6. ASSUME box # <<>>, Queues(t, Handled(t))
      PROVE  Undisturbed(t)
  <2>1. CASE holder = Nothing
    <3>1. holder' = [tab |-> t, by |-> "queue"]
          /\ inbox' = [Handled(t) EXCEPT ![t] = Append(@, "queueGranted")]
      BY <1>6, <2>1 DEF Queues, Told
    <3> DEFINE in == Handled(t)
    <3>2. Inboxes(t, in) /\ Append(in[t], "queueGranted") \in Seq(Event)
      BY <1>2, <1>6, AppendProperties DEF Inboxes, Event
    <3>3. inbox' = [in EXCEPT ![t] = Append(in[t], "queueGranted")]
      BY <3>1
    <3> HIDE DEF in
    <3>4. Inboxes(t, inbox')
      BY <3>2, <3>3 DEF Inboxes
    <3> QED
      BY <2>1, <3>1, <3>4, Elsewhere
  <2>2. CASE holder # Nothing
    BY <1>2, <1>6, <2>2, Elsewhere DEF Queues
  <2> QED
    BY <2>1, <2>2
<1>7. CASE Open(t)
  <2>1. /\ holder' = holder \/ (holder = Nothing /\ holder'.tab = t)
        /\ \E e \in Event : inbox' = [inbox EXCEPT ![t] = Append(@, e)]
    BY <1>7 DEF Open, Told, Event
  <2>2. Inboxes(t, inbox')
    <3>1. PICK e \in Event : inbox' = [inbox EXCEPT ![t] = Append(@, e)]
      BY <2>1
    <3>2. Append(inbox[t], e) \in Seq(Event)
      BY <1>0, AppendProperties
    <3> QED
      BY <1>0, <3>1, <3>2 DEF Inboxes
  <2> QED
    BY <2>1, <2>2, Elsewhere
<1>8. CASE Handling(t)
  <2>1. box # <<>>
    BY <1>8 DEF Handling, Granted, Denied, QueueGranted, QueueGrantedLate, StealGranted, StealGrantedLate,
                TenureEnded, TenureEndedLate, Hears
  <2>2. CASE Granted(t) \/ QueueGranted(t) \/ StealGranted(t) \/ TenureEndedLate(t)
    BY <1>2, <2>1, <2>2, Elsewhere DEF Granted, QueueGranted, StealGranted, TenureEndedLate
  <2>3. CASE Denied(t) \/ TenureEnded(t)
    BY <1>6, <2>1, <2>3 DEF Denied, TenureEnded
  <2>4. CASE QueueGrantedLate(t) \/ StealGrantedLate(t)
    BY <1>5, <2>1, <2>4 DEF QueueGrantedLate, StealGrantedLate
  <2> QED
    BY <1>8, <2>2, <2>3, <2>4 DEF Handling
<1>9. CASE SeatOpened(t) \/ Starting(t) \/ Indexing(t) \/ (\E s \in tab[t].starts : StartFails(t, s)) \/ Flip(t)
  BY <1>4, <1>9 DEF SeatOpened, Starting, Seated, SeatedLate, Claim, Opened, Indexing, Load, Write,
                    WriteRefused, StartFails, Flip
<1>10. CASE Demote(t)
  <2>1. \/ UNCHANGED lock
        \/ By(t) # "none" /\ Releases(waiting, inbox)
        \/ UNCHANGED <<holder, inbox>>
    BY <1>0, <1>3, <1>10 DEF Demote
  <2> QED
    BY <1>1, <1>4, <2>1, LetGo, Elsewhere
<1>11. CASE Close(t)
  <2> DEFINE in == [inbox EXCEPT ![t] = <<>>]
  <2>1. \/ By(t) # "none" /\ Releases(waiting, in)
        \/ inbox' = in /\ holder' = holder
    BY <1>0, <1>3, <1>11 DEF Close
  <2>2. Inboxes(t, in)
    BY <1>0 DEF Inboxes
  <2> HIDE DEF in
  <2> QED
    BY <2>1, <2>2, LetGo, Elsewhere
<1> QED
  BY <1>7, <1>8, <1>9, <1>10, <1>11

(* A tab with neither a start nor a writer is calm, but for what it hears.  *)
LEMMA CalmIdle ==
    ASSUME NEW t, NEW now, NEW box, NEW by, NEW claimed, now.starts = {}, now.indexer = Nothing,
           now.holding \/ now.resigned \/ box = <<>> \/ Head(box) = "denied" \/ by # "none"
    PROVE  Calm(t, now, box, by, claimed)
  BY DEF Calm, CalmWriter

(* A tab that does not hold has no start, and no writer unless it resigned. *)
LEMMA CalmReader ==
    ASSUME NEW t, NEW me, NEW box, NEW by, NEW claimed, Calm(t, me, box, by, claimed),
           ~me.holding \/ by = "none" \/ me.refusal \/ me.indexer # Nothing
    PROVE  me.starts = {} /\ (~me.holding /\ ~me.resigned => me.indexer = Nothing)
  BY DEF Calm, CalmStart, CalmWriter

(* What a step of one tab must keep for another.                            *)
LEMMA CalmOther ==
    ASSUME NEW t, NEW me, NEW box, NEW by, NEW claimed, NEW box2, NEW by2, Calm(t, me, box, by, claimed),
           (by2 = by /\ box2 = box) \/ (~me.holding /\ by2 # "none")
    PROVE  Calm(t, me, box2, by2, claimed)
<1>1. CASE by2 = by /\ box2 = box
  BY <1>1
<1>2. CASE ~me.holding /\ by2 # "none"
  BY <1>2 DEF Calm, CalmStart, CalmWriter
<1> QED
  BY <1>1, <1>2

(* The step of one tab keeps the calm when its own state is calm again, and *)
(* the claim is what it was.                                                *)
LEMMA CalmStep ==
    ASSUME Election, Writers', Lease', NEW t \in Tabs, NEW now, tab' = [tab EXCEPT ![t] = now],
           plan' = plan, claim' = claim, Undisturbed(t),
           ~plan.races => Calm(t, now, inbox'[t], By(t)', claim)
    PROVE  Election'
<1>1. tab'[t] = now /\ \A u \in Tabs \ {t} : tab'[u] = tab[u]
  BY DEF Election, Writers
<1>2. ASSUME ~plan.races, NEW u \in Tabs
      PROVE  Calm(u, tab'[u], inbox'[u], By(u)', claim')
  <2>1. CASE u = t
    BY <1>1, <1>2, <2>1
  <2>2. CASE u # t
    <3>1. Calm(u, tab[u], inbox[u], By(u), claim)
      BY <1>2 DEF Election
    <3>2. Calm(u, tab[u], inbox'[u], By(u)', claim)
      BY <2>2, <3>1, CalmOther DEF Undisturbed
    <3> QED
      BY <1>1, <2>2, <3>2
  <2> QED
    BY <2>1, <2>2
<1> QED
  BY <1>2 DEF Election

(* A fresh start that begins with nothing of the last tenure in flight.     *)
LEMMA CalmBegins ==
    ASSUME NEW t \in Tabs, NEW me \in Tab, me.starts = {}, NEW pc, NEW first, NEW box, NEW by, NEW claimed,
           me.indexer = Nothing, me.holding, ~me.refusal, by # "none",
           pc = "seat" \/ (pc = "claim" /\ me.role = "writer" /\ ~me.seating)
    PROVE  Calm(t, Begins(me, pc, first), box, by, claimed)
<1> DEFINE new == [handle |-> FreshHandle(me), pc |-> pc, current |-> TRUE, first |-> first]
           now == Begins(me, pc, first)
<1>1. Outdated(me.starts) = {}
  BY DEF Outdated
<1>2. now.starts = {new}
  BY <1>1 DEF Begins, Tab
<1>3. /\ now.indexer = me.indexer /\ now.holding = me.holding /\ now.refusal = me.refusal
      /\ now.role = me.role /\ now.seating = me.seating
  BY DEF Begins, Tab
<1>4. new.current /\ new.pc = pc
  OBVIOUS
<1> HIDE DEF now, new
<1>5. CalmStart(t, now, new, by, claimed)
  BY <1>3, <1>4 DEF CalmStart
<1>6. Calm(t, now, box, by, claimed)
  BY <1>2, <1>3, <1>5 DEF Calm, CalmWriter
<1> QED
  BY <1>6 DEF now

(* Without races, a tab that is told of a grant has the lock.               *)
LEMMA GrantIsTrue ==
    ASSUME NEW t, NEW me, NEW box, NEW in, NEW by, NEW claimed, Calm(t, me, box, by, claimed),
           Phase(me, box, in, by), ~me.resigned, box # <<>>,
           Head(box) \in {"granted", "queueGranted", "stealGranted"}
    PROVE  by # "none" /\ ~me.holding /\ me.starts = {} /\ me.indexer = Nothing
<1>1. ~me.holding
  BY NextEvent DEF Phase, New, Blank, Called, Takes, Retired
<1> QED
  BY <1>1, CalmReader DEF Calm

(* A tab stands, and hears from the lock manager.                           *)
LEMMA CalmHandles ==
    ASSUME Election, Writers', Lease', NEW t \in Tabs, Open(t) \/ Handling(t)
    PROVE  Election'
<1> DEFINE me == tab[t]
           box == inbox[t]
<1>0. /\ Lease /\ me \in Tab /\ Phase(me, box, InQueue(t), By(t)) /\ InQueue(t) \in BOOLEAN
      /\ inbox \in [Tabs -> Seq(Event)]
  BY OneHolder DEF Election, Lease, TypeOK, LockTyped
<1>1. ~plan.races => Calm(t, me, box, By(t), claim)
  BY DEF Election
<1>2. plan' = plan /\ claim' = claim /\ Undisturbed(t)
  <2>1. Undisturbed(t)
    BY <1>0, OthersUndisturbed
  <2>2. plan' = plan /\ UNCHANGED store
    BY DEF Open, Handling, Granted, Denied, QueueGranted, QueueGrantedLate, StealGranted, StealGrantedLate,
           TenureEnded, TenureEndedLate
  <2> QED
    BY <2>1, <2>2 DEF store
<1>3. CASE Open(t)
  <2>1. tab' = [tab EXCEPT ![t] = Blank("open")] /\ me.life = "unopened"
    BY <1>3 DEF Open, Becomes
  <2>2. box = <<>>
    BY <1>0, <2>1, PhaseAway
  <2>3. Head(inbox'[t]) = "denied" \/ By(t)' # "none"
    <3>1. CASE holder = Nothing
      <4>1. holder' = [tab |-> t, by |-> "ask"]
        BY <1>3, <3>1 DEF Open
      <4>2. holder' # Nothing /\ holder'.tab = t /\ holder'.by = "ask"
        BY <4>1, TabAssumption
      <4> QED
        BY <4>2 DEF By
    <3>2. CASE holder # Nothing
      <4>1. inbox' = [inbox EXCEPT ![t] = Append(@, "denied")]
        BY <1>3, <3>2 DEF Open, Told
      <4>2. inbox'[t] = <<"denied">>
        BY <1>0, <2>2, <4>1
      <4> QED
        BY <4>2
    <3> QED
      BY <3>1, <3>2
  <2>4. Blank("open").starts = {} /\ Blank("open").indexer = Nothing
    BY DEF Blank
  <2>5. Calm(t, Blank("open"), inbox'[t], By(t)', claim)
    BY <2>3, <2>4, CalmIdle
  <2> QED
    BY <1>2, <2>1, <2>5, CalmStep
<1>4. CASE Granted(t)
  <2> DEFINE it == [me EXCEPT !.holding = TRUE, !.role = "writer"]
             now == Begins(it, "claim", TRUE)
  <2>1. /\ box # <<>> /\ Head(box) = "granted"
        /\ MayBegin(me) /\ tab' = [tab EXCEPT ![t] = now]
        /\ inbox' = Handled(t) /\ UNCHANGED <<holder, waiting>>
    BY <1>4 DEF Granted, Hears, Becomes
  <2>2. By(t)' = By(t)
    BY <2>1 DEF By
  <2>3. ASSUME ~plan.races
        PROVE  Calm(t, now, inbox'[t], By(t)', claim)
    <3>1. me.starts = {} /\ ~me.refusal
      BY <2>1, <2>3 DEF MayBegin
    <3>2. By(t) # "none" /\ me.indexer = Nothing
      <4>1. ~me.resigned
        BY <1>0, <2>1, NextEvent DEF Phase, New, Blank
      <4> QED
        BY <1>0, <1>1, <2>1, <2>3, <4>1, GrantIsTrue
    <3>3. it \in Tab /\ it.starts = {} /\ it.indexer = Nothing /\ it.holding /\ ~it.refusal
          /\ it.role = "writer" /\ ~it.seating
      <4>1. ~me.seating
        BY <1>0, <2>1, NextEvent DEF Phase, New, Blank
      <4> QED
        BY <1>0, <3>1, <3>2, <4>1 DEF Tab
    <3> HIDE DEF it
    <3> QED
      BY <2>2, <3>2, <3>3, CalmBegins
  <2> HIDE DEF now
  <2> QED
    BY <1>2, <2>1, <2>3, CalmStep
<1>5. CASE QueueGranted(t)
  <2> DEFINE it == [me EXCEPT !.queued = FALSE, !.holding = TRUE]
             now == Begins(it, "seat", FALSE)
  <2>1. /\ box # <<>> /\ Head(box) = "queueGranted" /\ ~me.resigned
        /\ MayBegin(me) /\ tab' = [tab EXCEPT ![t] = now]
        /\ inbox' = Handled(t) /\ UNCHANGED <<holder, waiting>>
    BY <1>5 DEF QueueGranted, Hears, Becomes
  <2>2. By(t)' = By(t)
    BY <2>1 DEF By
  <2>3. ASSUME ~plan.races
        PROVE  Calm(t, now, inbox'[t], By(t)', claim)
    <3>1. me.starts = {} /\ ~me.refusal
      BY <2>1, <2>3 DEF MayBegin
    <3>2. By(t) # "none" /\ me.indexer = Nothing
      BY <1>0, <1>1, <2>1, <2>3, GrantIsTrue
    <3>3. it \in Tab /\ it.starts = {} /\ it.indexer = Nothing /\ it.holding /\ ~it.refusal
      BY <1>0, <3>1, <3>2 DEF Tab
    <3> HIDE DEF it
    <3> QED
      BY <2>2, <3>2, <3>3, CalmBegins
  <2> HIDE DEF now
  <2> QED
    BY <1>2, <2>1, <2>3, CalmStep
<1>6. CASE StealGranted(t)
  <2> DEFINE it == [me EXCEPT !.stealing = FALSE, !.holding = TRUE]
             now == Begins(it, "seat", FALSE)
  <2>1. /\ box # <<>> /\ Head(box) = "stealGranted" /\ ~me.resigned
        /\ MayBegin(me) /\ tab' = [tab EXCEPT ![t] = now]
        /\ inbox' = Handled(t) /\ UNCHANGED <<holder, waiting>>
    BY <1>6 DEF StealGranted, Hears, Becomes
  <2>2. By(t)' = By(t)
    BY <2>1 DEF By
  <2>3. ASSUME ~plan.races
        PROVE  Calm(t, now, inbox'[t], By(t)', claim)
    <3>1. me.starts = {} /\ ~me.refusal
      BY <2>1, <2>3 DEF MayBegin
    <3>2. By(t) # "none" /\ me.indexer = Nothing
      BY <1>0, <1>1, <2>1, <2>3, GrantIsTrue
    <3>3. it \in Tab /\ it.starts = {} /\ it.indexer = Nothing /\ it.holding /\ ~it.refusal
      BY <1>0, <3>1, <3>2 DEF Tab
    <3> HIDE DEF it
    <3> QED
      BY <2>2, <3>2, <3>3, CalmBegins
  <2> HIDE DEF now
  <2> QED
    BY <1>2, <2>1, <2>3, CalmStep
<1>7. ASSUME box # <<>>, Queues(t, Handled(t)), ~InQueue(t), By(t) = "none", Tail(box) = <<>>
      PROVE  inbox'[t] = <<>> \/ By(t)' # "none"
  <2>1. Inboxes(t, Handled(t)) /\ Handled(t)[t] = <<>>
    <3>1. Tail(box) \in Seq(Event)
      BY <1>0, <1>7
    <3> QED
      BY <1>0, <1>7, <3>1 DEF Inboxes, Handled
  <2>2. inbox'[t] = <<>> \/ By(t)' = "queue"
    BY <1>0, <1>7, <2>1, LockQueues
  <2> QED
    BY <2>2
<1>8. CASE Denied(t)
  <2> DEFINE now == [me EXCEPT !.seating = TRUE, !.queued = TRUE]
  <2>1. /\ box # <<>> /\ Head(box) = "denied" /\ tab' = [tab EXCEPT ![t] = now]
        /\ Queues(t, Handled(t))
    BY <1>8 DEF Denied, Hears, Becomes
  <2>2. ~InQueue(t) /\ By(t) = "none" /\ Tail(box) = <<>>
    BY <1>0, <2>1, PhaseDenied
  <2>3. me = Blank("open")
    BY <1>0, <2>1, NextEvent DEF Phase, New
  <2>4. now.starts = {} /\ now.indexer = Nothing
    <3>1. me.starts = {} /\ me.indexer = Nothing
      BY <2>3 DEF Blank
    <3> QED
      BY <1>0, <3>1 DEF Tab
  <2> HIDE DEF now
  <2>5. Calm(t, now, inbox'[t], By(t)', claim)
    BY <1>7, <2>1, <2>2, <2>4, CalmIdle
  <2> QED
    BY <1>2, <2>1, <2>5, CalmStep
<1>9. CASE TenureEnded(t)
  <2> DEFINE it == [me EXCEPT !.holding = FALSE, !.queued = TRUE]
             now == stepDown(it)
  <2>1. /\ box # <<>> /\ Head(box) = "broken" /\ ~me.resigned /\ me.holding
        /\ tab' = [tab EXCEPT ![t] = now] /\ Queues(t, Handled(t))
    BY <1>9 DEF TenureEnded, Hears, Becomes
  <2>2. ~InQueue(t) /\ By(t) = "none" /\ Tail(box) = <<>>
    BY <1>0, <2>1, PhaseTenureEnded
  <2>3. ASSUME ~plan.races
        PROVE  Calm(t, now, inbox'[t], By(t)', claim)
    <3>1. me.starts = {}
      BY <1>1, <2>2, <2>3, CalmReader
    <3>2. it \in Tab /\ it.starts = {}
      BY <1>0, <3>1 DEF Tab
    <3> HIDE DEF it
    <3>3. Outdated(it.starts) = {}
      BY <3>2 DEF Outdated
    <3>4. now.starts = {} /\ now.indexer = Nothing
      BY <3>2, <3>3 DEF stepDown, letGoOfTheWriter, Tab
    <3> HIDE DEF now
    <3> QED
      BY <1>7, <2>1, <2>2, <3>4, CalmIdle
  <2> HIDE DEF now
  <2> QED
    BY <1>2, <2>1, <2>3, CalmStep
<1>10. CASE TenureEndedLate(t)
  <2>1. /\ box # <<>> /\ Head(box) = "broken" /\ (me.resigned \/ ~me.holding)
        /\ tab' = tab /\ UNCHANGED <<holder, waiting>>
    BY <1>10 DEF TenureEndedLate, Hears
  <2>2. tab' = [tab EXCEPT ![t] = me] /\ By(t)' = By(t)
    BY <1>0, <2>1 DEF Lease, TypeOK, By
  <2>3. Calm(t, me, box, By(t), claim) => Calm(t, me, inbox'[t], By(t), claim)
    BY <2>1 DEF Calm
  <2> QED
    BY <1>1, <1>2, <2>2, <2>3, CalmStep
<1>11. CASE QueueGrantedLate(t)
  <2>1. /\ box # <<>> /\ Head(box) = "queueGranted" /\ (me.resigned \/ ~me.queued)
        /\ tab' = tab /\ GivesBack(t, "queue", Handled(t))
    BY <1>11 DEF QueueGrantedLate, Hears
  <2>2. tab' = [tab EXCEPT ![t] = me]
    BY <1>0, <2>1 DEF Lease, TypeOK
  <2>3. ~me.holding /\ (~me.resigned => By(t) # "queue")
    BY <1>0, <2>1, NextEvent DEF Phase, Called, Takes, Retired
  <2>4. ~me.resigned => By(t)' = By(t)
    <3>1. By(t) # "queue" => holder # [tab |-> t, by |-> "queue"]
      BY TabAssumption DEF By
    <3> QED
      BY <2>1, <2>3, <3>1 DEF GivesBack, By
  <2>5. ASSUME ~plan.races
        PROVE  Calm(t, me, inbox'[t], By(t)', claim)
    <3>1. me.starts = {} /\ Calm(t, me, box, By(t), claim)
      BY <1>1, <2>3, <2>5, CalmReader
    <3>2. me.resigned \/ By(t)' # "none"
      BY <2>1, <2>3, <2>4, <3>1 DEF Calm
    <3> QED
      BY <2>3, <3>1, <3>2 DEF Calm, CalmWriter
  <2> QED
    BY <1>2, <2>2, <2>5, CalmStep
<1>12. CASE StealGrantedLate(t)
  <2> DEFINE now == [me EXCEPT !.stealing = FALSE]
  <2>1. /\ box # <<>> /\ Head(box) = "stealGranted" /\ me.resigned
        /\ tab' = [tab EXCEPT ![t] = now]
    BY <1>12 DEF StealGrantedLate, Hears, Becomes
  <2>2. ~me.holding
    BY <1>0, <2>1, NextEvent DEF Phase, Takes, Retired
  <2>3. /\ now.starts = me.starts /\ now.indexer = me.indexer /\ now.role = me.role
        /\ now.seating = me.seating /\ now.holding = me.holding /\ now.resigned = me.resigned
    BY <1>0 DEF Tab
  <2> HIDE DEF now
  <2>4. ASSUME ~plan.races
        PROVE  Calm(t, now, inbox'[t], By(t)', claim)
    <3>1. me.starts = {} /\ Calm(t, me, box, By(t), claim)
      BY <1>1, <2>2, <2>4, CalmReader
    <3> QED
      BY <2>1, <2>2, <2>3, <3>1 DEF Calm, CalmWriter
  <2> QED
    BY <1>2, <2>1, <2>4, CalmStep
<1> QED
  BY <1>3, <1>4, <1>5, <1>6, <1>8, <1>9, <1>10, <1>11, <1>12 DEF Handling

(* A fresh start.                                                           *)
LEMMA CalmStarts ==
    ASSUME Election, Writers', Lease', NEW t \in Tabs, NEW s \in tab[t].starts,
           Seated(t, s) \/ SeatedLate(t, s) \/ Claim(t, s) \/ Opened(t, s) \/ StartFails(t, s)
    PROVE  Election'
<1> DEFINE me == tab[t]
<1>0. Lease /\ me \in Tab /\ s \in Start
  BY DEF Election, Lease, TypeOK, Tab
<1>1. Undisturbed(t) /\ inbox' = inbox /\ By(t)' = By(t) /\ plan' = plan
  <2>1. UNCHANGED lock /\ plan' = plan
    BY DEF Seated, SeatedLate, Claim, Opened, StartFails
  <2>2. inbox' = inbox /\ holder' = holder
    BY <2>1 DEF lock
  <2>3. Inboxes(t, inbox')
    BY <1>0, <2>2 DEF Inboxes, Lease, TypeOK
  <2> QED
    BY <1>0, <2>1, <2>2, <2>3, Elsewhere DEF By
<1>2. ASSUME ~plan.races
      PROVE  /\ Calm(t, me, inbox[t], By(t), claim) /\ me.starts = {s}
             /\ CalmStart(t, me, s, By(t), claim) /\ me.holding
  BY <1>2 DEF Election, Calm, CalmStart
<1>3. CASE Seated(t, s)
  <2> DEFINE moved == [s EXCEPT !.pc = "claim"]
             now == [Moved(me, s, "claim") EXCEPT !.demoted = FALSE, !.role = "writer"]
  <2>1. tab' = [tab EXCEPT ![t] = now] /\ claim' = claim /\ ~me.seating
    BY <1>3 DEF Seated, Becomes, store
  <2>2. /\ now.starts = (me.starts \ {s}) \cup {moved} /\ now.indexer = me.indexer
        /\ now.holding = me.holding /\ now.refusal = me.refusal /\ now.role = "writer" /\ now.seating = me.seating
    BY <1>0 DEF Moved, Tab
  <2>3. moved.pc = "claim" /\ moved.current = s.current
    BY <1>0 DEF Start
  <2> HIDE DEF now, moved
  <2>4. ASSUME ~plan.races
        PROVE  Calm(t, now, inbox'[t], By(t)', claim)
    <3>1. now.starts = {moved}
      BY <1>2, <2>2, <2>4
    <3>2. CalmStart(t, now, moved, By(t)', claim) /\ now.indexer = Nothing /\ now.holding
      BY <1>1, <1>2, <2>1, <2>2, <2>3, <2>4 DEF CalmStart
    <3> QED
      BY <3>1, <3>2 DEF Calm, CalmWriter
  <2> QED
    BY <1>1, <2>1, <2>4, CalmStep
<1>4. CASE SeatedLate(t, s) \/ StartFails(t, s)
  <2> DEFINE now == Ended(me, s)
  <2>1. tab' = [tab EXCEPT ![t] = now] /\ claim' = claim
    BY <1>4 DEF SeatedLate, StartFails, Becomes, store
  <2>2. now.starts = me.starts \ {s} /\ now.indexer = me.indexer /\ now.holding = me.holding
    BY <1>0 DEF Ended, Tab
  <2> HIDE DEF now
  <2>3. ASSUME ~plan.races
        PROVE  Calm(t, now, inbox'[t], By(t)', claim)
    <3>1. now.starts = {} /\ now.indexer = Nothing /\ now.holding
      BY <1>2, <2>2, <2>3 DEF CalmStart
    <3> QED
      BY <3>1, CalmIdle
  <2> QED
    BY <1>1, <2>1, <2>3, CalmStep
<1>5. CASE Opened(t, s)
  <2> DEFINE made == [handle |-> s.handle, cursor |-> Nothing]
             writer == openContainer(me, s)
             now == tab'[t]
  <2>1. /\ tab' = [tab EXCEPT ![t] = IF s.first THEN [writer EXCEPT !.indexing = ~me.demoted]
                                     ELSE IF ~s.current THEN letGoOfTheWriter(writer)
                                     ELSE [writer EXCEPT !.indexing = ~me.demoted, !.reading = FALSE]]
        /\ claim' = claim /\ s.pc = "open"
    BY <1>5 DEF Opened, At, Becomes, store
  <2>2. /\ writer.starts = me.starts \ {s} /\ writer.indexer = made /\ writer.role = me.role
        /\ writer.seating = me.seating /\ writer.holding = me.holding /\ DOMAIN writer = DOMAIN me
        /\ made.handle = s.handle
    BY <1>0 DEF openContainer, Ended, Tab
  <2>3. tab' = [tab EXCEPT ![t] = now]
    BY <2>1 DEF Election, Writers
  <2>4. ASSUME ~plan.races
        PROVE  Calm(t, now, inbox'[t], By(t)', claim)
    <3>1. now = IF s.first THEN [writer EXCEPT !.indexing = ~me.demoted]
                ELSE [writer EXCEPT !.indexing = ~me.demoted, !.reading = FALSE]
      BY <1>2, <2>1, <2>4 DEF CalmStart, Election, Writers
    <3> HIDE DEF now, writer, made
    <3>2. /\ now.starts = writer.starts /\ now.indexer = writer.indexer /\ now.role = writer.role
          /\ now.seating = writer.seating /\ now.holding = writer.holding
      BY <3>1
    <3>3. now.starts = {} /\ now.holding
      BY <1>2, <2>2, <2>4, <3>2
    <3>4. now.role = "writer" /\ ~now.seating /\ claim = Named(t, now.indexer.handle)
      BY <1>2, <2>1, <2>2, <2>4, <3>2 DEF CalmStart
    <3> QED
      BY <3>3, <3>4 DEF Calm, CalmWriter
  <2> HIDE DEF now
  <2> QED
    BY <1>1, <2>1, <2>3, <2>4, CalmStep
<1>6. CASE Claim(t, s)
  <2> DEFINE moved == [s EXCEPT !.pc = "open"]
             now == Moved(me, s, "open")
  <2>1. tab' = [tab EXCEPT ![t] = now] /\ claim' = Named(t, s.handle) /\ s.pc = "claim"
    BY <1>6 DEF Claim, At, Becomes, Named
  <2>2. /\ now.starts = (me.starts \ {s}) \cup {moved} /\ now.indexer = me.indexer
        /\ now.holding = me.holding /\ now.refusal = me.refusal /\ now.role = me.role /\ now.seating = me.seating
    BY <1>0 DEF Moved, Tab
  <2>3. moved.pc = "open" /\ moved.current = s.current /\ moved.handle = s.handle
    BY <1>0 DEF Start
  <2> HIDE DEF now, moved
  <2>4. tab'[t] = now /\ \A u \in Tabs \ {t} : tab'[u] = tab[u]
    BY <2>1 DEF Election, Writers
  <2>5. ASSUME ~plan.races
        PROVE  Calm(t, now, inbox'[t], By(t)', claim')
    <3>1. now.starts = {moved}
      BY <1>2, <2>2, <2>5
    <3>2. CalmStart(t, now, moved, By(t)', claim') /\ now.indexer = Nothing /\ now.holding
      BY <1>1, <1>2, <2>1, <2>2, <2>3, <2>5 DEF CalmStart
    <3> QED
      BY <3>1, <3>2 DEF Calm, CalmWriter
  <2>6. ASSUME ~plan.races, NEW u \in Tabs \ {t}
        PROVE  Calm(u, tab'[u], inbox'[u], By(u)', claim')
    <3>1. By(t) # "none" /\ Calm(u, tab[u], inbox[u], By(u), claim)
      BY <1>2, <2>6 DEF CalmStart, Election
    <3>2. By(u) = "none"
      BY <1>0, <3>1, OneHolder
    <3>3. tab[u].starts = {}
      BY <3>1, <3>2, CalmReader
    <3>4. Calm(u, tab[u], inbox[u], By(u), claim')
      BY <3>1, <3>2, <3>3 DEF Calm, CalmWriter
    <3>5. UNCHANGED lock
      BY <1>6 DEF Claim
    <3>6. By(u)' = By(u)
      BY <3>5 DEF By, lock
    <3> QED
      BY <1>1, <2>4, <3>4, <3>6
  <2>7. ASSUME ~plan.races, NEW u \in Tabs
        PROVE  Calm(u, tab'[u], inbox'[u], By(u)', claim')
    <3>1. CASE u = t
      BY <2>4, <2>5, <2>7, <3>1
    <3>2. CASE u # t
      BY <2>6, <2>7, <3>2
    <3> QED
      BY <3>1, <3>2
  <2> QED
    BY <1>1, <2>7 DEF Election
<1> QED
  BY <1>3, <1>4, <1>5, <1>6

(* The seat, the loop and what the browser does.                            *)
LEMMA CalmWorks ==
    ASSUME Election, Writers', Lease', NEW t \in Tabs,
           SeatOpened(t) \/ Indexing(t) \/ Demote(t) \/ Close(t) \/ Flip(t)
    PROVE  Election'
<1> DEFINE me == tab[t]
<1>0. Lease /\ me \in Tab /\ Undisturbed(t)
  BY OthersUndisturbed DEF Election, Lease, TypeOK
<1>1. plan' = plan /\ claim' = claim
  BY DEF SeatOpened, Indexing, Load, Write, WriteRefused, Demote, Close, Flip, store
<1>2. ASSUME ~plan.races
      PROVE  Calm(t, me, inbox[t], By(t), claim)
  BY <1>2 DEF Election
<1>3. UNCHANGED lock => inbox' = inbox /\ By(t)' = By(t)
  BY DEF lock, By
<1>4. CASE SeatOpened(t)
  <2> DEFINE now == [me EXCEPT !.seating = FALSE, !.reading = TRUE, !.role = "reader"]
  <2>1. tab' = [tab EXCEPT ![t] = now] /\ UNCHANGED lock /\ me.seating
    BY <1>4 DEF SeatOpened, Becomes
  <2>2. /\ now.starts = me.starts /\ now.indexer = me.indexer /\ now.holding = me.holding
        /\ now.refusal = me.refusal /\ now.resigned = me.resigned
    BY <1>0 DEF Tab
  <2> HIDE DEF now
  <2>3. ASSUME ~plan.races
        PROVE  Calm(t, now, inbox'[t], By(t)', claim)
    <3>1. me.indexer = Nothing /\ \A s \in me.starts : s.pc = "seat"
      BY <1>2, <2>1, <2>3 DEF Calm, CalmStart, CalmWriter
    <3>2. \A s \in now.starts : CalmStart(t, now, s, By(t), claim)
      BY <1>2, <2>2, <2>3, <3>1 DEF Calm, CalmStart
    <3> QED
      BY <1>2, <1>3, <2>1, <2>2, <2>3, <3>1, <3>2 DEF Calm, CalmWriter
  <2> QED
    BY <1>0, <1>1, <2>1, <2>3, CalmStep
<1>5. CASE Load(t) \/ Write(t)
  <2>1. PICK c : tab' = [tab EXCEPT ![t] = [me EXCEPT !.indexer.cursor = c]]
    BY <1>5 DEF Load, Write, Becomes
  <2> DEFINE now == [me EXCEPT !.indexer.cursor = c]
  <2>2. UNCHANGED lock /\ me.indexer # Nothing /\ me.indexer \in Indexer
    BY <1>0, <1>5 DEF Load, Write, Loops, Tab
  <2>3. /\ now.starts = me.starts /\ now.holding = me.holding /\ now.resigned = me.resigned
        /\ now.role = me.role /\ now.seating = me.seating /\ now.indexer.handle = me.indexer.handle
    BY <1>0, <2>2 DEF Tab, Indexer
  <2> HIDE DEF now
  <2>4. ASSUME ~plan.races
        PROVE  Calm(t, now, inbox'[t], By(t)', claim)
    <3>1. me.starts = {}
      BY <1>2, <2>2, <2>4, CalmReader
    <3> QED
      BY <1>2, <1>3, <2>2, <2>3, <2>4, <3>1 DEF Calm, CalmWriter
  <2> QED
    BY <1>0, <1>1, <2>1, <2>4, CalmStep DEF now
<1>6. CASE WriteRefused(t)
  <2> DEFINE now == [me EXCEPT !.refusal = TRUE]
  <2>1. tab' = [tab EXCEPT ![t] = now] /\ UNCHANGED lock /\ me.indexer # Nothing
    BY <1>6 DEF WriteRefused, Becomes, Loops
  <2>2. /\ now.starts = me.starts /\ now.holding = me.holding /\ now.resigned = me.resigned
        /\ now.role = me.role /\ now.seating = me.seating /\ now.indexer = me.indexer
    BY <1>0 DEF Tab
  <2> HIDE DEF now
  <2>3. ASSUME ~plan.races
        PROVE  Calm(t, now, inbox'[t], By(t)', claim)
    <3>1. me.starts = {}
      BY <1>2, <2>1, <2>3, CalmReader
    <3> QED
      BY <1>2, <1>3, <2>1, <2>2, <2>3, <3>1 DEF Calm, CalmWriter
  <2> QED
    BY <1>0, <1>1, <2>1, <2>3, CalmStep
<1>7. CASE Demote(t)
  <2> DEFINE told == [me EXCEPT !.refusal = FALSE]
             gone == [told EXCEPT !.demoted = TRUE, !.indexing = FALSE, !.resigned = TRUE,
                                  !.queued = FALSE, !.holding = FALSE]
  <2>0. told.demoted = me.demoted /\ me.refusal
    BY <1>0, <1>7 DEF Tab, Demote
  <2>1. CASE me.demoted
    <3>1. tab' = [tab EXCEPT ![t] = told] /\ UNCHANGED lock
      BY <1>7, <2>0, <2>1 DEF Demote, Becomes
    <3>2. /\ told.starts = me.starts /\ told.holding = me.holding /\ told.resigned = me.resigned
          /\ told.role = me.role /\ told.seating = me.seating /\ told.indexer = me.indexer
      BY <1>0 DEF Tab
    <3> HIDE DEF told
    <3>3. ASSUME ~plan.races
          PROVE  Calm(t, told, inbox'[t], By(t)', claim)
      <4>1. me.starts = {}
        BY <1>2, <2>0, <3>3, CalmReader
      <4> QED
        BY <1>2, <1>3, <3>1, <3>2, <3>3, <4>1 DEF Calm, CalmWriter
    <3> QED
      BY <1>0, <1>1, <3>1, <3>3, CalmStep
  <2>2. CASE ~me.demoted
    <3>1. tab' = [tab EXCEPT ![t] = gone]
      BY <1>7, <2>0, <2>2 DEF Demote, Becomes
    <3>2. /\ gone.starts = me.starts /\ ~gone.holding /\ gone.resigned
          /\ gone.role = me.role /\ gone.seating = me.seating /\ gone.indexer = me.indexer
      BY <1>0 DEF Tab
    <3> HIDE DEF gone
    <3>3. ASSUME ~plan.races
          PROVE  Calm(t, gone, inbox'[t], By(t)', claim)
      <4>1. me.starts = {}
        BY <1>2, <2>0, <3>3, CalmReader
      <4> QED
        BY <1>2, <3>2, <3>3, <4>1 DEF Calm, CalmWriter
    <3> QED
      BY <1>0, <1>1, <3>1, <3>3, CalmStep
  <2> QED
    BY <2>1, <2>2
<1>8. CASE Close(t)
  <2>1. tab' = [tab EXCEPT ![t] = Blank("closed")]
    BY <1>8 DEF Close, Becomes
  <2>2. /\ Blank("closed").starts = {} /\ Blank("closed").indexer = Nothing
        /\ Blank("closed").life = "closed"
    BY DEF Blank
  <2>3. inbox'[t] = <<>>
    <3>1. tab'[t] = Blank("closed")
      BY <2>1 DEF Election, Writers
    <3>2. Phase(tab'[t], inbox'[t], InQueue(t)', By(t)') /\ InQueue(t)' \in BOOLEAN
      BY DEF Lease, InQueue
    <3> QED
      BY <2>2, <3>1, <3>2, PhaseAway
  <2>4. Calm(t, Blank("closed"), inbox'[t], By(t)', claim)
    BY <2>2, <2>3, CalmIdle
  <2> QED
    BY <1>0, <1>1, <2>1, <2>4, CalmStep
<1>9. CASE Flip(t)
  <2>1. tab' = [tab EXCEPT ![t] = me] /\ UNCHANGED lock
    BY <1>9 DEF Flip, Election, Writers
  <2> QED
    BY <1>0, <1>1, <1>2, <1>3, <2>1, CalmStep
<1> QED
  BY <1>4, <1>5, <1>6, <1>7, <1>8, <1>9 DEF Indexing

(* A theft: without races, the tab that is robbed holds, and has no start.  *)
LEMMA CalmSteal ==
    ASSUME Election, Writers', Lease', NEW t \in Tabs, Steal(t)
    PROVE  Election'
<1> DEFINE me == tab[t]
           now == [me EXCEPT !.stealing = TRUE, !.queued = FALSE]
<1>0. Lease /\ me \in Tab
  BY DEF Election, Lease, TypeOK
<1>1. /\ tab' = [tab EXCEPT ![t] = now] /\ plan' = plan /\ claim' = claim
      /\ me.indexer = Nothing /\ ~me.holding
      /\ plan.races \/ holder = Nothing \/ (tab[holder.tab].holding /\ tab[holder.tab].starts = {})
      /\ holder' = [tab |-> t, by |-> "steal"]
      /\ inbox' = LET in == IF holder = Nothing \/ holder.tab = t THEN inbox
                            ELSE Told(inbox, holder.tab, "broken")
                  IN Told(in, t, "stealGranted")
  BY DEF Steal, TimerFires, eligible, Becomes, store
<1>2. By(t)' = "steal" /\ \A u \in Tabs \ {t} : By(u)' = "none"
  <2>1. holder' # Nothing /\ holder'.tab = t /\ holder'.by = "steal"
    BY <1>1, TabAssumption
  <2> QED
    BY <2>1 DEF By
<1>3. tab'[t] = now /\ \A u \in Tabs \ {t} : tab'[u] = tab[u]
  BY <1>1 DEF Election, Writers
<1>4. now.starts = me.starts /\ now.indexer = me.indexer
  BY <1>0 DEF Tab
<1> HIDE DEF now
<1>5. ASSUME ~plan.races
      PROVE  Calm(t, now, inbox'[t], By(t)', claim')
  <2>1. me.starts = {}
    BY <1>1, <1>5, CalmReader DEF Election
  <2> QED
    BY <1>1, <1>2, <1>4, <2>1, CalmIdle
<1>6. ASSUME ~plan.races, NEW u \in Tabs \ {t}
      PROVE  Calm(u, tab[u], inbox'[u], "none", claim)
  <2>1. Calm(u, tab[u], inbox[u], By(u), claim)
    BY <1>6 DEF Election
  <2>2. CASE By(u) # "none"
    <3>1. holder # Nothing /\ holder.tab = u
      BY <1>0, <2>2, OneHolder
    <3>2. tab[u].holding /\ tab[u].starts = {}
      BY <1>1, <1>6, <3>1
    <3> QED
      BY <2>1, <3>2 DEF Calm, CalmWriter
  <2>3. CASE By(u) = "none"
    <3>1. holder = Nothing \/ holder.tab # u
      BY <1>0, <2>3, OneHolder
    <3>2. inbox'[u] = inbox[u]
      BY <1>0, <1>1, <3>1 DEF Told, Lease, TypeOK
    <3> QED
      BY <2>1, <2>3, <3>2
  <2> QED
    BY <2>2, <2>3
<1>7. ASSUME ~plan.races, NEW u \in Tabs
      PROVE  Calm(u, tab'[u], inbox'[u], By(u)', claim')
  <2>1. CASE u = t
    BY <1>3, <1>5, <1>7, <2>1
  <2>2. CASE u # t
    BY <1>1, <1>2, <1>3, <1>6, <1>7, <2>2
  <2> QED
    BY <2>1, <2>2
<1> QED
  BY <1>1, <1>7 DEF Election

(* The inductive invariant.                                                 *)
LEMMA ElectionInvariance ==
    /\ Init => Election
    /\ Election /\ [Next]_vars => Election'
<1>1. ASSUME Init
      PROVE  Election
  <2>1. \A t \in Tabs : tab[t].starts = {} /\ tab[t].indexer = Nothing /\ inbox[t] = <<>>
    <3>1. Blank("unopened").starts = {} /\ Blank("unopened").indexer = Nothing
      BY DEF Blank
    <3> QED
      BY <1>1, <3>1 DEF Init
  <2>2. \A t \in Tabs : Calm(t, tab[t], inbox[t], By(t), claim)
    BY <2>1, CalmIdle
  <2> QED
    BY <1>1, <2>2, WritersInit, LeaseInit DEF Election
<1>2. ASSUME Election, [Next]_vars
      PROVE  Election'
  <2>0. Writers /\ Lease
    BY <1>2 DEF Election
  <2>1. Writers'
    BY <1>2, <2>0, WritersStep
  <2>2. Lease'
    BY <1>2, <2>0, <2>1, LeaseNext
  <2>3. CASE UNCHANGED vars
    <3>1. UNCHANGED <<plan, tab, inbox, holder, claim>>
      BY <2>3 DEF vars, lock, store
    <3>2. \A t \in Tabs : By(t)' = By(t)
      BY <3>1 DEF By
    <3> QED
      BY <1>2, <2>1, <2>2, <3>1, <3>2 DEF Election
  <2>4. CASE \E t \in Tabs : Open(t) \/ Handling(t)
    BY <1>2, <2>1, <2>2, <2>4, CalmHandles
  <2>5. CASE \E t \in Tabs : SeatOpened(t) \/ Indexing(t) \/ Demote(t) \/ Close(t) \/ Flip(t)
    BY <1>2, <2>1, <2>2, <2>5, CalmWorks
  <2>6. CASE \E t \in Tabs : \E s \in tab[t].starts :
               Seated(t, s) \/ SeatedLate(t, s) \/ Claim(t, s) \/ Opened(t, s) \/ StartFails(t, s)
    BY <1>2, <2>1, <2>2, <2>6, CalmStarts
  <2>7. CASE \E t \in Tabs : Steal(t)
    BY <1>2, <2>1, <2>2, <2>7, CalmSteal
  <2> QED
    BY <1>2, <2>3, <2>4, <2>5, <2>6, <2>7 DEF Next, Starting
<1> QED
  BY <1>1, <1>2

(* A tab that has learnt that its lease was taken has no writer, unless it  *)
(* was displaced during a fresh start (stepDown).                           *)
THEOREM ReadersStaySilent == Spec => []ReadersDoNotWrite
<1>1. Election => ReadersDoNotWrite
  BY DEF Election, Calm, CalmWriter, ReadersDoNotWrite
<1> QED
  BY <1>1, ElectionInvariance, PTL DEF Spec

(* The tab that holds the lock, and has opened its writer, has the claim    *)
(* in the store: what a leader derives is not refused (takeOver,            *)
(* initAsWriter, claimOrCheck).                                             *)
THEOREM LeaderIsNotRefused == Spec => []LeaderHasTheClaim
<1>1. Election => LeaderHasTheClaim
  <2>1. SUFFICES ASSUME Election, NEW t \in Tabs, ~plan.races, holder # Nothing, holder.tab = t,
                        tab[t].holding, tab[t].indexer # Nothing
                 PROVE  held(t)
    BY DEF LeaderHasTheClaim
  <2>2. By(t) # "none"
    BY <2>1, OneHolder DEF Election
  <2>3. CalmWriter(t, tab[t], By(t), claim)
    BY <2>1 DEF Election, Calm
  <2> QED
    BY <2>1, <2>2, <2>3 DEF CalmWriter, Named, held
<1> QED
  BY <1>1, ElectionInvariance, PTL DEF Spec
=============================================================================
