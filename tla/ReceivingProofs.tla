--------------------------- MODULE ReceivingProofs ---------------------------
(***************************************************************************)
(* What the receiving container keeps true however batches, the rebuild    *)
(* loop, operator calls and deaths interleave, for every set of            *)
(* generations and streams, every configuration and every height: registry *)
(* and states agree, no state has two folds, no state has a hole, what     *)
(* answers reads goes on being folded, and catching up never moves reads   *)
(* back.                                                                   *)
(*                                                                         *)
(* The invariant has two parts. `Ordered` holds with any overlap of calls: *)
(* what a task carries has its type, and what an operator's call deleted   *)
(* stays deleted, since no other task creates. `Calm` holds where a call   *)
(* does not overlap a promotion by the loop: then one task at a time is in *)
(* the middle of a change to the slots, and what it read stays true.       *)
(***************************************************************************)
EXTENDS Receiving, SequenceTheorems, WellFoundedInduction, TLAPS

(* A registry in order: as RegistrySound has it, and with ages that do not  *)
(* grow without bound, so that there is a newest.                           *)

Bounded(r) == \E n \in Nat : \A g \in Generations : r.born[g] <= n

InOrder(r) == r \in Registry /\ SlotsSound(r) /\ RecordsSound(r) /\ Bounded(r)

-----------------------------------------------------------------------------
(* The parts of the invariant. First what holds with any overlap.           *)

Folds(s) == {s[i] : i \in DOMAIN s}

Once(s) == \A i, j \in DOMAIN s : s[i] = s[j] => i = j

(* The stages of a task: those that read and write no slot, and the others. *)
Passive == {"idle", "append", "deliver", "chunks", "settle"}
InMove == {"move", "instantiate", "commit"}
InAfter == {"moved", "letGo"}
InDrop == {"delete", "dropState"}
InReplace == {"replace", "replaceState"}
InReclaim == {"reclaim", "reclaimState", "reclaimStream"}
InOpen == {"discard", "discardState", "foldCanonical", "foldSuccessor", "ready"}

Aiming == InMove \cup InReplace \cup {"moved", "level", "register", "policy", "discard", "discardState"}
Returning == InMove \cup InAfter \cup InDrop \cup InReplace \cup {"settle", "level", "register", "policy"}

(* An operator's call has deleted a record and goes on with what is left.   *)
Losing == {"replaceState", "reclaimState", "reclaimStream", "discardState"}

(* Which stages a task has, and what each of them carries.                  *)
Stages(p) ==
    CASE p = "ingest" -> {"idle", "append", "deliver"}
      [] p = "loop" -> {"idle", "chunks", "settle", "level"} \cup InMove \cup InAfter \cup InDrop
      [] p = "control" -> {"idle", "settle", "level", "register", "policy"}
                            \cup InMove \cup InAfter \cup InDrop \cup InReplace \cup InReclaim \cup InOpen

Shaped(t) ==
    /\ t.pc \in InMove \cup {"level"} => "turn" \in DOMAIN t
    /\ t.pc = "deliver" => {"pc", "block", "todo"} \subseteq DOMAIN t
    /\ t.pc = "instantiate" =>
          {"pc", "target", "then", "settles", "superseded", "wasPromotion", "fold"} \subseteq DOMAIN t
    /\ t.pc = "delete" => {"pc", "gone", "then"} \subseteq DOMAIN t
    /\ t.pc = "reclaim" => {"pc", "garbage"} \subseteq DOMAIN t
    /\ t.pc = "reclaimState" => {"pc", "gone", "reaps", "garbage"} \subseteq DOMAIN t
    /\ t.pc = "replace" => {"pc", "target", "then", "fold", "displaced"} \subseteq DOMAIN t

TaskTyped(p, t) ==
    /\ t.pc \in Stages(p) /\ Shaped(t)
    /\ t.pc = "append" => t.stream \in Streams
    /\ t.pc \in {"append", "deliver"} => t.block \in Blocks
    /\ t.pc \in Aiming => t.target \in Generations
    /\ t.pc \in InDrop \cup Losing \cup {"letGo"} => t.gone \in Generations
    /\ t.pc \in InReclaim => t.garbage \subseteq Generations
    /\ t.pc \in InReplace => t.displaced \subseteq Generations \ {t.target}
    /\ t.pc \in Returning => t.then \in {"idle", "foldCanonical", "ready"} /\ (p = "loop" => t.then = "idle")

(* What an operator's call relies on, whatever the loop does: it is part of *)
(* open only while the container is closed, and nothing comes back that it  *)
(* has deleted.                                                             *)
Placed(t) ==
    /\ opened => t.pc \notin InOpen /\ (t.pc \in Returning => t.then = "idle")
    /\ t.pc = "discard" => t.target = canonical /\ successor \in Generations
    /\ t.pc \in {"discard", "discardState"} => held = <<>>
    /\ t.pc \in Losing => t.gone \notin registry.records

(* A closed container receives nothing and has no loop.                     *)
Shut == ~opened => At("ingest", "idle") /\ At("loop", "idle")

World == TypeOK /\ InOrder(registry) /\ NoHoles

Ordered ==
    /\ World
    /\ \A p \in Tasks : TaskTyped(p, tasks[p])
    /\ Placed(tasks["control"])
    /\ Shut

(* Then what holds where a call does not overlap a promotion. What a task   *)
(* has read stays true: a fold that is being dropped is let go first, one   *)
(* that is being built is not there yet and has its tables, and reads have  *)
(* not moved back to one that is being let go.                              *)
Carries(t) ==
    /\ t.pc \in InDrop => t.gone \notin Held
    /\ t.pc = "dropState" => t.gone \notin registry.records
    /\ t.pc = "instantiate" => t.target \notin Held
    /\ t.pc \in {"commit", "moved"} /\ t.fold => t.target \notin Held /\ state[t.target] # Nothing
    /\ t.pc = "moved" => t.target = canonical
    /\ t.pc = "letGo" => t.gone # canonical
    /\ t.pc \in InReplace => state[t.target] # Nothing /\ (t.fold => t.target \notin Held)
    /\ t.pc = "replaceState" => t.gone # t.target

(* What is registered has its tables, and so has what is held, but for the  *)
(* one a reclaim is about to let go.                                        *)
HasState(t) ==
    /\ \A g \in registry.records : state[g] # Nothing
    /\ \A g \in Held : state[g] # Nothing \/ (t.pc = "reclaimStream" /\ t.gone = g)

(* What is held is registered, or its record has just gone.                 *)
Driven(t) == \A g \in Held : g \in registry.records \/ (t.pc \in Losing /\ t.gone = g)

Apart(t, u) == t.pc \in Passive \/ u.pc \in Passive

(* A promotion that is being settled: the slots are as they were read, the  *)
(* incumbent does not move, and the target is level with it.                *)
Settles(p, t) ==
    /\ t.pc = "level" => t.incumbent = canonical /\ t.target = successor
    /\ t.pc = "level" \/ (t.pc \in InMove /\ t.settles) => (canonical \in Held => t.turn = canonical)
    /\ t.pc \in InMove /\ t.settles /\ (p = "loop" \/ canonical \in Held) =>
          hasReachedCursor(cursorOf(t.target), cursorOf(canonical))

Calm ==
    /\ Once(held)
    /\ Apart(tasks["loop"], tasks["control"])
    /\ HasState(tasks["control"])
    /\ Driven(tasks["control"])
    /\ \A p \in {"loop", "control"} : Carries(tasks[p]) /\ Settles(p, tasks[p])

Inv == Ordered /\ (~config.racing => Calm)

-----------------------------------------------------------------------------
(* Least elements: a set of numbers has one, and a bounded one a greatest.  *)

(* Every set of natural numbers that is not empty has a least element.      *)
LEMMA LeastNumber ==
    ASSUME NEW S \in SUBSET Nat, S # {}
    PROVE  \E n \in S : \A m \in S : n <= m
<1>1. IsWellFoundedOn(OpToRel(<, Nat), Nat)
  BY NatLessThanWellFounded
<1>2. PICK n \in S : \A m \in S : ~(<<m, n>> \in OpToRel(<, Nat))
  BY <1>1, WFMin
<1>3. \A m \in S : ~(m < n)
  BY <1>2 DEF OpToRel
<1> QED
  BY <1>3

(* A set of generations whose ages are bounded has a newest.                *)
LEMMA NewestExists ==
    ASSUME NEW S, S # {}, NEW born, \A g \in S : born[g] \in Nat,
           NEW n \in Nat, \A g \in S : born[g] <= n
    PROVE  Newest(S, born) \in S /\ \A h \in S : born[Newest(S, born)] >= born[h]
<1> DEFINE U == {m \in Nat : \A g \in S : born[g] <= m}
<1>1. n \in U
  OBVIOUS
<1>2. PICK m \in U : \A k \in U : m <= k
  BY <1>1, LeastNumber
<1>3. \E g \in S : born[g] >= m
  <2>1. SUFFICES ASSUME \A g \in S : born[g] < m
                 PROVE  FALSE
    BY <1>2
  <2>2. m - 1 \in U
    BY <1>2, <2>1
  <2> QED
    BY <1>2, <2>2
<1>4. \E g \in S : \A h \in S : born[g] >= born[h]
  BY <1>2, <1>3
<1> QED
  BY <1>4 DEF Newest

-----------------------------------------------------------------------------
(* The registry's verbs.                                                    *)

(* What the parts of a registry are.                                        *)
LEMMA RegistryParts ==
    ASSUME NEW r \in Registry
    PROVE  /\ r.records \subseteq Generations /\ r.born \in [Generations -> Nat]
           /\ r.slots \in [SlotNames -> Generations \cup {Nothing}] /\ r.kept \subseteq Streams
BY DEF Registry

(* A verb's registry is one when its parts are.                             *)
LEMMA RegistryOfParts ==
    ASSUME NEW records, NEW born, NEW slots, NEW kept,
           records \subseteq Generations, born \in [Generations -> Nat],
           slots \in [SlotNames -> Generations \cup {Nothing}], kept \subseteq Streams
    PROVE  [records |-> records, born |-> born, slots |-> slots, kept |-> kept] \in Registry
BY DEF Registry

(* create keeps the registry in order: the arriving generation is younger   *)
(* than every other, and takes a slot that is its own.                      *)
LEMMA CreatedInOrder ==
    ASSUME NEW r, InOrder(r), NEW g \in Generations
    PROVE  /\ InOrder(Created(r, g, "successor"))
           /\ Created(r, g, "successor").records = r.records \cup {g}
           /\ r.slots.canonical # Nothing =>
                 Created(r, g, "successor").slots.canonical = r.slots.canonical
           /\ r.slots.predecessor = Nothing => Created(r, g, "successor").slots.predecessor = Nothing
           /\ g \in r.records => Created(r, g, "successor").born = r.born
           /\ g \notin r.records => \A h \in r.records :
                 /\ Created(r, g, "successor").born[h] = r.born[h]
                 /\ Created(r, g, "successor").born[h] < Created(r, g, "successor").born[g]
<1> DEFINE highest == IF r.records = {} THEN 0 ELSE r.born[Newest(r.records, r.born)]
           slots == IF r.slots.canonical = Nothing
                    THEN [r.slots EXCEPT !.canonical = g]
                    ELSE IF r.slots.predecessor = g
                    THEN [r.slots EXCEPT !.successor = g, !.predecessor = Nothing]
                    ELSE IF slotHolding(r.slots, g) = {}
                    THEN [r.slots EXCEPT !.successor = g]
                    ELSE r.slots
           born == IF g \in r.records THEN r.born ELSE [r.born EXCEPT ![g] = highest + 1]
           new == [records |-> r.records \cup {g}, born |-> born, slots |-> slots,
                   kept |-> r.kept \cup {StreamOf[g]}]
<1>0. /\ r.records \subseteq Generations /\ r.born \in [Generations -> Nat]
      /\ r.slots \in [SlotNames -> Generations \cup {Nothing}] /\ r.kept \subseteq Streams
  BY RegistryParts DEF InOrder
<1>1. Created(r, g, "successor") = new
  BY GenerationsAssumption DEF Created, SlotNames
<1>2. highest \in Nat /\ \A h \in r.records : r.born[h] <= highest
  <2>1. CASE r.records = {}
    BY <2>1
  <2>2. CASE r.records # {}
    <3>1. PICK n \in Nat : \A h \in Generations : r.born[h] <= n
      BY DEF InOrder, Bounded
    <3>2. /\ Newest(r.records, r.born) \in r.records
          /\ \A h \in r.records : r.born[Newest(r.records, r.born)] >= r.born[h]
      BY <1>0, <2>2, <3>1, NewestExists
    <3> QED
      BY <1>0, <2>2, <3>2
  <2> QED
    BY <2>1, <2>2
<1> HIDE DEF highest
<1>3. slots \in [SlotNames -> Generations \cup {Nothing}]
  BY <1>0 DEF SlotNames
<1>4. born \in [Generations -> Nat]
  BY <1>0, <1>2
<1>5. new \in Registry
  <2>1. r.records \cup {g} \subseteq Generations /\ r.kept \cup {StreamOf[g]} \subseteq Streams
    BY <1>0, GenerationsAssumption
  <2> HIDE DEF slots, born
  <2> QED
    BY <1>3, <1>4, <2>1, RegistryOfParts
<1>6. SlotsSound(new)
  <2>1. /\ \A n \in SlotNames : r.slots[n] # Nothing => r.slots[n] \in r.records
        /\ \A n, m \in SlotNames : r.slots[n] = r.slots[m] /\ r.slots[n] # Nothing => n = m
        /\ r.records # {} => r.slots.canonical # Nothing
    BY DEF InOrder, SlotsSound
  <2>2. \A n \in SlotNames : slots[n] # Nothing => slots[n] \in r.records \cup {g}
    BY <1>0, <2>1 DEF SlotNames
  <2>3. \A n, m \in SlotNames : slots[n] = slots[m] /\ slots[n] # Nothing => n = m
    <3>1. CASE r.slots.canonical = Nothing
      <4>1. \A n \in SlotNames : r.slots[n] = Nothing
        BY <2>1, <3>1
      <4> QED
        BY <1>0, <3>1, <4>1 DEF SlotNames
    <3>2. CASE r.slots.canonical # Nothing /\ r.slots.predecessor = g
      BY <1>0, <2>1, <3>2 DEF SlotNames
    <3>3. CASE r.slots.canonical # Nothing /\ r.slots.predecessor # g /\ slotHolding(r.slots, g) = {}
      <4>1. \A n \in SlotNames : r.slots[n] # g
        BY <3>3 DEF slotHolding
      <4> QED
        BY <1>0, <2>1, <3>3, <4>1 DEF SlotNames
    <3> QED
      BY <2>1, <3>1, <3>2, <3>3
  <2>4. slots.canonical # Nothing
    BY <1>0, GenerationsAssumption DEF SlotNames
  <2> QED
    BY <2>2, <2>3, <2>4 DEF SlotsSound
<1>7. RecordsSound(new)
  <2>1. /\ StreamsOf(r.records) \subseteq r.kept
        /\ \A h, k \in r.records : r.born[h] = r.born[k] => h = k
    BY DEF InOrder, RecordsSound
  <2>2. StreamsOf(r.records \cup {g}) \subseteq r.kept \cup {StreamOf[g]}
    BY <2>1 DEF StreamsOf
  <2>3. ASSUME NEW h \in r.records \cup {g}, NEW k \in r.records \cup {g}, born[h] = born[k]
        PROVE  h = k
    <3>1. \A x \in r.records : born[x] = r.born[x] /\ born[x] \in Nat
      BY <1>0
    <3>2. g \notin r.records => born[g] = highest + 1
      BY <1>0
    <3> QED
      BY <1>2, <2>1, <2>3, <3>1, <3>2
  <2> QED
    BY <2>2, <2>3 DEF RecordsSound
<1>8. Bounded(new)
  <2>1. PICK n \in Nat : \A h \in Generations : r.born[h] <= n
    BY DEF InOrder, Bounded
  <2> DEFINE m == IF n < highest + 1 THEN highest + 1 ELSE n
  <2>2. m \in Nat /\ \A h \in Generations : born[h] <= m
    BY <1>0, <1>2, <2>1
  <2> QED
    BY <2>2 DEF Bounded
<1>9. /\ r.slots.canonical # Nothing => slots.canonical = r.slots.canonical
      /\ r.slots.predecessor = Nothing => slots.predecessor = Nothing
  BY <1>0, GenerationsAssumption DEF SlotNames
<1>10. InOrder(new)
  BY <1>5, <1>6, <1>7, <1>8 DEF InOrder
<1>11. new.records = r.records \cup {g} /\ new.slots = slots /\ new.born = born
  OBVIOUS
<1>12. /\ g \in r.records => born = r.born
       /\ g \notin r.records => \A h \in r.records : born[h] = r.born[h] /\ born[h] < born[g]
  BY <1>0, <1>2
<1> HIDE DEF new, slots, born
<1> QED
  BY <1>1, <1>9, <1>10, <1>11, <1>12

(* moveCanonicalTo keeps the registry in order: what answered is kept for a *)
(* revert, and nothing else is named by that slot.                          *)
LEMMA MovedInOrder ==
    ASSUME NEW r, InOrder(r), NEW g \in r.records
    PROVE  /\ InOrder(MovedTo(r, g, TRUE))
           /\ MovedTo(r, g, TRUE).records = r.records
           /\ MovedTo(r, g, TRUE).slots.canonical = g
<1>0. /\ r.records \subseteq Generations /\ r.born \in [Generations -> Nat]
      /\ r.slots \in [SlotNames -> Generations \cup {Nothing}] /\ r.kept \subseteq Streams
  BY RegistryParts DEF InOrder
<1>1. CASE r.slots.canonical = g
  BY <1>1 DEF MovedTo
<1>2. CASE r.slots.canonical # g
  <2> DEFINE slots == [canonical |-> g,
                       successor |-> IF r.slots.successor = g THEN Nothing ELSE r.slots.successor,
                       predecessor |-> r.slots.canonical]
             new == [r EXCEPT !.slots = slots]
  <2>1. r.slots.canonical # Nothing
    BY DEF InOrder, SlotsSound
  <2>2. MovedTo(r, g, TRUE) = new
    BY <1>2, <2>1 DEF MovedTo
  <2>3. slots \in [SlotNames -> Generations \cup {Nothing}]
    BY <1>0 DEF SlotNames
  <2>4. new \in Registry
    BY <2>3 DEF InOrder, Registry
  <2>5. new.records = r.records /\ new.born = r.born /\ new.kept = r.kept /\ new.slots = slots
    BY DEF InOrder, Registry
  <2>6. SlotsSound(new)
    <3>1. /\ \A n \in SlotNames : r.slots[n] # Nothing => r.slots[n] \in r.records
          /\ \A n, m \in SlotNames : r.slots[n] = r.slots[m] /\ r.slots[n] # Nothing => n = m
      BY DEF InOrder, SlotsSound
    <3>2. \A n \in SlotNames : slots[n] # Nothing => slots[n] \in r.records
      BY <3>1 DEF SlotNames
    <3>3. r.slots.successor # Nothing => r.slots.successor # r.slots.canonical
      BY <3>1 DEF SlotNames
    <3>4. \A n, m \in SlotNames : slots[n] = slots[m] /\ slots[n] # Nothing => n = m
      BY <1>2, <3>3 DEF SlotNames
    <3>5. slots.canonical # Nothing
      BY <1>0, GenerationsAssumption
    <3> QED
      BY <2>5, <3>2, <3>4, <3>5 DEF SlotsSound
  <2>7. RecordsSound(new) /\ Bounded(new)
    BY <2>5 DEF InOrder, RecordsSound, Bounded
  <2>8. InOrder(new)
    BY <2>4, <2>6, <2>7 DEF InOrder
  <2>9. slots.canonical = g
    OBVIOUS
  <2> HIDE DEF new, slots
  <2> QED
    BY <2>2, <2>5, <2>8, <2>9
<1> QED
  BY <1>1, <1>2

(* deleteGeneration of one that may be deleted keeps the registry in order, *)
(* and reads where they are.                                                *)
LEMMA DeletedInOrder ==
    ASSUME NEW r, InOrder(r), NEW g, Deletable(r, g), NEW reapStream \in BOOLEAN
    PROVE  /\ InOrder(deleteGeneration(r, g, reapStream))
           /\ deleteGeneration(r, g, reapStream).records = r.records \ {g}
           /\ deleteGeneration(r, g, reapStream).born = r.born
           /\ deleteGeneration(r, g, reapStream).slots.canonical = r.slots.canonical
           /\ r.slots.predecessor = Nothing => deleteGeneration(r, g, reapStream).slots.predecessor = Nothing
<1>0. /\ r.records \subseteq Generations /\ r.born \in [Generations -> Nat]
      /\ r.slots \in [SlotNames -> Generations \cup {Nothing}] /\ r.kept \subseteq Streams
  BY RegistryParts DEF InOrder
<1> DEFINE slots == [n \in SlotNames |-> IF r.slots[n] \in {g} THEN Nothing ELSE r.slots[n]]
           kept == IF Reaps(r, g, reapStream) THEN r.kept \ {StreamOf[g]} ELSE r.kept
           new == deleteGeneration(r, g, reapStream)
<1>1. /\ new.records = r.records \ {g} /\ new.born = r.born /\ new.slots = slots /\ new.kept = kept
      /\ new \in Registry
  <2>1. slots \in [SlotNames -> Generations \cup {Nothing}]
    BY <1>0
  <2>2. kept \subseteq Streams
    BY <1>0
  <2>3. new = [[r EXCEPT !.records = r.records \ {g}, !.slots = slots] EXCEPT !.kept = kept]
    BY DEF deleteGeneration, Without, InOrder, Registry
  <2> QED
    BY <1>0, <2>1, <2>2, <2>3 DEF InOrder, Registry
<1>2. g \in r.records /\ r.slots.canonical # g /\ r.slots.canonical # Nothing
  BY DEF Deletable, InOrder, SlotsSound
<1>3. slots.canonical = r.slots.canonical /\ (r.slots.predecessor = Nothing => slots.predecessor = Nothing)
  BY <1>2 DEF SlotNames
<1>4. SlotsSound(new)
  <2>1. /\ \A n \in SlotNames : r.slots[n] # Nothing => r.slots[n] \in r.records
        /\ \A n, m \in SlotNames : r.slots[n] = r.slots[m] /\ r.slots[n] # Nothing => n = m
    BY DEF InOrder, SlotsSound
  <2> QED
    BY <1>1, <1>2, <1>3, <2>1 DEF SlotsSound
<1>5. RecordsSound(new)
  <2>1. /\ \A h \in r.records : StreamOf[h] \in r.kept
        /\ \A h, k \in r.records : r.born[h] = r.born[k] => h = k
    BY DEF InOrder, RecordsSound, StreamsOf
  <2>2. ASSUME NEW h \in r.records \ {g}
        PROVE  StreamOf[h] \in kept
    BY <1>2, <2>1 DEF Reaps, OnStream
  <2> QED
    BY <1>1, <2>1, <2>2 DEF RecordsSound, StreamsOf
<1>6. Bounded(new)
  BY <1>1 DEF InOrder, Bounded
<1> QED
  BY <1>1, <1>3, <1>4, <1>5, <1>6 DEF InOrder

-----------------------------------------------------------------------------
(* The folds that are held.                                                 *)

(* A fold that is taken on comes last.                                      *)
LEMMA Taken ==
    ASSUME NEW s \in Seq(Generations), NEW g \in Generations
    PROVE  /\ Append(s, g) \in Seq(Generations) /\ Folds(Append(s, g)) = Folds(s) \cup {g}
           /\ Once(s) /\ g \notin Folds(s) => Once(Append(s, g))
<1>1. /\ Append(s, g) \in Seq(Generations) /\ Len(Append(s, g)) = Len(s) + 1
      /\ Append(s, g)[Len(s) + 1] = g /\ \A i \in 1 .. Len(s) : Append(s, g)[i] = s[i]
  BY AppendProperties
<1>2. DOMAIN s = 1 .. Len(s) /\ DOMAIN Append(s, g) = 1 .. Len(s) + 1 /\ Len(s) \in Nat
  BY <1>1
<1> DEFINE a == Append(s, g)
           n == Len(s)
<1> HIDE DEF a, n
<1>3. /\ DOMAIN s = 1 .. n /\ DOMAIN a = 1 .. n + 1 /\ n \in Nat
      /\ a[n + 1] = g /\ \A i \in 1 .. n : a[i] = s[i]
  BY <1>1, <1>2 DEF a, n
<1>4. Once(s) /\ g \notin Folds(s) => Once(a)
  BY <1>3 DEF Once, Folds
<1>5. Folds(a) = Folds(s) \cup {g}
  <2>1. ASSUME NEW x \in Folds(a)
        PROVE  x \in Folds(s) \cup {g}
    BY <1>3, <2>1 DEF Folds
  <2>2. ASSUME NEW x \in Folds(s)
        PROVE  x \in Folds(a)
    <3>1. PICK i \in 1 .. n : s[i] = x
      BY <1>3, <2>2 DEF Folds
    <3>2. i \in DOMAIN a /\ a[i] = x
      BY <1>3, <3>1
    <3> QED
      BY <3>2 DEF Folds
  <2>3. g \in Folds(a)
    BY <1>3 DEF Folds
  <2> QED
    BY <2>1, <2>2, <2>3
<1> QED
  BY <1>1, <1>4, <1>5 DEF a

(* A fold that is let go is gone, and the others stay in their order.       *)
LEMMA Spliced ==
    ASSUME NEW s \in Seq(Generations), NEW g
    PROVE  /\ Unheld(s, g) \in Seq(Generations)
           /\ Folds(s) \ {g} \subseteq Folds(Unheld(s, g)) /\ Folds(Unheld(s, g)) \subseteq Folds(s)
           /\ Once(s) => Once(Unheld(s, g)) /\ Folds(Unheld(s, g)) = Folds(s) \ {g}
<1>1. CASE g \notin Folds(s)
  BY <1>1 DEF Unheld, Folds
<1>2. CASE g \in Folds(s)
  <2> DEFINE k == CHOOSE i \in DOMAIN s : s[i] = g /\ \A j \in DOMAIN s : s[j] = g => i <= j
             n == Len(s)
             q == SubSeq(s, 1, k - 1) \o SubSeq(s, k + 1, n)
  <2>1. k \in DOMAIN s /\ s[k] = g
    <3> DEFINE I == {i \in DOMAIN s : s[i] = g}
    <3>1. I \in SUBSET Nat /\ I # {}
      BY <1>2 DEF Folds
    <3>2. \E i \in I : \A j \in I : i <= j
      BY <3>1, LeastNumber
    <3> QED
      BY <3>2
  <2>2. Unheld(s, g) = q
    BY <1>2 DEF Unheld, Folds
  <2>3. n \in Nat /\ DOMAIN s = 1 .. n /\ \A i \in 1 .. n : s[i] \in Generations
    OBVIOUS
  <2> HIDE DEF k, n
  <2>4. k \in 1 .. n /\ k \in Nat
    BY <2>1, <2>3
  <2> DEFINE l == SubSeq(s, 1, k - 1)
             r == SubSeq(s, k + 1, n)
  <2>5. l \in Seq(Generations) /\ Len(l) = k - 1 /\ \A i \in 1 .. k - 1 : l[i] = s[i]
    BY <2>3, <2>4 DEF n
  <2>6. r \in Seq(Generations) /\ Len(r) = n - k /\ \A i \in 1 .. n - k : r[i] = s[i + k]
    <3>1. /\ Len(r) = n - k /\ r \in Seq(Generations)
          /\ \A i \in 1 .. n - k : r[i] = s[(k + 1) + i - 1]
      BY <2>3, <2>4 DEF n
    <3>2. \A i \in 1 .. n - k : (k + 1) + i - 1 = i + k
      BY <2>3, <2>4
    <3> QED
      BY <3>1, <3>2
  <2> HIDE DEF l, r
  <2>7. /\ q = l \o r /\ q \in Seq(Generations) /\ Len(q) = n - 1
        /\ \A i \in 1 .. n - 1 : q[i] = IF i < k THEN s[i] ELSE s[i + 1]
    <3>1. q = l \o r
      BY DEF l, r
    <3>2. /\ l \o r \in Seq(Generations) /\ Len(l \o r) = n - 1
          /\ \A i \in 1 .. n - 1 : (l \o r)[i] = IF i <= k - 1 THEN l[i] ELSE r[i - (k - 1)]
      BY <2>3, <2>4, <2>5, <2>6
    <3>3. ASSUME NEW i \in 1 .. n - 1
          PROVE  (l \o r)[i] = IF i < k THEN s[i] ELSE s[i + 1]
      <4>1. CASE i < k
        BY <2>3, <2>4, <2>5, <3>2, <4>1
      <4>2. CASE ~(i < k)
        <5>1. i - (k - 1) \in 1 .. n - k /\ (i - (k - 1)) + k = i + 1 /\ ~(i <= k - 1)
          BY <2>3, <2>4, <4>2
        <5> QED
          BY <2>6, <3>2, <4>2, <5>1
      <4> QED
        BY <4>1, <4>2
    <3> QED
      BY <3>1, <3>2, <3>3
  <2> HIDE DEF q
  <2>8. DOMAIN q = 1 .. n - 1
    BY <2>7
  <2>9. Once(s) => Once(q)
    <3>1. SUFFICES ASSUME Once(s), NEW i \in 1 .. n - 1, NEW j \in 1 .. n - 1, q[i] = q[j]
                   PROVE  i = j
      BY <2>8 DEF Once
    <3> DEFINE f == IF i < k THEN i ELSE i + 1
               h == IF j < k THEN j ELSE j + 1
    <3>2. f \in 1 .. n /\ h \in 1 .. n /\ q[i] = s[f] /\ q[j] = s[h]
      BY <2>3, <2>4, <2>7
    <3>3. f = h
      BY <2>3, <3>1, <3>2 DEF Once
    <3> QED
      BY <2>4, <3>3
  <2>10. ASSUME NEW x \in Folds(q)
         PROVE  x \in Folds(s) /\ (Once(s) => x # g)
    <3>1. PICK i \in 1 .. n - 1 : x = q[i]
      BY <2>8, <2>10 DEF Folds
    <3> DEFINE j == IF i < k THEN i ELSE i + 1
    <3>2. j \in 1 .. n /\ j # k /\ s[j] = x
      BY <2>3, <2>4, <2>7, <3>1
    <3> QED
      BY <2>1, <2>3, <3>2 DEF Folds, Once
  <2>11. ASSUME NEW x \in Folds(s) \ {g}
         PROVE  x \in Folds(q)
    <3>1. PICK i \in 1 .. n : x = s[i]
      BY <2>3, <2>11 DEF Folds
    <3> DEFINE j == IF i < k THEN i ELSE i - 1
    <3>2. i # k
      BY <2>1, <2>11, <3>1
    <3>3. j \in 1 .. n - 1 /\ (IF j < k THEN j ELSE j + 1) = i
      BY <2>3, <2>4, <3>2
    <3>4. q[j] = x
      BY <2>7, <3>1, <3>3
    <3> QED
      BY <2>8, <3>3, <3>4 DEF Folds
  <2> QED
    BY <2>2, <2>7, <2>9, <2>10, <2>11
<1> QED
  BY <1>1, <1>2

-----------------------------------------------------------------------------
(* States and cursors.                                                      *)

Top(S) == IF S = {} THEN 0 ELSE CHOOSE n \in S : \A m \in S : n >= m

CursorIn(S) == IF S \in {Nothing, {}} THEN Nothing ELSE Top(S)

(* The last block of a state without holes.                                 *)
LEMMA TopOfSegment ==
    ASSUME NEW n \in 0 .. MaxBlock
    PROVE  /\ 1 .. n # Nothing /\ Top(1 .. n) = n
           /\ CursorIn(1 .. n) = IF n = 0 THEN Nothing ELSE n
<1>0. n \in Nat /\ 1 .. n \in SUBSET (1 .. MaxBlock)
  BY ReceivingAssumption
<1>1. 1 .. n # Nothing
  BY <1>0, ReceivingAssumption
<1>2. CASE n = 0
  BY <1>1, <1>2 DEF Top, CursorIn
<1>3. CASE n # 0
  <2>1. n \in 1 .. n /\ \A m \in 1 .. n : n >= m
    BY <1>0, <1>3
  <2>2. \A k \in 1 .. n : (\A m \in 1 .. n : k >= m) => k = n
    BY <1>0, <2>1
  <2>3. Top(1 .. n) = n
    BY <2>1, <2>2 DEF Top
  <2> QED
    BY <1>1, <1>3, <2>1, <2>3 DEF CursorIn
<1> QED
  BY <1>2, <1>3

(* A state and its cursor, now and after a step.                            *)
LEMMA CursorOfState ==
    ASSUME NEW g
    PROVE  /\ Reached(g) = Top(state[g]) /\ Reached(g)' = Top(state'[g])
           /\ cursorOf(g) = CursorIn(state[g]) /\ cursorOf(g)' = CursorIn(state'[g])
BY DEF Reached, cursorOf, Top, CursorIn

(* What NoHoles says of one generation.                                     *)
LEMMA Segment ==
    ASSUME World, NEW g \in Generations, state[g] # Nothing
    PROVE  Reached(g) \in 0 .. MaxBlock /\ state[g] = 1 .. Reached(g)
<1>1. state[g] \subseteq 1 .. MaxBlock /\ MaxBlock \in Nat
  BY ReceivingAssumption DEF World, TypeOK, Blocks
<1>2. state[g] = 1 .. Reached(g)
  BY DEF World, NoHoles
<1>3. CASE state[g] = {}
  <2>1. Reached(g) = 0
    BY <1>3 DEF Reached
  <2> QED
    BY <1>1, <1>2, <2>1
<1>4. CASE state[g] # {}
  <2> DEFINE U == {m \in Nat : \A n \in state[g] : n <= m}
  <2>1. PICK m \in U : \A k \in U : m <= k
    <3>1. MaxBlock \in U
      BY <1>1
    <3> QED
      BY <3>1, LeastNumber
  <2>2. \E n \in state[g] : n >= m
    <3>1. SUFFICES ASSUME \A n \in state[g] : n < m
                   PROVE  FALSE
      BY <1>1, <2>1
    <3>2. m - 1 \in U
      BY <1>1, <1>4, <2>1, <3>1
    <3> QED
      BY <2>1, <3>2
  <2>3. \E n \in state[g] : \A k \in state[g] : n >= k
    BY <1>1, <2>1, <2>2
  <2>4. Reached(g) \in state[g]
    BY <1>4, <2>3 DEF Reached
  <2> QED
    BY <1>1, <1>2, <2>4
<1> QED
  BY <1>3, <1>4

(* A cursor that was reached stays reached when what reached it grows.      *)
LEMMA StaysReached ==
    ASSUME NEW n \in 0 .. MaxBlock, NEW m \in 0 .. MaxBlock, m >= n, NEW k \in 0 .. MaxBlock,
           hasReachedCursor(CursorIn(1 .. n), CursorIn(1 .. k))
    PROVE  hasReachedCursor(CursorIn(1 .. m), CursorIn(1 .. k))
BY TopOfSegment, ReceivingAssumption DEF hasReachedCursor

-----------------------------------------------------------------------------
(* Steps. A task that takes one becomes t; the others stay as they are.     *)

LEMMA TaskStep ==
    ASSUME DOMAIN tasks = Tasks, NEW p \in Tasks, NEW t, Becomes(p, t)
    PROVE  DOMAIN tasks' = Tasks /\ tasks'[p] = t /\ \A q \in Tasks \ {p} : tasks'[q] = tasks[q]
BY DEF Becomes

(* What each part of the state is.                                          *)
LEMMA OrderedFacts ==
    ASSUME Ordered
    PROVE  /\ World /\ Shut /\ Placed(tasks["control"])
           /\ DOMAIN tasks = Tasks /\ \A p \in Tasks : TaskTyped(p, tasks[p])
           /\ config \in Configs /\ opened \in BOOLEAN
           /\ held \in Seq(Generations) /\ Held \subseteq Generations /\ built \subseteq Generations
           /\ Held = Folds(held)
           /\ state \in [Generations -> (SUBSET Blocks) \cup {Nothing}]
           /\ stored \in [Streams -> Claim \cup {Nothing}]
           /\ InOrder(registry) /\ registry \in Registry /\ registry.records \subseteq Generations
           /\ canonical \in registry.records \cup {Nothing} /\ successor \in registry.records \cup {Nothing}
           /\ Nothing \notin Generations
<1>1. /\ World /\ Shut /\ Placed(tasks["control"]) /\ \A p \in Tasks : TaskTyped(p, tasks[p])
  BY DEF Ordered
<1>2. /\ TypeOK /\ InOrder(registry)
  BY <1>1 DEF World
<1>3. /\ DOMAIN tasks = Tasks /\ config \in Configs /\ opened \in BOOLEAN
      /\ held \in Seq(Generations) /\ built \subseteq Generations
      /\ state \in [Generations -> (SUBSET Blocks) \cup {Nothing}]
      /\ stored \in [Streams -> Claim \cup {Nothing}]
  BY <1>2 DEF TypeOK
<1>4. Held \subseteq Generations /\ Held = Folds(held)
  BY <1>3 DEF Held, Folds
<1>5. registry \in Registry /\ SlotsSound(registry)
  BY <1>2 DEF InOrder
<1>6. registry.records \subseteq Generations
  BY <1>5, RegistryParts
<1>7. canonical \in registry.records \cup {Nothing} /\ successor \in registry.records \cup {Nothing}
  BY <1>5 DEF SlotsSound, SlotNames, canonical, successor
<1> QED
  BY <1>1, <1>2, <1>3, <1>4, <1>5, <1>6, <1>7, GenerationsAssumption

(* The counters stay within their bounds.                                   *)
LEMMA WorldStep ==
    ASSUME World, NEW p \in Tasks, NEW t, Becomes(p, t), config' = config, InOrder(registry)',
           state' \in [Generations -> (SUBSET Blocks) \cup {Nothing}], NoHoles',
           stored' \in [Streams -> Claim \cup {Nothing}],
           opened' \in BOOLEAN, held' \in Seq(Generations), built' \subseteq Generations, UNCHANGED counters
    PROVE  World'
<1>1. DOMAIN tasks' = Tasks
  BY TaskStep DEF World, TypeOK
<1> QED
  BY <1>1 DEF World, TypeOK, counters, InOrder

(* A step of one task that changes nothing else.                            *)
LEMMA WorldStays ==
    ASSUME World, NEW p \in Tasks, NEW t, Becomes(p, t), UNCHANGED <<config, disk, memory, counters>>
    PROVE  World'
<1>1. UNCHANGED <<config, registry, state, stored, opened, held, built, counters>>
  BY DEF disk, memory
<1>2. NoHoles'
  BY <1>1 DEF World, NoHoles, Reached
<1> QED
  BY <1>1, <1>2, WorldStep DEF World, TypeOK

(* A step of one task that changes the registry, or the folds.              *)
LEMMA WorldOfRecords ==
    ASSUME World, NEW p \in Tasks, NEW t, Becomes(p, t), UNCHANGED <<config, state, stored, opened, counters>>,
           InOrder(registry)', held' \in Seq(Generations), built' \subseteq Generations
    PROVE  World'
<1>1. NoHoles'
  BY DEF World, NoHoles, Reached
<1> QED
  BY <1>1, WorldStep DEF World, TypeOK

(* One that changes the state of one generation, to none or to a segment.   *)
LEMMA WorldOfState ==
    ASSUME World, NEW p \in Tasks, NEW t, Becomes(p, t), UNCHANGED <<config, registry, stored, opened, counters>>,
           held' \in Seq(Generations), built' \subseteq Generations,
           NEW g, NEW S, state' = [state EXCEPT ![g] = S],
           S = Nothing \/ \E n \in 0 .. MaxBlock : S = 1 .. n
    PROVE  World'
<1>1. state \in [Generations -> (SUBSET Blocks) \cup {Nothing}] /\ MaxBlock \in Nat
  BY ReceivingAssumption DEF World, TypeOK
<1>2. S \in (SUBSET Blocks) \cup {Nothing}
  BY <1>1 DEF Blocks
<1>3. state' \in [Generations -> (SUBSET Blocks) \cup {Nothing}]
  BY <1>1, <1>2
<1>4. ASSUME NEW h \in Generations, state'[h] # Nothing
      PROVE  state'[h] = 1 .. Reached(h)'
  <2>1. CASE h = g
    <3>1. PICK n \in 0 .. MaxBlock : state'[h] = 1 .. n
      BY <1>1, <1>4, <2>1
    <3> QED
      BY <3>1, CursorOfState, TopOfSegment
  <2>2. CASE h # g
    <3>1. state'[h] = state[h]
      BY <1>1, <2>2
    <3> QED
      BY <1>4, <3>1, CursorOfState DEF World, NoHoles
  <2> QED
    BY <2>1, <2>2
<1>5. NoHoles'
  BY <1>4 DEF NoHoles
<1> QED
  BY <1>3, <1>5, WorldStep DEF World, TypeOK

(* A batch or the loop takes a step: the container is open, so no call is   *)
(* part of open.                                                            *)
LEMMA AsideOrdered ==
    ASSUME Ordered, NEW p \in {"ingest", "loop"}, NEW t, Becomes(p, t), opened, opened' = opened,
           registry'.records \subseteq registry.records, World', TaskTyped(p, t)
    PROVE  Ordered'
<1>1. PICK c : c = tasks["control"]
  OBVIOUS
<1>2. p \in Tasks /\ DOMAIN tasks = Tasks /\ Placed(c) /\ \A q \in Tasks : TaskTyped(q, tasks[q])
  BY <1>1, OrderedFacts DEF Tasks
<1>3. tasks'[p] = t /\ \A q \in Tasks \ {p} : tasks'[q] = tasks[q]
  BY <1>2, TaskStep
<1>4. \A q \in Tasks : TaskTyped(q, tasks'[q])
  BY <1>2, <1>3
<1>5. Placed(c)'
  BY <1>2 DEF Placed, InOpen, Losing
<1>6. tasks'["control"] = c
  BY <1>1, <1>3 DEF Tasks
<1>7. (\A q \in Tasks : TaskTyped(q, tasks[q]))' /\ Placed(tasks["control"])'
  BY <1>4, <1>5, <1>6
<1> QED
  BY <1>7 DEF Ordered, Shut

(* An operator's call, or an open, takes one.                               *)
LEMMA CallOrdered ==
    ASSUME Ordered, NEW t, Becomes("control", t), opened' = opened,
           World', TaskTyped("control", t), Placed(t)'
    PROVE  Ordered'
<1>1. "control" \in Tasks /\ DOMAIN tasks = Tasks /\ Shut /\ \A q \in Tasks : TaskTyped(q, tasks[q])
  BY OrderedFacts DEF Tasks
<1>2. tasks'["control"] = t /\ \A q \in Tasks \ {"control"} : tasks'[q] = tasks[q]
  BY <1>1, TaskStep
<1>3. \A q \in Tasks : TaskTyped(q, tasks'[q])
  BY <1>1, <1>2
<1>4. Shut'
  BY <1>1, <1>2 DEF Shut, At, Tasks
<1>5. (\A q \in Tasks : TaskTyped(q, tasks[q]))' /\ Placed(tasks["control"])'
  BY <1>2, <1>3
<1> QED
  BY <1>4, <1>5 DEF Ordered

(* A step of a promotion, which the loop and a call take alike.             *)
LEMMA MoverOrdered ==
    ASSUME Ordered, NEW p \in {"loop", "control"}, ~At(p, "idle"), NEW t, Becomes(p, t), opened' = opened,
           registry'.records \subseteq registry.records, World', TaskTyped(p, t), p = "control" => Placed(t)'
    PROVE  Ordered'
<1>1. CASE p = "loop"
  <2>1. opened
    BY <1>1, OrderedFacts DEF Shut
  <2> QED
    BY <1>1, <2>1, AsideOrdered
<1>2. CASE p = "control"
  BY <1>2, CallOrdered
<1> QED
  BY <1>1, <1>2

-----------------------------------------------------------------------------
(* Ordered: the batches and the loop.                                       *)

LEMMA ReceiveOrdered ==
    ASSUME Ordered, NEW s \in Streams, Receive(s)
    PROVE  Ordered'
<1> DEFINE position == IF stored[s] = Nothing THEN 0 ELSE stored[s].to
<1>1. PICK t : t = [pc |-> "append", stream |-> s, block |-> position + 1]
  OBVIOUS
<1>2. /\ opened /\ position < MaxBlock /\ Becomes("ingest", t)
      /\ UNCHANGED <<config, disk, memory, counters>>
  BY <1>1 DEF Receive
<1>3. position \in Nat
  <2>1. stored[s] \in Claim \cup {Nothing}
    BY OrderedFacts
  <2> QED
    BY <2>1, ReceivingAssumption DEF Claim, Blocks
<1>4. TaskTyped("ingest", t)
  BY <1>1, <1>2, <1>3, ReceivingAssumption
     DEF TaskTyped, Shaped, Stages, Blocks, Aiming, Returning, Losing, InMove, InDrop, InAfter, InReplace, InReclaim
<1>5. World'
  BY <1>2, OrderedFacts, WorldStays DEF Tasks
<1> QED
  BY <1>2, <1>4, <1>5, AsideOrdered DEF disk, memory

(* What a batch being received carries, and that the container is open.     *)
LEMMA Ingest ==
    ASSUME Ordered, NEW t, t = tasks["ingest"], t.pc # "idle"
    PROVE  opened /\ TaskTyped("ingest", t)
BY OrderedFacts DEF Shut, At, Tasks

LEMMA AppendOrdered ==
    ASSUME Ordered, AppendEmissions
    PROVE  Ordered'
<1>1. PICK c : c = tasks["ingest"]
  OBVIOUS
<1>2. PICK t : /\ Becomes("ingest", t)
               /\ t = Idle \/ \E todo : t = [pc |-> "deliver", block |-> c.block, todo |-> todo]
  BY <1>1, Zenon DEF AppendEmissions
<1>3. /\ c.pc = "append" /\ stored' = [stored EXCEPT ![c.stream] = Claimed(@, c.block)]
      /\ UNCHANGED <<config, registry, state, memory, counters>>
  BY <1>1, Zenon DEF AppendEmissions, At
<1>4. opened /\ c.stream \in Streams /\ c.block \in Blocks
  BY <1>1, <1>3, Ingest DEF TaskTyped
<1>5. TaskTyped("ingest", t)
  BY <1>2, <1>4 DEF TaskTyped, Shaped, Stages, Idle, Aiming, Returning, Losing, InMove, InDrop, InAfter, InReplace, InReclaim
<1>6. stored' \in [Streams -> Claim \cup {Nothing}]
  <2>1. stored[c.stream] \in Claim \cup {Nothing} /\ stored \in [Streams -> Claim \cup {Nothing}]
    BY <1>4, OrderedFacts
  <2>2. Claimed(stored[c.stream], c.block) \in Claim
    BY <1>4, <2>1 DEF Claimed, Claim
  <2> QED
    BY <1>3, <1>4, <2>1, <2>2
<1>7. World'
  <2>1. UNCHANGED <<config, registry, state, opened, held, built, counters>>
    BY <1>3 DEF memory
  <2>2. NoHoles'
    BY <2>1, OrderedFacts DEF World, NoHoles, Reached
  <2> QED
    BY <1>2, <1>6, <2>1, <2>2, OrderedFacts, WorldStep DEF World, TypeOK, Tasks
<1> QED
  BY <1>2, <1>3, <1>4, <1>5, <1>7, AsideOrdered DEF memory

(* A delta is the block after the last one of the fold that takes it.       *)
LEMMA DeliveredWhole ==
    ASSUME World, NEW g \in Generations, state[g] # Nothing, NEW b \in Blocks, Reached(g) = b - 1
    PROVE  state[g] \cup {b} = 1 .. b /\ b \in 0 .. MaxBlock
<1>1. state[g] = 1 .. b - 1
  BY Segment
<1>2. b \in 1 .. MaxBlock /\ MaxBlock \in Nat
  BY ReceivingAssumption DEF Blocks
<1> QED
  BY <1>1, <1>2

(* What Deliver does to the state.                                          *)
LEMMA Delivered ==
    ASSUME Ordered, Deliver
    PROVE  \/ state' = state
           \/ \E g \in Held, n \in 0 .. MaxBlock :
                /\ ~Busy(g) /\ state[g] # Nothing /\ n >= Reached(g)
                /\ state' = [state EXCEPT ![g] = 1 .. n]
<1>1. PICK c : c = tasks["ingest"]
  OBVIOUS
<1>2. PICK g : g = Head(c.todo)
  OBVIOUS
<1>3. /\ c.pc = "deliver" /\ ~Busy(g)
      /\ state' = IF g \in Held /\ state[g] # Nothing /\ Reached(g) = c.block - 1
                  THEN [state EXCEPT ![g] = @ \cup {c.block}] ELSE state
  BY <1>1, <1>2 DEF Deliver, At
<1>4. c.block \in Blocks
  BY <1>1, <1>3, Ingest DEF TaskTyped
<1>5. CASE g \in Held /\ state[g] # Nothing /\ Reached(g) = c.block - 1
  <2>1. g \in Generations /\ World
    BY <1>5, OrderedFacts
  <2>2. state[g] \cup {c.block} = 1 .. c.block /\ c.block \in 0 .. MaxBlock
    BY <1>4, <1>5, <2>1, DeliveredWhole
  <2>3. c.block >= Reached(g)
    BY <1>5, <2>2, ReceivingAssumption
  <2>4. state' = [state EXCEPT ![g] = 1 .. c.block]
    BY <1>3, <1>5, <2>2
  <2> QED
    BY <1>3, <1>5, <2>2, <2>3, <2>4
<1>6. CASE ~(g \in Held /\ state[g] # Nothing /\ Reached(g) = c.block - 1)
  BY <1>3, <1>6
<1> QED
  BY <1>5, <1>6

LEMMA DeliverOrdered ==
    ASSUME Ordered, Deliver
    PROVE  Ordered'
<1>1. PICK c : c = tasks["ingest"]
  OBVIOUS
<1>2. PICK t : Becomes("ingest", t) /\ (t = Idle \/ t = [c EXCEPT !.todo = Tail(@)])
  BY <1>1 DEF Deliver
<1>3. c.pc = "deliver" /\ UNCHANGED <<config, registry, stored, memory, counters>>
  BY <1>1 DEF Deliver, At
<1>4. opened /\ TaskTyped("ingest", c)
  BY <1>1, <1>3, Ingest
<1>5. \/ t.pc = "idle"
      \/ t.pc = "deliver" /\ t.block = c.block /\ DOMAIN t = DOMAIN c /\ {"pc", "block", "todo"} \subseteq DOMAIN c
  BY <1>2, <1>3, <1>4 DEF Idle, TaskTyped, Shaped
<1>6. TaskTyped("ingest", t)
  BY <1>3, <1>4, <1>5 DEF TaskTyped, Shaped, Stages, Aiming, Returning, Losing, InMove, InDrop, InAfter, InReplace, InReclaim
<1>7. UNCHANGED <<config, registry, stored, opened, held, built, counters>>
  BY <1>3 DEF memory
<1>8. World'
  <2>1. CASE state' = state
    BY <1>2, <1>3, <2>1, OrderedFacts, WorldStays DEF disk, Tasks
  <2>2. ASSUME NEW g \in Held, NEW n \in 0 .. MaxBlock, state' = [state EXCEPT ![g] = 1 .. n]
        PROVE  World'
    <3>1. PICK S : S = 1 .. n
      OBVIOUS
    <3> QED
      BY <1>2, <1>7, <2>2, <3>1, OrderedFacts, WorldOfState DEF Tasks
  <2> QED
    BY <2>1, <2>2, Delivered
<1> QED
  BY <1>2, <1>4, <1>6, <1>7, <1>8, AsideOrdered

LEMMA RebuildOrdered ==
    ASSUME Ordered, RebuildMore
    PROVE  Ordered'
<1>1. PICK todo : Becomes("loop", Chunks(todo))
  BY Zenon DEF RebuildMore
<1>2. opened /\ UNCHANGED <<config, disk, memory, counters>>
  BY Zenon DEF RebuildMore
<1>3. PICK t : t = Chunks(todo)
  OBVIOUS
<1>4. TaskTyped("loop", t)
  BY <1>3 DEF Chunks, TaskTyped, Shaped, Stages, Aiming, Returning, Losing, InMove, InDrop, InAfter, InReplace, InReclaim
<1>5. World'
  BY <1>1, <1>2, OrderedFacts, WorldStays DEF Tasks
<1> QED
  BY <1>1, <1>2, <1>3, <1>4, <1>5, AsideOrdered DEF disk, memory

(* A chunk folds what follows the last block, if anything does.             *)
LEMMA ReplayedWhole ==
    ASSUME Ordered, NEW g \in Generations, state[g] # Nothing
    PROVE  \E n \in 0 .. MaxBlock : n >= Reached(g) /\ Replayed(g) = 1 .. n
<1>1. PICK n \in 0 .. MaxBlock : state[g] = 1 .. n /\ Reached(g) = n
  BY OrderedFacts, Segment
<1>2. PICK claim : claim = stored[StreamOf[g]]
  OBVIOUS
<1>3. claim \in Claim \cup {Nothing}
  BY <1>2, OrderedFacts, GenerationsAssumption
<1>4. CASE claim = Nothing \/ claim.from > n + 1
  BY <1>1, <1>2, <1>4, ReceivingAssumption DEF Replayed
<1>5. CASE ~(claim = Nothing \/ claim.from > n + 1)
  <2>1. claim.from \in 1 .. MaxBlock /\ claim.to \in 1 .. MaxBlock /\ claim.from <= n + 1
    BY <1>3, <1>5, ReceivingAssumption DEF Claim, Blocks
  <2>2. PICK m : m = IF claim.to > n THEN claim.to ELSE n
    OBVIOUS
  <2>3. m \in 0 .. MaxBlock /\ m >= n
    BY <2>1, <2>2, ReceivingAssumption
  <2>4. (1 .. n) \cup {k \in claim.from .. claim.to : k > n} = 1 .. m
    BY <2>1, <2>2, ReceivingAssumption
  <2>5. Replayed(g) = (1 .. n) \cup {k \in claim.from .. claim.to : k > n}
    BY <1>1, <1>2, <1>5 DEF Replayed
  <2> QED
    BY <1>1, <2>3, <2>4, <2>5
<1> QED
  BY <1>4, <1>5

(* What Chunk does to the state.                                            *)
LEMMA Chunked ==
    ASSUME Ordered, Chunk
    PROVE  \/ state' = state
           \/ \E g \in Generations, n \in 0 .. MaxBlock :
                /\ ~Busy(g) /\ state[g] # Nothing /\ n >= Reached(g)
                /\ state' = [state EXCEPT ![g] = 1 .. n]
<1>1. PICK g : g = Head(tasks["loop"].todo)
  OBVIOUS
<1>2. ~Busy(g) /\ (state' = state \/ (state[g] # Nothing /\ state' = [state EXCEPT ![g] = Replayed(g)]))
  BY <1>1 DEF Chunk
<1>3. CASE g \notin Generations
  <2>1. state \in [Generations -> (SUBSET Blocks) \cup {Nothing}]
    BY OrderedFacts
  <2> QED
    BY <1>2, <1>3, <2>1
<1>4. CASE g \in Generations /\ state[g] # Nothing
  BY <1>2, <1>4, ReplayedWhole
<1> QED
  BY <1>2, <1>3, <1>4

LEMMA ChunkOrdered ==
    ASSUME Ordered, Chunk
    PROVE  Ordered'
<1>1. PICK t : Becomes("loop", t) /\ (t = Idle \/ \E todo : t = Chunks(todo))
  BY DEF Chunk
<1>2. At("loop", "chunks") /\ UNCHANGED <<config, registry, stored, memory, counters>>
  BY DEF Chunk
<1>3. opened
  BY <1>2, OrderedFacts DEF Shut, At
<1>4. TaskTyped("loop", t)
  BY <1>1 DEF Chunks, Idle, TaskTyped, Shaped, Stages, Aiming, Returning, Losing, InMove, InDrop, InAfter, InReplace, InReclaim
<1>5. UNCHANGED <<config, registry, stored, opened, held, built, counters>>
  BY <1>2 DEF memory
<1>6. World'
  <2>1. CASE state' = state
    BY <1>1, <1>2, <2>1, OrderedFacts, WorldStays DEF disk, Tasks
  <2>2. ASSUME NEW g \in Generations, NEW n \in 0 .. MaxBlock, state' = [state EXCEPT ![g] = 1 .. n]
        PROVE  World'
    <3>1. PICK S : S = 1 .. n
      OBVIOUS
    <3> QED
      BY <1>1, <1>5, <2>2, <3>1, OrderedFacts, WorldOfState DEF Tasks
  <2> QED
    BY <2>1, <2>2, Chunked
<1> QED
  BY <1>1, <1>3, <1>4, <1>5, <1>6, AsideOrdered

-----------------------------------------------------------------------------
(* Ordered: a promotion.                                                    *)

(* What a call goes on with.                                                *)
LEMMA Continued ==
    ASSUME NEW p \in {"loop", "control"}, NEW then \in {"idle", "foldCanonical", "ready"},
           p = "loop" => then = "idle"
    PROVE  TaskTyped(p, Continue(then)) /\ Continue(then).pc = then
BY DEF Continue, Idle, TaskTyped, Shaped, Stages, Aiming, Returning, Losing, InMove, InDrop, InAfter, InReplace, InReclaim, InOpen

(* What a task carries that goes on with something afterwards.              *)
LEMMA Resumes ==
    ASSUME Ordered, NEW p \in {"loop", "control"}, NEW c, c = tasks[p], c.pc \in Returning
    PROVE  /\ TaskTyped(p, c) /\ ~At(p, "idle") /\ World
           /\ c.then \in {"idle", "foldCanonical", "ready"} /\ (p = "loop" => c.then = "idle")
           /\ opened => c.then = "idle"
<1>1. TaskTyped(p, c) /\ World /\ Placed(tasks["control"])
  BY OrderedFacts DEF Tasks
<1>2. c.then \in {"idle", "foldCanonical", "ready"} /\ (p = "loop" => c.then = "idle")
  BY <1>1 DEF TaskTyped
<1>3. ~At(p, "idle")
  BY DEF At, Returning, InMove, InDrop, InAfter, InReplace
<1> QED
  BY <1>1, <1>2, <1>3 DEF Placed

(* A step that goes on with the promotion or ends it.                       *)
LEMMA MovesOn ==
    ASSUME Ordered, NEW p \in {"loop", "control"}, NEW c, c = tasks[p], c.pc \in Returning,
           NEW t, Becomes(p, t), opened' = opened, registry'.records \subseteq registry.records, World',
           \/ t = Continue(c.then)
           \/ TaskTyped(p, t) /\ t.pc \in InMove \cup InAfter \cup InDrop \cup {"level"} /\ t.then = c.then
    PROVE  Ordered'
<1>1. /\ ~At(p, "idle") /\ c.then \in {"idle", "foldCanonical", "ready"} /\ (p = "loop" => c.then = "idle")
      /\ opened => c.then = "idle"
  BY Resumes
<1>2. TaskTyped(p, t)
  BY <1>1, Continued
<1>3. Placed(t)'
  <2>1. CASE t = Continue(c.then)
    <3>1. t.pc = c.then
      BY <1>1, <2>1, Continued
    <3> QED
      BY <1>1, <3>1 DEF Placed, InOpen, Returning, Losing, InMove, InDrop, InAfter, InReplace
  <2>2. CASE t.pc \in InMove \cup InAfter \cup InDrop \cup {"level"} /\ t.then = c.then
    BY <1>1, <2>2 DEF Placed, InOpen, Losing, InMove, InDrop, InAfter
  <2> QED
    BY <2>1, <2>2
<1> QED
  BY <1>1, <1>2, <1>3, MoverOrdered

(* One that changes nothing else.                                           *)
LEMMA MovesAlong ==
    ASSUME Ordered, NEW p \in {"loop", "control"}, NEW c, c = tasks[p], c.pc \in Returning,
           NEW t, Becomes(p, t), UNCHANGED <<config, disk, memory, counters>>,
           \/ t = Continue(c.then)
           \/ TaskTyped(p, t) /\ t.pc \in InMove \cup InAfter \cup InDrop \cup {"level"} /\ t.then = c.then
    PROVE  Ordered'
<1>1. World'
  BY OrderedFacts, WorldStays DEF Tasks
<1>2. UNCHANGED <<registry, opened>>
  BY DEF disk, memory
<1> QED
  BY <1>1, <1>2, MovesOn

LEMMA SettleOrdered ==
    ASSUME Ordered, NEW p \in {"loop", "control"}, NothingToSettle(p) \/ Settle(p)
    PROVE  Ordered'
<1>1. PICK c : c = tasks[p]
  OBVIOUS
<1>2. c.pc = "settle" /\ c.pc \in Returning /\ UNCHANGED <<config, disk, memory, counters>>
  BY <1>1 DEF NothingToSettle, Settle, At, Returning
<1>3. CASE NothingToSettle(p)
  <2>1. PICK t : t = Continue(c.then)
    OBVIOUS
  <2> QED
    BY <1>1, <1>2, <1>3, <2>1, MovesAlong DEF NothingToSettle
<1>4. CASE Settle(p)
  <2>1. PICK t : t = [pc |-> "level", incumbent |-> canonical, target |-> successor, then |-> c.then,
                      turn |-> IF canonical \in Held THEN canonical ELSE Nothing]
    OBVIOUS
  <2>2. Becomes(p, t) /\ successor # Nothing
    BY <1>1, <1>4, <2>1 DEF Settle
  <2>3. /\ successor \in Generations
        /\ c.then \in {"idle", "foldCanonical", "ready"} /\ (p = "loop" => c.then = "idle")
    BY <1>1, <1>2, <2>2, OrderedFacts, Resumes
  <2>4. TaskTyped(p, t) /\ t.pc = "level" /\ t.then = c.then
    BY <2>1, <2>3 DEF TaskTyped, Shaped, Stages, Aiming, Returning, Losing, InMove, InDrop, InAfter, InReplace, InReclaim
  <2> QED
    BY <1>1, <1>2, <2>2, <2>4, MovesAlong
<1> QED
  BY <1>3, <1>4

LEMMA LevelOrdered ==
    ASSUME Ordered, NEW p \in {"loop", "control"}, Level(p)
    PROVE  Ordered'
<1>1. PICK c : c = tasks[p]
  OBVIOUS
<1>2. c.pc = "level" /\ c.pc \in Returning /\ UNCHANGED <<config, disk, memory, counters>>
  BY <1>1 DEF Level, At, Returning
<1>3. PICK t : /\ Becomes(p, t)
               /\ \/ t = Continue(c.then)
                  \/ t = [pc |-> "move", target |-> c.target, then |-> c.then, turn |-> Turn(c), settles |-> TRUE]
  BY <1>1 DEF Level
<1>4. /\ c.target \in Generations
      /\ c.then \in {"idle", "foldCanonical", "ready"} /\ (p = "loop" => c.then = "idle")
  BY <1>1, <1>2, Resumes DEF TaskTyped, Aiming
<1>5. t # Continue(c.then) => TaskTyped(p, t) /\ t.pc = "move" /\ t.then = c.then
  BY <1>3, <1>4 DEF TaskTyped, Shaped, Stages, Aiming, Returning, Losing, InMove, InDrop, InAfter, InReplace, InReclaim
<1> QED
  BY <1>1, <1>2, <1>3, <1>5, MovesAlong DEF InMove

LEMMA MoveOrdered ==
    ASSUME Ordered, NEW p \in {"loop", "control"}, Move(p)
    PROVE  Ordered'
<1>1. PICK c : c = tasks[p]
  OBVIOUS
<1>2. c.pc = "move" /\ c.pc \in Returning /\ UNCHANGED <<config, disk, memory, counters>>
  BY <1>1 DEF Move, At, Returning, InMove
<1>3. PICK t, pc : /\ Becomes(p, t) /\ pc \in {"instantiate", "commit"}
                   /\ t = [pc |-> pc, target |-> c.target, then |-> c.then, turn |-> c.turn, settles |-> c.settles,
                           superseded |-> canonical, wasPromotion |-> successor = c.target, fold |-> FALSE]
  BY <1>1 DEF Move
<1>4. /\ c.target \in Generations
      /\ c.then \in {"idle", "foldCanonical", "ready"} /\ (p = "loop" => c.then = "idle")
  BY <1>1, <1>2, Resumes DEF TaskTyped, Aiming, InMove
<1>5. TaskTyped(p, t) /\ t.pc \in InMove /\ t.then = c.then
  BY <1>3, <1>4 DEF TaskTyped, Shaped, Stages, Aiming, Returning, Losing, InMove, InDrop, InAfter, InReplace, InReclaim
<1> QED
  BY <1>1, <1>2, <1>3, <1>5, MovesAlong

(* Tables that are made are those of a fold that has folded nothing.        *)
LEMMA MigratedState ==
    ASSUME World, NEW g \in Generations
    PROVE  \E S : /\ Migrated(g) = [state EXCEPT ![g] = S] /\ S # Nothing
                  /\ \E n \in 0 .. MaxBlock : S = 1 .. n
                  /\ S = IF state[g] = Nothing THEN {} ELSE state[g]
<1>1. PICK S : S = IF state[g] = Nothing THEN {} ELSE state[g]
  OBVIOUS
<1>2. Migrated(g) = [state EXCEPT ![g] = S]
  BY <1>1 DEF Migrated
<1>3. CASE state[g] = Nothing
  <2>1. S = 1 .. 0 /\ 0 \in 0 .. MaxBlock
    BY <1>1, <1>3, ReceivingAssumption
  <2>2. S # Nothing
    BY <2>1, TopOfSegment
  <2> QED
    BY <1>1, <1>2, <2>1, <2>2
<1>4. CASE state[g] # Nothing
  BY <1>1, <1>2, <1>4, Segment
<1> QED
  BY <1>3, <1>4

(* What Instantiate does.                                                   *)
LEMMA Instantiates ==
    ASSUME Ordered, NEW p \in {"loop", "control"}, NEW c, c = tasks[p], Instantiate(p)
    PROVE  \E t : /\ Becomes(p, t) /\ t.pc = "commit" /\ TaskTyped(p, t)
                  /\ t.target = c.target /\ t.then = c.then /\ t.turn = c.turn /\ t.settles = c.settles
                  /\ t.superseded = c.superseded /\ t.wasPromotion = c.wasPromotion
                  /\ state' = IF t.fold THEN Migrated(c.target) ELSE state
<1>1. PICK folds \in BOOLEAN : /\ state' = IF folds THEN Migrated(c.target) ELSE state
                               /\ Becomes(p, [c EXCEPT !.pc = "commit", !.fold = folds])
  BY DEF Instantiate
<1>2. PICK t : t = [c EXCEPT !.pc = "commit", !.fold = folds]
  OBVIOUS
<1>3. c.pc = "instantiate" /\ TaskTyped(p, c)
  BY OrderedFacts DEF Instantiate, At, Tasks
<1>4. /\ {"pc", "target", "then", "settles", "superseded", "wasPromotion", "fold", "turn"} \subseteq DOMAIN c
      /\ c.target \in Generations
      /\ c.then \in {"idle", "foldCanonical", "ready"} /\ (p = "loop" => c.then = "idle")
  BY <1>3 DEF TaskTyped, Shaped, InMove, Aiming, Returning
<1>5. /\ t.pc = "commit" /\ t.fold = folds /\ t.target = c.target /\ t.then = c.then /\ t.turn = c.turn
      /\ t.settles = c.settles /\ t.superseded = c.superseded /\ t.wasPromotion = c.wasPromotion
      /\ "turn" \in DOMAIN t
  BY <1>2, <1>4
<1>6. TaskTyped(p, t)
  BY <1>4, <1>5 DEF TaskTyped, Shaped, Stages, Aiming, Returning, Losing, InMove, InDrop, InAfter, InReplace, InReclaim
<1> QED
  BY <1>1, <1>2, <1>5, <1>6

LEMMA InstantiateOrdered ==
    ASSUME Ordered, NEW p \in {"loop", "control"}, Instantiate(p) \/ InstantiationFails(p)
    PROVE  Ordered'
<1>1. PICK c : c = tasks[p]
  OBVIOUS
<1>2. c.pc = "instantiate" /\ c.pc \in Returning
  BY <1>1 DEF Instantiate, InstantiationFails, At, Returning, InMove
<1>3. CASE InstantiationFails(p)
  <2>1. PICK t : t = Continue(c.then)
    OBVIOUS
  <2> QED
    BY <1>1, <1>2, <1>3, <2>1, MovesAlong DEF InstantiationFails
<1>4. CASE Instantiate(p)
  <2>1. PICK t : /\ Becomes(p, t) /\ t.pc = "commit" /\ TaskTyped(p, t) /\ t.target = c.target /\ t.then = c.then
                 /\ state' = IF t.fold THEN Migrated(c.target) ELSE state
    BY <1>1, <1>4, Instantiates
  <2>2. UNCHANGED <<config, registry, stored, opened, held, built, counters>>
    BY <1>4 DEF Instantiate, memory
  <2>3. World /\ c.target \in Generations /\ held \in Seq(Generations) /\ built \subseteq Generations
    BY <2>1, OrderedFacts DEF TaskTyped, Aiming, InMove
  <2>4. World'
    <3>1. CASE state' = state
      BY <2>1, <2>2, <2>3, <3>1, WorldStays DEF disk, memory, Tasks
    <3>2. CASE state' = Migrated(c.target)
      <4>1. PICK S : state' = [state EXCEPT ![c.target] = S] /\ \E n \in 0 .. MaxBlock : S = 1 .. n
        BY <2>3, <3>2, MigratedState
      <4> QED
        BY <2>1, <2>2, <2>3, <4>1, WorldOfState DEF Tasks
    <3> QED
      BY <2>1, <3>1, <3>2
  <2> QED
    BY <1>1, <1>2, <2>1, <2>2, <2>4, MovesOn DEF InMove
<1> QED
  BY <1>3, <1>4

(* What CommitMove does: reads move, and the folds stay as they are.        *)
LEMMA Committed ==
    ASSUME Ordered, NEW p \in {"loop", "control"}, NEW c, c = tasks[p], CommitMove(p)
    PROVE  /\ c.pc = "commit" /\ c.target \in registry.records /\ UNCHANGED <<config, state, stored, opened, held, built, counters>>
           /\ InOrder(registry') /\ registry'.records = registry.records /\ canonical' = c.target
           /\ Becomes(p, [pc |-> "moved", target |-> c.target, then |-> c.then, turn |-> c.turn,
                          superseded |-> c.superseded, wasPromotion |-> c.wasPromotion, fold |-> c.fold])
<1>1. /\ c.pc = "commit" /\ c.target \in registry.records /\ UNCHANGED <<config, state, stored, opened, held, built, counters>>
      /\ registry' = MovedTo(registry, c.target, TRUE)
      /\ Becomes(p, [pc |-> "moved", target |-> c.target, then |-> c.then, turn |-> c.turn,
                     superseded |-> c.superseded, wasPromotion |-> c.wasPromotion, fold |-> c.fold])
  BY DEF CommitMove, At, memory
<1>2. InOrder(registry') /\ registry'.records = registry.records /\ canonical' = c.target
  BY <1>1, OrderedFacts, MovedInOrder DEF canonical
<1> QED
  BY <1>1, <1>2

LEMMA CommitOrdered ==
    ASSUME Ordered, NEW p \in {"loop", "control"}, CommitMove(p) \/ MoveUnknown(p)
    PROVE  Ordered'
<1>1. PICK c : c = tasks[p]
  OBVIOUS
<1>2. c.pc = "commit" /\ c.pc \in Returning
  BY <1>1 DEF CommitMove, MoveUnknown, At, Returning, InMove
<1>3. CASE MoveUnknown(p)
  <2>1. PICK t : t = Continue(c.then)
    OBVIOUS
  <2> QED
    BY <1>1, <1>2, <1>3, <2>1, MovesAlong DEF MoveUnknown
<1>4. CASE CommitMove(p)
  <2>1. PICK t : t = [pc |-> "moved", target |-> c.target, then |-> c.then, turn |-> c.turn,
                      superseded |-> c.superseded, wasPromotion |-> c.wasPromotion, fold |-> c.fold]
    OBVIOUS
  <2>2. /\ InOrder(registry') /\ registry'.records = registry.records /\ Becomes(p, t)
        /\ UNCHANGED <<config, state, stored, opened, held, built, counters>> /\ c.target \in registry.records
    BY <1>1, <1>4, <2>1, Committed
  <2>3. World'
    BY <2>2, OrderedFacts, WorldOfRecords DEF Tasks, InOrder
  <2>4. /\ c.then \in {"idle", "foldCanonical", "ready"} /\ (p = "loop" => c.then = "idle")
        /\ c.target \in Generations
    BY <1>1, <1>2, <2>2, Resumes, OrderedFacts
  <2>5. TaskTyped(p, t) /\ t.pc = "moved" /\ t.then = c.then
    BY <2>1, <2>4 DEF TaskTyped, Shaped, Stages, Aiming, Returning, Losing, InMove, InDrop, InAfter, InReplace, InReclaim
  <2> QED
    BY <1>1, <1>2, <2>2, <2>3, <2>5, MovesOn DEF InAfter
<1> QED
  BY <1>3, <1>4

(* What AfterMove does to the folds: the one that was built is taken on,    *)
(* and the one reads moved off is let go or kept, with its state.           *)
LEMMA After ==
    ASSUME Ordered, NEW p \in {"loop", "control"}, NEW c, c = tasks[p], AfterMove(p)
    PROVE  /\ c.pc = "moved" /\ c.target \in Generations /\ UNCHANGED <<config, registry, state, stored, opened, counters>>
           /\ held' \in Seq(Generations) /\ built' \subseteq Generations
           /\ \E now, off : /\ now = IF c.fold THEN Append(held, c.target) ELSE held
                            /\ now \in Seq(Generations) /\ Folds(now) = Held \cup (IF c.fold THEN {c.target} ELSE {})
                            /\ off \in BOOLEAN /\ held' = IF off THEN Unheld(now, c.superseded) ELSE now
                            /\ off => c.superseded \notin {Nothing, c.target}
                            /\ \/ Becomes(p, Continue(c.then))
                               \/ /\ off /\ c.superseded \in Generations
                                  /\ Becomes(p, [pc |-> "delete", gone |-> c.superseded, then |-> c.then, turn |-> c.turn])
                               \/ /\ c.superseded \in Generations /\ c.superseded # c.target
                                  /\ Becomes(p, [pc |-> "letGo", gone |-> c.superseded, then |-> c.then, turn |-> c.turn])
<1> DEFINE now == IF c.fold THEN Append(held, c.target) ELSE held
           drops == Moves(c) /\ config.dropOnPromotion /\ c.wasPromotion /\ c.superseded \in Held
           stops == Moves(c) /\ ~drops /\ StopsFolding(c, Folds(now))
           asks == Moves(c) /\ ~drops /\ ~stops /\ AsksForBundle(c, Folds(now))
           off == drops \/ stops
<1>1. /\ c.pc = "moved" /\ UNCHANGED <<config, registry, state, stored, opened, counters>>
      /\ held' = IF off THEN Unheld(now, c.superseded) ELSE now
      /\ built' = (IF c.fold THEN built \cup {c.target} ELSE built) \ (IF off THEN {c.superseded} ELSE {})
      /\ Becomes(p, IF drops THEN [pc |-> "delete", gone |-> c.superseded, then |-> c.then, turn |-> c.turn]
                    ELSE IF asks THEN [pc |-> "letGo", gone |-> c.superseded, then |-> c.then, turn |-> c.turn]
                    ELSE Continue(c.then))
  BY DEF AfterMove, At, Folds, disk
<1>2. /\ held \in Seq(Generations) /\ built \subseteq Generations
      /\ Held = Folds(held) /\ Held \subseteq Generations
  BY OrderedFacts
<1>3. c.target \in Generations
  BY <1>1, OrderedFacts DEF TaskTyped, Aiming, Tasks
<1>4. now \in Seq(Generations) /\ Folds(now) = Held \cup (IF c.fold THEN {c.target} ELSE {})
  BY <1>2, <1>3, Taken
<1>5. /\ off \in BOOLEAN /\ (off => c.superseded \notin {Nothing, c.target})
      /\ drops => off /\ c.superseded \in Generations
      /\ asks => c.superseded \in Folds(now) /\ c.superseded # c.target
  BY <1>2 DEF Moves, AsksForBundle
<1> HIDE DEF now, drops, stops, asks, off
<1>6. held' \in Seq(Generations)
  BY <1>1, <1>4, Spliced
<1>7. built' \subseteq Generations
  BY <1>1, <1>2, <1>3
<1>8. now = IF c.fold THEN Append(held, c.target) ELSE held
  BY DEF now
<1>9. \/ Becomes(p, Continue(c.then))
      \/ /\ off /\ c.superseded \in Generations
         /\ Becomes(p, [pc |-> "delete", gone |-> c.superseded, then |-> c.then, turn |-> c.turn])
      \/ /\ c.superseded \in Generations /\ c.superseded # c.target
         /\ Becomes(p, [pc |-> "letGo", gone |-> c.superseded, then |-> c.then, turn |-> c.turn])
  <2>1. asks => c.superseded \in Generations
    BY <1>2, <1>3, <1>4, <1>5
  <2> QED
    BY <1>1, <1>5, <2>1
<1> QED
  BY <1>1, <1>3, <1>4, <1>5, <1>6, <1>7, <1>8, <1>9

LEMMA AfterOrdered ==
    ASSUME Ordered, NEW p \in {"loop", "control"}, AfterMove(p)
    PROVE  Ordered'
<1>1. PICK c : c = tasks[p]
  OBVIOUS
<1>2. /\ c.pc = "moved" /\ UNCHANGED <<config, registry, state, stored, opened, counters>>
      /\ held' \in Seq(Generations) /\ built' \subseteq Generations
  BY <1>1, After
<1>3. PICK t : /\ Becomes(p, t)
               /\ \/ t = Continue(c.then)
                  \/ /\ c.superseded \in Generations
                     /\ \/ t = [pc |-> "delete", gone |-> c.superseded, then |-> c.then, turn |-> c.turn]
                        \/ t = [pc |-> "letGo", gone |-> c.superseded, then |-> c.then, turn |-> c.turn]
  BY <1>1, After
<1>4. c.pc \in Returning
  BY <1>2 DEF Returning, InAfter
<1>5. World'
  BY <1>2, <1>3, OrderedFacts, WorldOfRecords DEF Tasks, InOrder
<1>6. c.then \in {"idle", "foldCanonical", "ready"} /\ (p = "loop" => c.then = "idle")
  BY <1>1, <1>4, Resumes
<1>7. t # Continue(c.then) => TaskTyped(p, t) /\ t.pc \in {"delete", "letGo"} /\ t.then = c.then
  BY <1>3, <1>6 DEF TaskTyped, Shaped, Stages, Aiming, Returning, Losing, InMove, InDrop, InAfter, InReplace, InReclaim
<1> QED
  BY <1>1, <1>2, <1>3, <1>4, <1>5, <1>7, MovesOn DEF InAfter, InDrop

LEMMA LetGoOrdered ==
    ASSUME Ordered, NEW p \in {"loop", "control"}, LetGo(p) \/ KeepFolding(p)
    PROVE  Ordered'
<1>1. PICK c : c = tasks[p]
  OBVIOUS
<1>2. PICK t : t = Continue(c.then)
  OBVIOUS
<1>3. c.pc = "letGo" /\ c.pc \in Returning /\ Becomes(p, t)
  BY <1>1, <1>2 DEF LetGo, KeepFolding, At, Returning, InAfter
<1>4. CASE KeepFolding(p)
  BY <1>1, <1>2, <1>3, <1>4, MovesAlong DEF KeepFolding
<1>5. CASE LetGo(p)
  <2>1. /\ held' = Unheld(held, c.gone) /\ built' = built \ {c.gone}
        /\ UNCHANGED <<config, registry, state, stored, opened, counters>>
    BY <1>1, <1>5 DEF LetGo, disk
  <2>2. held' \in Seq(Generations) /\ built' \subseteq Generations /\ World /\ InOrder(registry)
    BY <2>1, OrderedFacts, Spliced
  <2>3. World'
    BY <1>3, <2>1, <2>2, WorldOfRecords DEF Tasks, InOrder
  <2> QED
    BY <1>1, <1>2, <1>3, <2>1, <2>3, MovesOn
<1> QED
  BY <1>4, <1>5

(* A record that may be deleted goes, and the others stay.                  *)
LEMMA DeletedOrKept ==
    ASSUME Ordered, NEW g, NEW reapStream \in BOOLEAN,
           registry' = IF Deletable(registry, g) THEN deleteGeneration(registry, g, reapStream) ELSE registry
    PROVE  /\ InOrder(registry') /\ registry'.records \subseteq registry.records /\ canonical' = canonical
           /\ Deletable(registry, g) => g # canonical /\ registry'.records = registry.records \ {g}
           /\ ~Deletable(registry, g) => registry' = registry
<1>1. InOrder(registry)
  BY OrderedFacts
<1>2. CASE Deletable(registry, g)
  BY <1>1, <1>2, DeletedInOrder DEF canonical, Deletable
<1>3. CASE ~Deletable(registry, g)
  BY <1>1, <1>3 DEF canonical
<1> QED
  BY <1>2, <1>3

(* What Delete does.                                                        *)
LEMMA Deletes ==
    ASSUME Ordered, NEW p \in {"loop", "control"}, NEW c, c = tasks[p], Delete(p)
    PROVE  /\ c.pc = "delete" /\ InOrder(registry') /\ registry'.records \subseteq registry.records
           /\ canonical' = canonical
           /\ \E t : /\ Becomes(p, t) /\ TaskTyped(p, t)
                     /\ \/ t = Continue(c.then) /\ registry' = registry
                        \/ /\ t.pc = "dropState" /\ t.gone = c.gone /\ t.then = c.then
                           /\ registry'.records = registry.records \ {c.gone}
<1>1. /\ registry' = IF Deletable(registry, c.gone) THEN deleteGeneration(registry, c.gone, FALSE) ELSE registry
      /\ Becomes(p, IF Deletable(registry, c.gone) THEN [c EXCEPT !.pc = "dropState"] ELSE Continue(c.then))
      /\ c.pc = "delete"
  BY DEF Delete, At
<1>2. /\ InOrder(registry') /\ registry'.records \subseteq registry.records /\ canonical' = canonical
      /\ Deletable(registry, c.gone) => registry'.records = registry.records \ {c.gone}
      /\ ~Deletable(registry, c.gone) => registry' = registry
  BY <1>1, DeletedOrKept
<1>3. TaskTyped(p, c)
  BY OrderedFacts DEF Tasks
<1>4. /\ {"pc", "gone", "then"} \subseteq DOMAIN c /\ c.gone \in Generations
      /\ c.then \in {"idle", "foldCanonical", "ready"} /\ (p = "loop" => c.then = "idle")
  BY <1>1, <1>3 DEF TaskTyped, Shaped, InDrop, Returning
<1>5. CASE Deletable(registry, c.gone)
  <2>1. PICK t : t = [c EXCEPT !.pc = "dropState"]
    OBVIOUS
  <2>2. t.pc = "dropState" /\ t.gone = c.gone /\ t.then = c.then
    BY <1>4, <2>1
  <2>3. TaskTyped(p, t)
    BY <1>4, <2>2 DEF TaskTyped, Shaped, Stages, Aiming, Returning, Losing, InMove, InDrop, InAfter, InReplace, InReclaim
  <2> QED
    BY <1>1, <1>2, <1>5, <2>1, <2>2, <2>3
<1>6. CASE ~Deletable(registry, c.gone)
  BY <1>1, <1>2, <1>4, <1>6, Continued
<1> QED
  BY <1>1, <1>2, <1>5, <1>6

LEMMA DropOrdered ==
    ASSUME Ordered, NEW p \in {"loop", "control"}, Delete(p) \/ DropState(p)
    PROVE  Ordered'
<1>1. PICK c : c = tasks[p]
  OBVIOUS
<1>2. c.pc \in InDrop /\ c.pc \in Returning /\ World /\ held \in Seq(Generations) /\ built \subseteq Generations
  BY <1>1, OrderedFacts DEF Delete, DropState, At, Returning, InDrop
<1>3. CASE Delete(p)
  <2>1. /\ c.pc = "delete" /\ InOrder(registry') /\ registry'.records \subseteq registry.records
    BY <1>1, <1>3, Deletes
  <2>2. PICK t : /\ Becomes(p, t) /\ TaskTyped(p, t)
                 /\ t = Continue(c.then) \/ (t.pc = "dropState" /\ t.then = c.then)
    BY <1>1, <1>3, Deletes
  <2>3. UNCHANGED <<config, state, stored, opened, held, built, counters>>
    BY <1>3 DEF Delete, memory
  <2>4. World'
    BY <1>2, <2>1, <2>2, <2>3, WorldOfRecords DEF Tasks, InOrder
  <2> QED
    BY <1>1, <1>2, <2>1, <2>2, <2>3, <2>4, MovesOn DEF InDrop
<1>4. CASE DropState(p)
  <2>1. PICK t : t = Continue(c.then)
    OBVIOUS
  <2>2. /\ Becomes(p, t) /\ state' = [state EXCEPT ![c.gone] = Nothing]
        /\ UNCHANGED <<config, registry, stored, opened, held, built, counters>>
    BY <1>1, <1>4, <2>1 DEF DropState, memory
  <2>3. PICK S : S = Nothing
    OBVIOUS
  <2>4. World'
    BY <1>2, <2>2, <2>3, WorldOfState DEF Tasks
  <2> QED
    BY <1>1, <1>2, <2>1, <2>2, <2>4, MovesOn
<1> QED
  BY <1>3, <1>4

-----------------------------------------------------------------------------
(* Ordered: the operator's calls.                                           *)

(* Making a call changes nothing but what the call is at.                   *)
LEMMA CallMade ==
    ASSUME Ordered, NEW verb, Calls(verb), NEW t, Becomes("control", t)
    PROVE  opened /\ World' /\ UNCHANGED <<config, registry, state, stored, opened, held, built>>
<1>1. /\ opened /\ controls < Len(config.calls) /\ controls' = controls + 1
      /\ UNCHANGED <<config, registry, state, stored, opened, held, built, restarts>>
  BY DEF Calls, disk, memory
<1>2. config \in Configs /\ World
  BY OrderedFacts
<1>3. Len(config.calls) \in Nat
  BY <1>2, ReceivingAssumption
<1>4. controls' \in 0 .. Len(config.calls)
  BY <1>1, <1>2, <1>3 DEF World, TypeOK
<1>5. NoHoles'
  BY <1>1, <1>2 DEF World, NoHoles, Reached
<1>6. DOMAIN tasks' = Tasks
  BY <1>2, TaskStep DEF World, TypeOK, Tasks
<1> QED
  BY <1>1, <1>2, <1>4, <1>5, <1>6 DEF World, TypeOK, InOrder

LEMMA CallsOrdered ==
    ASSUME Ordered, Reclaim \/ \E g \in Generations : Add(g) \/ Promote(g)
    PROVE  Ordered'
<1>1. PICK t : /\ Becomes("control", t) /\ (Calls("reclaim") \/ Calls("add") \/ Calls("promote"))
               /\ \/ t = [pc |-> "reclaim", garbage |-> {g \in registry.records : slotHolding(registry.slots, g) = {}}]
                  \/ \E g \in Generations : \/ t = [pc |-> "register", target |-> g, then |-> "idle"]
                                            \/ t = [pc |-> "move", target |-> g, then |-> "idle",
                                                    turn |-> Nothing, settles |-> FALSE]
  BY DEF Reclaim, Add, Promote
<1>2. World' /\ UNCHANGED <<registry, opened>>
  BY <1>1, CallMade
<1>3. registry.records \subseteq Generations
  BY OrderedFacts
<1>4. TaskTyped("control", t) /\ t.pc \in {"reclaim", "register", "move"} /\ (t.pc # "reclaim" => t.then = "idle")
  BY <1>1, <1>3 DEF TaskTyped, Shaped, Stages, Aiming, Returning, Losing, InMove, InDrop, InAfter, InReplace, InReclaim, InOpen
<1>5. Placed(t)'
  BY <1>4 DEF Placed, InOpen, Returning, Losing, InMove, InDrop, InAfter, InReplace
<1> QED
  BY <1>1, <1>2, <1>4, <1>5, CallOrdered

(* The newest of some generations is one of them.                           *)
LEMMA NewestOf ==
    ASSUME Ordered, NEW S, S \subseteq Generations, S # {}
    PROVE  Newest(S, registry.born) \in S
<1>1. InOrder(registry)
  BY OrderedFacts
<1>2. registry.born \in [Generations -> Nat]
  BY <1>1, RegistryParts DEF InOrder
<1>3. PICK n \in Nat : \A g \in Generations : registry.born[g] <= n
  BY <1>1 DEF InOrder, Bounded
<1>4. \A g \in S : registry.born[g] \in Nat /\ registry.born[g] <= n
  BY <1>2, <1>3
<1> QED
  BY <1>4, NewestExists

(* What a call carries, and that it returns when the container is open.     *)
LEMMA Called ==
    ASSUME Ordered, NEW c, c = tasks["control"]
    PROVE  TaskTyped("control", c) /\ Placed(c) /\ World
BY OrderedFacts DEF Tasks

(* What ReclaimNext does.                                                   *)
LEMMA ReclaimsNext ==
    ASSUME Ordered, NEW c, c = tasks["control"], ReclaimNext
    PROVE  /\ c.pc = "reclaim" /\ InOrder(registry') /\ registry'.records \subseteq registry.records
           /\ canonical' = canonical
           /\ \E t : /\ Becomes("control", t) /\ TaskTyped("control", t)
                     /\ \/ t.pc = "reclaim" /\ registry' = registry
                        \/ /\ t.pc = "reclaimState" /\ t.gone \notin registry'.records
                           /\ registry'.records = registry.records \ {t.gone} /\ t.gone # canonical
<1>1. PICK g : g = Newest(c.garbage, registry.born)
  OBVIOUS
<1>2. /\ c.pc = "reclaim" /\ c.garbage # {}
      /\ registry' = IF Deletable(registry, g) THEN deleteGeneration(registry, g, TRUE) ELSE registry
      /\ Becomes("control",
           IF Deletable(registry, g)
           THEN [pc |-> "reclaimState", gone |-> g, reaps |-> Reaps(registry, g, TRUE), garbage |-> c.garbage \ {g}]
           ELSE [c EXCEPT !.garbage = @ \ {g}])
  BY <1>1 DEF ReclaimNext, At
<1>3. /\ InOrder(registry') /\ registry'.records \subseteq registry.records /\ canonical' = canonical
      /\ Deletable(registry, g) => g # canonical /\ registry'.records = registry.records \ {g}
      /\ ~Deletable(registry, g) => registry' = registry
  BY <1>2, DeletedOrKept
<1>4. c.garbage \subseteq Generations /\ {"pc", "garbage"} \subseteq DOMAIN c
  BY <1>2, Called DEF TaskTyped, Shaped, InReclaim
<1>5. g \in Generations
  BY <1>1, <1>2, <1>4, NewestOf
<1>6. CASE Deletable(registry, g)
  <2>1. PICK t : t = [pc |-> "reclaimState", gone |-> g, reaps |-> Reaps(registry, g, TRUE), garbage |-> c.garbage \ {g}]
    OBVIOUS
  <2>2. TaskTyped("control", t)
    BY <1>4, <1>5, <2>1
       DEF TaskTyped, Shaped, Stages, Aiming, Returning, Losing, InMove, InDrop, InAfter, InReplace, InReclaim, InOpen
  <2>3. t.pc = "reclaimState" /\ t.gone = g
    BY <2>1
  <2> QED
    BY <1>2, <1>3, <1>6, <2>1, <2>2, <2>3
<1>7. CASE ~Deletable(registry, g)
  <2>1. PICK t : t = [c EXCEPT !.garbage = @ \ {g}]
    OBVIOUS
  <2>2. t.pc = "reclaim" /\ t.garbage = c.garbage \ {g} /\ DOMAIN t = DOMAIN c
    BY <1>2, <1>4, <2>1
  <2>3. TaskTyped("control", t)
    BY <1>4, <2>2
       DEF TaskTyped, Shaped, Stages, Aiming, Returning, Losing, InMove, InDrop, InAfter, InReplace, InReclaim, InOpen
  <2> QED
    BY <1>2, <1>3, <1>7, <2>1, <2>2, <2>3
<1> QED
  BY <1>2, <1>3, <1>6, <1>7

(* What ReclaimState does.                                                  *)
LEMMA ReclaimsState ==
    ASSUME Ordered, NEW c, c = tasks["control"], ReclaimState
    PROVE  /\ c.pc = "reclaimState" /\ c.gone \in Generations /\ c.gone \notin registry.records
           /\ state' = [state EXCEPT ![c.gone] = Nothing]
           /\ \E t : Becomes("control", t) /\ TaskTyped("control", t) /\ t.pc = "reclaimStream" /\ t.gone = c.gone
<1>1. /\ c.pc = "reclaimState" /\ state' = [state EXCEPT ![c.gone] = Nothing]
      /\ Becomes("control", [c EXCEPT !.pc = "reclaimStream"])
  BY DEF ReclaimState, At
<1>2. PICK t : t = [c EXCEPT !.pc = "reclaimStream"]
  OBVIOUS
<1>3. TaskTyped("control", c) /\ Placed(c)
  BY Called
<1>4. /\ {"pc", "gone", "reaps", "garbage"} \subseteq DOMAIN c /\ c.gone \in Generations /\ c.garbage \subseteq Generations
      /\ c.gone \notin registry.records
  BY <1>1, <1>3 DEF TaskTyped, Shaped, Placed, InReclaim, Losing
<1>5. t.pc = "reclaimStream" /\ t.gone = c.gone /\ t.garbage = c.garbage
  BY <1>2, <1>4
<1>6. TaskTyped("control", t)
  BY <1>4, <1>5 DEF TaskTyped, Shaped, Stages, Aiming, Returning, Losing, InMove, InDrop, InAfter, InReplace, InReclaim, InOpen
<1> QED
  BY <1>1, <1>2, <1>4, <1>5, <1>6

LEMMA ReclaimingOrdered ==
    ASSUME Ordered, Reclaiming
    PROVE  Ordered'
<1>1. PICK c : c = tasks["control"]
  OBVIOUS
<1>2. /\ TaskTyped("control", c) /\ Placed(c) /\ World
      /\ held \in Seq(Generations) /\ built \subseteq Generations /\ stored \in [Streams -> Claim \cup {Nothing}]
  BY <1>1, Called, OrderedFacts
<1>3. CASE ReclaimNext
  <2>1. InOrder(registry')
    BY <1>1, <1>3, ReclaimsNext
  <2>2. PICK t : /\ Becomes("control", t) /\ TaskTyped("control", t) /\ t.pc \in {"reclaim", "reclaimState"}
                 /\ t.pc = "reclaimState" => t.gone \notin registry'.records
    BY <1>1, <1>3, ReclaimsNext
  <2>3. UNCHANGED <<config, state, stored, opened, held, built, counters>>
    BY <1>3 DEF ReclaimNext, memory
  <2>4. World'
    BY <1>2, <2>1, <2>2, <2>3, WorldOfRecords DEF Tasks, InOrder
  <2>5. Placed(t)'
    BY <2>2 DEF Placed, InOpen, Returning, Losing, InMove, InDrop, InAfter, InReplace
  <2> QED
    BY <2>2, <2>3, <2>4, <2>5, CallOrdered
<1>4. CASE ReclaimState
  <2>1. PICK t : Becomes("control", t) /\ TaskTyped("control", t) /\ t.pc = "reclaimStream" /\ t.gone = c.gone
    BY <1>1, <1>4, ReclaimsState
  <2>2. c.gone \notin registry.records /\ state' = [state EXCEPT ![c.gone] = Nothing]
    BY <1>1, <1>4, ReclaimsState
  <2>3. UNCHANGED <<config, registry, stored, opened, held, built, counters>>
    BY <1>4 DEF ReclaimState, memory
  <2>4. PICK S : S = Nothing
    OBVIOUS
  <2>5. World'
    BY <1>2, <2>1, <2>2, <2>3, <2>4, WorldOfState DEF Tasks
  <2>6. Placed(t)'
    BY <2>1, <2>2, <2>3 DEF Placed, InOpen, Returning, Losing, InMove, InDrop, InAfter, InReplace
  <2> QED
    BY <2>1, <2>3, <2>5, <2>6, CallOrdered
<1>5. CASE ReclaimStream
  <2>1. PICK t : t = [pc |-> "reclaim", garbage |-> c.garbage]
    OBVIOUS
  <2>2. /\ c.pc = "reclaimStream" /\ Becomes("control", t) /\ UNCHANGED <<config, registry, state, opened, counters>>
        /\ stored' = IF c.reaps THEN [stored EXCEPT ![StreamOf[c.gone]] = Nothing] ELSE stored
        /\ held' = Unheld(held, c.gone) /\ built' = built \ {c.gone}
    BY <1>1, <1>5, <2>1 DEF ReclaimStream, At
  <2>3. held' \in Seq(Generations) /\ built' \subseteq Generations
    BY <1>2, <2>2, Spliced
  <2>4. stored' \in [Streams -> Claim \cup {Nothing}]
    BY <1>2, <2>2
  <2>5. NoHoles'
    BY <1>2, <2>2 DEF World, NoHoles, Reached
  <2>6. World'
    BY <1>2, <2>2, <2>3, <2>4, <2>5, WorldStep DEF World, TypeOK, Tasks
  <2>7. c.garbage \subseteq Generations
    BY <1>2, <2>2 DEF TaskTyped, InReclaim
  <2>8. TaskTyped("control", t) /\ t.pc = "reclaim"
    BY <2>1, <2>7
       DEF TaskTyped, Shaped, Stages, Aiming, Returning, Losing, InMove, InDrop, InAfter, InReplace, InReclaim, InOpen
  <2>9. Placed(t)'
    BY <2>8 DEF Placed, InOpen, Returning, Losing, InMove, InDrop, InAfter, InReplace
  <2> QED
    BY <2>2, <2>6, <2>8, <2>9, CallOrdered
<1>6. CASE Reclaimed
  <2>1. PICK t : t = Idle
    OBVIOUS
  <2>2. Becomes("control", t) /\ UNCHANGED <<config, disk, memory, counters>>
    BY <1>6, <2>1 DEF Reclaimed
  <2>3. TaskTyped("control", t) /\ t.pc = "idle"
    BY <2>1, Continued DEF Continue, Idle
  <2>4. Placed(t)'
    BY <2>3 DEF Placed, InOpen, Returning, Losing, InMove, InDrop, InAfter, InReplace
  <2>5. World'
    BY <1>2, <2>2, WorldStays DEF Tasks
  <2> QED
    BY <2>2, <2>3, <2>4, <2>5, CallOrdered DEF memory
<1> QED
  BY <1>3, <1>4, <1>5, <1>6 DEF Reclaiming

-----------------------------------------------------------------------------
(* Ordered: an upload, and the generation a process is started with.        *)

(* What an add in progress carries.                                         *)
LEMMA Adds ==
    ASSUME Ordered, NEW c, c = tasks["control"], c.pc \in InReplace \cup {"register", "policy"}
    PROVE  /\ c.target \in Generations /\ c.then \in {"idle", "foldCanonical", "ready"} /\ (opened => c.then = "idle")
           /\ c.pc \in InReplace => c.displaced \subseteq Generations \ {c.target}
           /\ c.pc = "replaceState" => c.gone \in Generations /\ c.gone \notin registry.records
BY Called DEF TaskTyped, Placed, Aiming, Returning, Losing, InReplace

(* A task of an add is typed and in place.                                  *)
LEMMA AddsOn ==
    ASSUME NEW t, t.pc \in InReplace \cup {"register", "policy", "settle", "move"}, Shaped(t),
           t.pc # "settle" => t.target \in Generations,
           t.then \in {"idle", "foldCanonical", "ready"}, opened' => t.then = "idle",
           t.pc \in InReplace => t.displaced \subseteq Generations \ {t.target},
           t.pc = "replaceState" => t.gone \in Generations /\ t.gone \notin registry'.records
    PROVE  TaskTyped("control", t) /\ Placed(t)'
<1>1. TaskTyped("control", t)
  BY DEF TaskTyped, Stages, Aiming, Returning, Losing, InMove, InDrop, InAfter, InReplace, InReclaim, InOpen
<1>2. Placed(t)'
  BY DEF Placed, InOpen, Losing, InReplace
<1> QED
  BY <1>1, <1>2

LEMMA RegisterOrdered ==
    ASSUME Ordered, Register
    PROVE  Ordered'
<1>1. PICK c : c = tasks["control"]
  OBVIOUS
<1>2. PICK t : t = [pc |-> "replace", target |-> c.target, then |-> c.then, fold |-> Builds(c.target),
                    displaced |-> displacedBySuccessor(c.target, registry, Held)]
  OBVIOUS
<1>3. /\ c.pc = "register" /\ state' = IF Builds(c.target) THEN Migrated(c.target) ELSE state
      /\ Becomes("control", t) /\ UNCHANGED <<config, registry, stored, opened, held, built, counters>>
  BY <1>1, <1>2 DEF Register, At, memory
<1>4. c.target \in Generations /\ c.then \in {"idle", "foldCanonical", "ready"} /\ (opened => c.then = "idle")
  BY <1>1, <1>3, Adds
<1>5. World /\ held \in Seq(Generations) /\ built \subseteq Generations /\ registry.records \subseteq Generations
  BY OrderedFacts
<1>6. displacedBySuccessor(c.target, registry, Held) \subseteq Generations \ {c.target}
  BY <1>5 DEF displacedBySuccessor
<1>7. TaskTyped("control", t) /\ Placed(t)'
  <2>1. t.pc = "replace" /\ t.target = c.target /\ t.then = c.then /\ t.displaced \subseteq Generations \ {t.target}
    BY <1>2, <1>6
  <2>2. Shaped(t)
    BY <1>2 DEF Shaped, InMove
  <2> QED
    BY <1>3, <1>4, <2>1, <2>2, AddsOn DEF InReplace
<1>8. World'
  <2>1. CASE state' = state
    BY <1>3, <1>5, <2>1, WorldStays DEF disk, memory, Tasks
  <2>2. CASE state' = Migrated(c.target)
    <3>1. PICK S : state' = [state EXCEPT ![c.target] = S] /\ \E n \in 0 .. MaxBlock : S = 1 .. n
      BY <1>4, <1>5, <2>2, MigratedState
    <3> QED
      BY <1>3, <1>5, <3>1, WorldOfState DEF Tasks
  <2> QED
    BY <1>3, <2>1, <2>2
<1> QED
  BY <1>3, <1>7, <1>8, CallOrdered

(* What Replace does.                                                       *)
LEMMA Replaces ==
    ASSUME Ordered, NEW c, c = tasks["control"], Replace
    PROVE  /\ c.pc = "replace" /\ InOrder(registry') /\ registry'.records \subseteq registry.records
           /\ canonical' = canonical
           /\ \E t : /\ Becomes("control", t) /\ Shaped(t)
                     /\ t.target = c.target /\ t.then = c.then /\ t.fold = c.fold
                     /\ t.displaced \subseteq Generations \ {c.target}
                     /\ \/ t.pc = "replace" /\ registry' = registry
                        \/ /\ t.pc = "replaceState" /\ t.gone \in Generations \ {c.target}
                           /\ registry'.records = registry.records \ {t.gone} /\ t.gone # canonical
<1>1. PICK g : g = Newest(c.displaced, registry.born)
  OBVIOUS
<1>2. /\ c.pc = "replace" /\ c.displaced # {}
      /\ registry' = IF Deletable(registry, g) THEN deleteGeneration(registry, g, FALSE) ELSE registry
      /\ Becomes("control",
           IF Deletable(registry, g)
           THEN [pc |-> "replaceState", gone |-> g, displaced |-> c.displaced \ {g},
                 target |-> c.target, then |-> c.then, fold |-> c.fold]
           ELSE [c EXCEPT !.displaced = @ \ {g}])
  BY <1>1 DEF Replace, At
<1>3. /\ InOrder(registry') /\ registry'.records \subseteq registry.records /\ canonical' = canonical
      /\ Deletable(registry, g) => g # canonical /\ registry'.records = registry.records \ {g}
      /\ ~Deletable(registry, g) => registry' = registry
  BY <1>2, DeletedOrKept
<1>4. c.displaced \subseteq Generations \ {c.target} /\ {"pc", "target", "then", "fold", "displaced"} \subseteq DOMAIN c
  BY <1>2, Called DEF TaskTyped, Shaped, InReplace
<1>5. g \in Generations \ {c.target}
  BY <1>1, <1>2, <1>4, NewestOf
<1>6. CASE Deletable(registry, g)
  <2>1. PICK t : t = [pc |-> "replaceState", gone |-> g, displaced |-> c.displaced \ {g},
                      target |-> c.target, then |-> c.then, fold |-> c.fold]
    OBVIOUS
  <2>2. /\ t.pc = "replaceState" /\ t.gone = g /\ t.displaced = c.displaced \ {g}
        /\ t.target = c.target /\ t.then = c.then /\ t.fold = c.fold
    BY <2>1
  <2>3. Shaped(t)
    BY <2>2 DEF Shaped, InMove
  <2> QED
    BY <1>2, <1>3, <1>4, <1>5, <1>6, <2>1, <2>2, <2>3
<1>7. CASE ~Deletable(registry, g)
  <2>1. PICK t : t = [c EXCEPT !.displaced = @ \ {g}]
    OBVIOUS
  <2>2. /\ t.pc = "replace" /\ t.displaced = c.displaced \ {g} /\ DOMAIN t = DOMAIN c
        /\ t.target = c.target /\ t.then = c.then /\ t.fold = c.fold
    BY <1>2, <1>4, <2>1
  <2>3. Shaped(t)
    BY <1>4, <2>2 DEF Shaped, InMove
  <2> QED
    BY <1>2, <1>3, <1>4, <1>7, <2>1, <2>2, <2>3
<1> QED
  BY <1>2, <1>3, <1>6, <1>7

LEMMA ReplaceOrdered ==
    ASSUME Ordered, Replace
    PROVE  Ordered'
<1>1. PICK c : c = tasks["control"]
  OBVIOUS
<1>2. c.pc = "replace" /\ InOrder(registry')
  BY <1>1, Replaces
<1>3. PICK t : /\ Becomes("control", t) /\ Shaped(t) /\ t.pc \in InReplace /\ t.target = c.target /\ t.then = c.then
               /\ t.displaced \subseteq Generations \ {c.target}
               /\ t.pc = "replaceState" => t.gone \in Generations /\ t.gone \notin registry'.records
  BY <1>1, Replaces DEF InReplace
<1>4. UNCHANGED <<config, state, stored, opened, held, built, counters>>
  BY DEF Replace, memory
<1>5. World'
  BY <1>2, <1>3, <1>4, OrderedFacts, WorldOfRecords DEF Tasks, InOrder
<1>6. c.target \in Generations /\ c.then \in {"idle", "foldCanonical", "ready"} /\ (opened => c.then = "idle")
  BY <1>1, <1>2, Adds DEF InReplace
<1>7. TaskTyped("control", t) /\ Placed(t)'
  BY <1>3, <1>4, <1>6, AddsOn
<1> QED
  BY <1>3, <1>4, <1>5, <1>7, CallOrdered

LEMMA ReplaceStateOrdered ==
    ASSUME Ordered, ReplaceState
    PROVE  Ordered'
<1>1. PICK c : c = tasks["control"]
  OBVIOUS
<1>2. PICK t : t = [pc |-> "replace", displaced |-> c.displaced, target |-> c.target, then |-> c.then, fold |-> c.fold]
  OBVIOUS
<1>3. /\ c.pc = "replaceState" /\ state' = [state EXCEPT ![c.gone] = Nothing] /\ Becomes("control", t)
      /\ held' = Unheld(held, c.gone) /\ built' = built \ {c.gone}
      /\ UNCHANGED <<config, registry, stored, opened, counters>>
  BY <1>1, <1>2 DEF ReplaceState, At
<1>4. held' \in Seq(Generations) /\ built' \subseteq Generations /\ World
  BY <1>3, OrderedFacts, Spliced
<1>5. PICK S : S = Nothing
  OBVIOUS
<1>6. World'
  BY <1>3, <1>4, <1>5, WorldOfState DEF Tasks
<1>7. /\ c.target \in Generations /\ c.then \in {"idle", "foldCanonical", "ready"} /\ (opened => c.then = "idle")
      /\ c.displaced \subseteq Generations \ {c.target}
  BY <1>1, <1>3, Adds DEF InReplace
<1>8. t.pc = "replace" /\ t.target = c.target /\ t.then = c.then /\ t.displaced = c.displaced /\ Shaped(t)
  BY <1>2 DEF Shaped, InMove
<1>9. TaskTyped("control", t) /\ Placed(t)'
  BY <1>3, <1>7, <1>8, AddsOn DEF InReplace
<1> QED
  BY <1>3, <1>6, <1>9, CallOrdered

LEMMA CreateOrdered ==
    ASSUME Ordered, Create
    PROVE  Ordered'
<1>1. PICK c : c = tasks["control"]
  OBVIOUS
<1>2. PICK t : t = [pc |-> "policy", target |-> c.target, then |-> c.then]
  OBVIOUS
<1>3. /\ c.pc = "replace" /\ registry' = Created(registry, c.target, "successor") /\ Becomes("control", t)
      /\ held' = IF c.fold THEN Append(held, c.target) ELSE held
      /\ UNCHANGED <<config, state, stored, opened, built, counters>>
  BY <1>1, <1>2 DEF Create, At
<1>4. c.target \in Generations /\ c.then \in {"idle", "foldCanonical", "ready"} /\ (opened => c.then = "idle")
  BY <1>1, <1>3, Adds DEF InReplace
<1>5. World /\ InOrder(registry) /\ held \in Seq(Generations) /\ built \subseteq Generations
  BY OrderedFacts
<1>6. held' \in Seq(Generations) /\ InOrder(registry')
  BY <1>3, <1>4, <1>5, Taken, CreatedInOrder
<1>7. World'
  BY <1>3, <1>5, <1>6, WorldOfRecords DEF Tasks, InOrder
<1>8. t.pc = "policy" /\ t.target = c.target /\ t.then = c.then /\ Shaped(t)
  BY <1>2 DEF Shaped, InMove
<1>9. TaskTyped("control", t) /\ Placed(t)'
  BY <1>3, <1>4, <1>8, AddsOn DEF InReplace
<1> QED
  BY <1>3, <1>7, <1>9, CallOrdered

LEMMA PolicyOrdered ==
    ASSUME Ordered, RefuseAtCap \/ ApplyPolicy
    PROVE  Ordered'
<1>1. PICK c : c = tasks["control"]
  OBVIOUS
<1>2. /\ c.pc \in {"replace", "policy"} /\ UNCHANGED <<config, disk, memory, counters>>
  BY <1>1 DEF RefuseAtCap, ApplyPolicy, At
<1>3. PICK t : /\ Becomes("control", t)
               /\ \/ t = Continue("idle") \/ t = Continue(c.then) \/ t = [pc |-> "settle", then |-> c.then]
                  \/ t = [pc |-> "move", target |-> c.target, then |-> c.then, turn |-> Nothing, settles |-> FALSE]
  BY <1>1 DEF RefuseAtCap, ApplyPolicy, Continue
<1>4. c.target \in Generations /\ c.then \in {"idle", "foldCanonical", "ready"} /\ (opened => c.then = "idle")
  BY <1>1, <1>2, Adds DEF InReplace
<1>5. World' /\ opened' = opened
  BY <1>2, <1>3, OrderedFacts, WorldStays DEF Tasks, memory
<1>6. TaskTyped("control", t) /\ Placed(t)'
  <2>1. ASSUME NEW then \in {"idle", c.then}, t = Continue(then)
        PROVE  TaskTyped("control", t) /\ Placed(t)'
    <3>1. TaskTyped("control", t) /\ t.pc = then
      BY <1>4, <2>1, Continued
    <3> QED
      BY <1>4, <1>5, <3>1 DEF Placed, InOpen, Returning, Losing, InMove, InDrop, InAfter, InReplace
  <2>2. CASE t = [pc |-> "settle", then |-> c.then]
    <3>1. t.pc = "settle" /\ t.then = c.then /\ Shaped(t)
      BY <2>2 DEF Shaped, InMove
    <3> QED
      BY <1>4, <1>5, <3>1, AddsOn DEF InReplace
  <2>3. CASE t = [pc |-> "move", target |-> c.target, then |-> c.then, turn |-> Nothing, settles |-> FALSE]
    <3>1. t.pc = "move" /\ t.then = c.then /\ t.target = c.target /\ Shaped(t)
      BY <2>3 DEF Shaped, InMove
    <3> QED
      BY <1>4, <1>5, <3>1, AddsOn DEF InReplace
  <2> QED
    BY <1>3, <2>1, <2>2, <2>3
<1> QED
  BY <1>3, <1>5, <1>6, CallOrdered

-----------------------------------------------------------------------------
(* Ordered: open, and a process that dies.                                  *)

(* A task of an open is typed and in place while the container is closed.   *)
LEMMA OpensOn ==
    ASSUME NEW t, t.pc \in {"foldCanonical", "foldSuccessor", "ready"}, ~opened'
    PROVE  TaskTyped("control", t) /\ Placed(t)'
BY DEF TaskTyped, Shaped, Placed, Stages, Aiming, Returning, Losing, InMove, InDrop, InAfter, InReplace, InReclaim, InOpen

LEMMA OpenOrdered ==
    ASSUME Ordered, OpenWithNothing \/ \E g \in Generations : OpenWith(g)
    PROVE  Ordered'
<1>1. /\ ~opened /\ stored' = Swept /\ held' = <<>> /\ built' = {}
      /\ UNCHANGED <<config, registry, state, opened, counters>>
  BY DEF OpenWith, OpenWithNothing
<1>2. PICK t : /\ Becomes("control", t)
               /\ \/ t = [pc |-> "foldCanonical"]
                  \/ \E g \in Generations : \/ t = [pc |-> "register", target |-> g, then |-> "foldCanonical"]
                                            \/ /\ canonical = g /\ successor # Nothing
                                               /\ t = [pc |-> "discard", target |-> g]
  BY DEF OpenWith, OpenWithNothing
<1>3. World /\ stored \in [Streams -> Claim \cup {Nothing}] /\ successor \in registry.records \cup {Nothing}
      /\ registry.records \subseteq Generations
  BY OrderedFacts
<1>4. stored' \in [Streams -> Claim \cup {Nothing}] /\ held' \in Seq(Generations)
  BY <1>1, <1>3 DEF Swept
<1>5. NoHoles'
  BY <1>1, <1>3 DEF World, NoHoles, Reached
<1>6. World'
  BY <1>1, <1>2, <1>3, <1>4, <1>5, WorldStep DEF World, TypeOK, Tasks
<1>7. TaskTyped("control", t) /\ Placed(t)'
  <2>1. CASE t = [pc |-> "foldCanonical"]
    BY <1>1, <2>1, OpensOn
  <2>2. ASSUME NEW g \in Generations, t = [pc |-> "register", target |-> g, then |-> "foldCanonical"]
        PROVE  TaskTyped("control", t) /\ Placed(t)'
    <3>1. t.pc = "register" /\ t.target = g /\ t.then = "foldCanonical" /\ Shaped(t)
      BY <2>2 DEF Shaped, InMove
    <3> QED
      BY <1>1, <3>1, AddsOn DEF InReplace
  <2>3. ASSUME NEW g \in Generations, canonical = g, successor # Nothing, t = [pc |-> "discard", target |-> g]
        PROVE  TaskTyped("control", t) /\ Placed(t)'
    <3>1. TaskTyped("control", t)
      BY <2>3 DEF TaskTyped, Shaped, Stages, Aiming, Returning, Losing, InMove, InDrop, InAfter, InReplace, InReclaim, InOpen
    <3>2. t.pc = "discard" /\ t.target = canonical' /\ successor' \in Generations
      BY <1>1, <1>3, <2>3 DEF canonical, successor
    <3> QED
      BY <1>1, <3>1, <3>2 DEF Placed, Losing
  <2> QED
    BY <1>2, <2>1, <2>2, <2>3
<1> QED
  BY <1>1, <1>2, <1>6, <1>7, CallOrdered

(* What DiscardPending does.                                                *)
LEMMA Discards ==
    ASSUME Ordered, DiscardPending
    PROVE  /\ At("control", "discard") /\ ~opened /\ held = <<>> /\ InOrder(registry')
           /\ registry'.records = registry.records \ {successor}
           /\ canonical \in Generations /\ successor \in Generations /\ canonical' = canonical
           /\ Becomes("control", [pc |-> "discardState", target |-> canonical, gone |-> successor])
<1>1. PICK c : c = tasks["control"]
  OBVIOUS
<1>2. /\ c.pc = "discard" /\ registry' = deleteGeneration(registry, successor, FALSE)
      /\ Becomes("control", [pc |-> "discardState", target |-> c.target, gone |-> successor])
  BY <1>1 DEF DiscardPending, At
<1>3. c.target = canonical /\ successor \in Generations /\ held = <<>> /\ ~opened /\ c.target \in Generations
  BY <1>1, <1>2, Called DEF Placed, TaskTyped, InOpen, Aiming
<1>4. InOrder(registry) /\ successor \in registry.records
  BY <1>3, OrderedFacts
<1>5. successor # canonical
  BY <1>3, <1>4, GenerationsAssumption DEF InOrder, SlotsSound, SlotNames, canonical, successor
<1>6. Deletable(registry, successor)
  BY <1>4, <1>5 DEF Deletable, canonical
<1>7. InOrder(registry') /\ registry'.records = registry.records \ {successor} /\ canonical' = canonical
  BY <1>2, <1>4, <1>6, DeletedInOrder DEF canonical
<1> QED
  BY <1>1, <1>2, <1>3, <1>7 DEF At

LEMMA DiscardOrdered ==
    ASSUME Ordered, DiscardPending \/ DiscardState
    PROVE  Ordered'
<1>1. PICK c : c = tasks["control"]
  OBVIOUS
<1>2. World /\ held \in Seq(Generations) /\ built \subseteq Generations
  BY OrderedFacts
<1>3. CASE DiscardPending
  <2>1. PICK t : t = [pc |-> "discardState", target |-> canonical, gone |-> successor]
    OBVIOUS
  <2>2. UNCHANGED <<config, state, stored, opened, held, built, counters>>
    BY <1>3 DEF DiscardPending, memory
  <2>3. World'
    BY <1>2, <1>3, <2>2, Discards, WorldOfRecords DEF Tasks, InOrder
  <2>4. TaskTyped("control", t)
    BY <1>3, <2>1, Discards
       DEF TaskTyped, Shaped, Stages, Aiming, Returning, Losing, InMove, InDrop, InAfter, InReplace, InReclaim, InOpen
  <2>5. t.pc = "discardState" /\ t.gone \notin registry'.records /\ ~opened' /\ held' = <<>>
    BY <1>3, <2>1, <2>2, Discards
  <2>6. Placed(t)'
    BY <2>5 DEF Placed, Losing
  <2> QED
    BY <1>3, <2>1, <2>2, <2>3, <2>4, <2>6, Discards, CallOrdered
<1>4. CASE DiscardState
  <2>1. PICK t : t = [pc |-> "register", target |-> c.target, then |-> "foldCanonical"]
    OBVIOUS
  <2>2. /\ c.pc = "discardState" /\ state' = [state EXCEPT ![c.gone] = Nothing] /\ Becomes("control", t)
        /\ UNCHANGED <<config, registry, stored, opened, held, built, counters>>
    BY <1>1, <1>4, <2>1 DEF DiscardState, At, memory
  <2>3. PICK S : S = Nothing
    OBVIOUS
  <2>4. World'
    BY <1>2, <2>2, <2>3, WorldOfState DEF Tasks
  <2>5. c.target \in Generations /\ ~opened
    BY <1>1, <2>2, Called DEF Placed, TaskTyped, InOpen, Aiming
  <2>6. t.pc = "register" /\ t.target = c.target /\ t.then = "foldCanonical" /\ Shaped(t)
    BY <2>1 DEF Shaped, InMove
  <2>7. TaskTyped("control", t) /\ Placed(t)'
    BY <2>2, <2>5, <2>6, AddsOn DEF InReplace
  <2> QED
    BY <2>2, <2>4, <2>7, CallOrdered
<1> QED
  BY <1>3, <1>4

(* What InstantiateAtOpen does.                                             *)
LEMMA FoldedAtOpen ==
    ASSUME Ordered, NEW g \in registry.records \cup {Nothing}, NEW t, InstantiateAtOpen(g, t),
           UNCHANGED <<config, registry, stored, opened, counters>>
    PROVE  /\ World' /\ Becomes("control", t)
           /\ \/ state' = state /\ held' = held
              \/ g \in registry.records /\ g \notin Held /\ state' = Migrated(g) /\ held' = Append(held, g)
<1>1. /\ World /\ held \in Seq(Generations) /\ built \subseteq Generations /\ registry.records \subseteq Generations
      /\ Nothing \notin Generations
  BY OrderedFacts
<1>2. Becomes("control", t)
  BY DEF InstantiateAtOpen
<1>3. CASE config.instantiates /\ g \notin Held \cup {Nothing}
  <2>1. state' = Migrated(g) /\ held' = Append(held, g) /\ built' = built \cup {g} /\ g \in registry.records
    BY <1>3 DEF InstantiateAtOpen
  <2>2. held' \in Seq(Generations) /\ built' \subseteq Generations /\ g \in Generations
    BY <1>1, <2>1, Taken
  <2>3. PICK S : state' = [state EXCEPT ![g] = S] /\ \E n \in 0 .. MaxBlock : S = 1 .. n
    BY <1>1, <2>1, <2>2, MigratedState
  <2>4. World'
    BY <1>1, <1>2, <2>2, <2>3, WorldOfState DEF Tasks
  <2> QED
    BY <1>2, <1>3, <2>1, <2>4
<1>4. CASE ~(config.instantiates /\ g \notin Held \cup {Nothing})
  <2>1. UNCHANGED <<state, held, built>>
    BY <1>4 DEF InstantiateAtOpen
  <2>2. World'
    BY <1>1, <1>2, <2>1, WorldStays DEF Tasks, disk, memory
  <2> QED
    BY <1>2, <2>1, <2>2
<1> QED
  BY <1>3, <1>4

LEMMA FoldOrdered ==
    ASSUME Ordered, FoldTheCanonical \/ FoldTheSuccessor
    PROVE  Ordered'
<1>1. PICK c : c = tasks["control"]
  OBVIOUS
<1>2. c.pc \in {"foldCanonical", "foldSuccessor"} /\ UNCHANGED <<config, registry, stored, opened, counters>>
  BY <1>1 DEF FoldTheCanonical, FoldTheSuccessor, At
<1>3. /\ ~opened /\ canonical \in registry.records \cup {Nothing} /\ successor \in registry.records \cup {Nothing}
      /\ registry.records \subseteq Generations
  BY <1>1, <1>2, Called, OrderedFacts DEF Placed, InOpen
<1>4. CASE FoldTheCanonical
  <2>1. PICK t : t = [pc |-> "foldSuccessor"]
    OBVIOUS
  <2>2. World' /\ Becomes("control", t)
    BY <1>2, <1>3, <1>4, <2>1, FoldedAtOpen DEF FoldTheCanonical
  <2>3. TaskTyped("control", t) /\ Placed(t)'
    BY <1>2, <1>3, <2>1, OpensOn
  <2> QED
    BY <1>2, <2>2, <2>3, CallOrdered
<1>5. CASE FoldTheSuccessor
  <2>1. PICK t : /\ InstantiateAtOpen(successor, t)
                 /\ \/ t = [pc |-> "ready"]
                    \/ /\ successor # Nothing
                       /\ t = [pc |-> "policy", target |-> successor, then |-> "ready"]
    BY <1>5 DEF FoldTheSuccessor
  <2>2. World' /\ Becomes("control", t)
    BY <1>2, <1>3, <2>1, FoldedAtOpen
  <2>3. TaskTyped("control", t) /\ Placed(t)'
    <3>1. CASE t = [pc |-> "ready"]
      BY <1>2, <1>3, <3>1, OpensOn
    <3>2. CASE successor # Nothing /\ t = [pc |-> "policy", target |-> successor, then |-> "ready"]
      <4>1. t.pc = "policy" /\ t.target \in Generations /\ t.then = "ready" /\ Shaped(t)
        BY <1>3, <3>2 DEF Shaped, InMove
      <4> QED
        BY <1>2, <1>3, <4>1, AddsOn DEF InReplace
    <3> QED
      BY <2>1, <3>1, <3>2
  <2> QED
    BY <1>2, <2>2, <2>3, CallOrdered
<1> QED
  BY <1>4, <1>5

LEMMA UnfoldedOrdered ==
    ASSUME Ordered, InstantiationFailsAtOpen
    PROVE  Ordered'
<1>1. PICK t : Becomes("control", t) /\ (t = [pc |-> "foldSuccessor"] \/ t = [pc |-> "ready"])
  BY DEF InstantiationFailsAtOpen
<1>2. UNCHANGED <<config, disk, memory, counters>> /\ (At("control", "foldCanonical") \/ At("control", "foldSuccessor"))
  BY DEF InstantiationFailsAtOpen
<1>3. ~opened /\ opened' = opened
  BY <1>2, Called DEF Placed, InOpen, At, memory
<1>4. World'
  BY <1>1, <1>2, OrderedFacts, WorldStays DEF Tasks
<1>5. TaskTyped("control", t) /\ Placed(t)'
  BY <1>1, <1>3, OpensOn
<1> QED
  BY <1>1, <1>3, <1>4, <1>5, CallOrdered

(* Every task is idle.                                                      *)
LEMMA IdleTyped ==
    /\ \A p \in Tasks : TaskTyped(p, Idle)
    /\ Placed(Idle) /\ Placed(Idle)'
<1>1. \A p \in Tasks : TaskTyped(p, Idle)
  BY DEF Tasks, Idle, TaskTyped, Shaped, Stages, Aiming, Returning, Losing, InMove, InDrop, InAfter, InReplace, InReclaim, InOpen
<1>2. Placed(Idle) /\ Placed(Idle)'
  BY DEF Idle, Placed, InOpen, Returning, Losing, InMove, InDrop, InAfter, InReplace
<1> QED
  BY <1>1, <1>2

LEMMA OpenedOrdered ==
    ASSUME Ordered, Opened
    PROVE  Ordered'
<1>1. /\ opened' = TRUE /\ Becomes("control", Idle) /\ UNCHANGED <<config, registry, state, stored, held, built, counters>>
  BY DEF Opened, disk
<1>2. World /\ DOMAIN tasks = Tasks /\ \A p \in Tasks : TaskTyped(p, tasks[p])
  BY OrderedFacts
<1>3. NoHoles'
  BY <1>1, <1>2 DEF World, NoHoles, Reached
<1>4. World'
  BY <1>1, <1>2, <1>3, WorldStep DEF World, TypeOK, Tasks
<1>5. tasks'["control"] = Idle /\ \A q \in Tasks \ {"control"} : tasks'[q] = tasks[q]
  BY <1>1, <1>2, TaskStep DEF Tasks
<1>6. \A p \in Tasks : TaskTyped(p, tasks'[p])
  BY <1>2, <1>5, IdleTyped
<1>7. Placed(tasks["control"])'
  BY <1>5, IdleTyped
<1> QED
  BY <1>1, <1>4, <1>6, <1>7 DEF Ordered, Shut

LEMMA RestartOrdered ==
    ASSUME Ordered, Restart
    PROVE  Ordered'
<1>1. /\ restarts < config.restarts /\ restarts' = restarts + 1 /\ opened' = FALSE /\ held' = <<>> /\ built' = {}
      /\ tasks' = [p \in Tasks |-> Idle] /\ UNCHANGED <<config, registry, state, stored, controls>>
  BY DEF Restart, disk
<1>2. World /\ config \in Configs
  BY OrderedFacts
<1>3. config.restarts \in Nat
  BY <1>2, ReceivingAssumption
<1>4. NoHoles'
  BY <1>1, <1>2 DEF World, NoHoles, Reached
<1>5. restarts' \in 0 .. config.restarts
  BY <1>1, <1>2, <1>3 DEF World, TypeOK
<1>6. World'
  <2>1. DOMAIN tasks' = Tasks /\ held' \in Seq(Generations) /\ built' \subseteq Generations /\ opened' \in BOOLEAN
    <3>1. DOMAIN tasks' = Tasks
      BY <1>1, Zenon
    <3>2. opened' \in BOOLEAN
      BY <1>1, Zenon
    <3>3. held' \in Seq(Generations) /\ built' \subseteq Generations
      BY <1>1
    <3> QED
      BY <3>1, <3>2, <3>3
  <2>2. restarts' \in 0 .. config'.restarts /\ controls' \in 0 .. Len(config'.calls)
    BY <1>1, <1>2, <1>5 DEF World, TypeOK
  <2>3. TypeOK'
    BY <1>1, <1>2, <2>1, <2>2 DEF World, TypeOK
  <2>4. InOrder(registry)'
    BY <1>1, <1>2 DEF World, InOrder
  <2> QED
    BY <1>4, <2>3, <2>4 DEF World
<1>7. \A p \in Tasks : TaskTyped(p, tasks'[p])
  BY <1>1, IdleTyped
<1>8. Placed(tasks["control"])' /\ Shut'
  <2>1. tasks'["control"] = Idle /\ tasks'["loop"] = Idle /\ tasks'["ingest"] = Idle
    BY <1>1 DEF Tasks
  <2> QED
    BY <2>1, IdleTyped DEF Shut, At, Idle
<1> QED
  BY <1>6, <1>7, <1>8 DEF Ordered

(* A step that changes nothing.                                             *)
LEMMA OrderedStutters ==
    ASSUME Ordered, UNCHANGED vars
    PROVE  Ordered'
<1>1. UNCHANGED <<config, registry, state, stored, opened, held, built, tasks, controls, restarts>>
  BY DEF vars, disk, memory, counters
<1> QED
  BY <1>1 DEF Ordered, World, TypeOK, NoHoles, Reached, Placed, canonical, successor, Shut, At

LEMMA OrderedStep ==
    ASSUME Ordered, [Next]_vars
    PROVE  Ordered'
<1>1. CASE Ingesting
  BY <1>1, ReceiveOrdered, AppendOrdered, DeliverOrdered DEF Ingesting
<1>2. CASE Looping
  BY <1>2, RebuildOrdered, ChunkOrdered DEF Looping
<1>3. ASSUME NEW p \in {"loop", "control"}, Moving(p) \/ InstantiationFails(p) \/ KeepFolding(p)
      PROVE  Ordered'
  BY <1>3, SettleOrdered, LevelOrdered, MoveOrdered, InstantiateOrdered, CommitOrdered, AfterOrdered,
           LetGoOrdered, DropOrdered DEF Moving
<1>4. CASE Calling
  BY <1>4, CallsOrdered, OpenOrdered DEF Calling
<1>5. CASE Adding
  BY <1>5, RegisterOrdered, ReplaceOrdered, ReplaceStateOrdered, CreateOrdered, PolicyOrdered DEF Adding
<1>6. CASE Reclaiming
  BY <1>6, ReclaimingOrdered
<1>7. CASE Opening
  BY <1>7, DiscardOrdered, FoldOrdered, OpenedOrdered DEF Opening
<1>8. CASE InstantiationFailsAtOpen \/ Restart \/ UNCHANGED vars
  BY <1>8, UnfoldedOrdered, RestartOrdered, OrderedStutters
<1> QED
  BY <1>1, <1>2, <1>3, <1>4, <1>5, <1>6, <1>7, <1>8 DEF Next

-----------------------------------------------------------------------------
(* Calm: one task at a time is in the middle of a change to the slots.      *)

(* While one task is in such a stage, the other is not.                     *)
Alone(p) == \A q \in {"loop", "control"} \ {p} : tasks[q].pc \in Passive

(* Stages that carry nothing that another step could make untrue.           *)
Settled == Passive \cup InOpen \cup InReclaim \cup {"register", "policy"}

LEMMA SettledCarries ==
    ASSUME NEW p, NEW t, t.pc \in Settled
    PROVE  Carries(t) /\ Settles(p, t) /\ Carries(t)' /\ Settles(p, t)'
<1>1. t.pc \notin InDrop \cup InMove \cup InAfter \cup InReplace \cup {"level"}
  BY DEF Settled, Passive, InOpen, InReclaim, InDrop, InMove, InAfter, InReplace
<1>2. Carries(t) /\ Carries(t)'
  BY <1>1 DEF Carries, InDrop, InMove, InAfter, InReplace
<1>3. Settles(p, t) /\ Settles(p, t)'
  BY <1>1 DEF Settles
<1> QED
  BY <1>2, <1>3

LEMMA AloneInStage ==
    ASSUME Calm, NEW p \in {"loop", "control"}, tasks[p].pc \notin Passive
    PROVE  Alone(p)
BY DEF Calm, Apart, Alone

(* A container that is closed has no loop to be apart from.                 *)
LEMMA AloneWhenShut ==
    ASSUME Ordered, ~opened
    PROVE  Alone("control")
BY DEF Ordered, Shut, At, Alone, Passive

LEMMA AloneWhenMaking ==
    ASSUME NEW p \in {"loop", "control"}, ~config.racing, MayMove(p)
    PROVE  Alone(p)
BY DEF MayMove, Alone, Passive, Tasks

(* What a task that is alone relies on.                                     *)
LEMMA CalmFacts ==
    ASSUME Ordered, Calm, NEW p \in {"loop", "control"}, Alone(p), NEW c, c = tasks[p]
    PROVE  /\ Once(held) /\ HasState(c) /\ Driven(c) /\ Carries(c) /\ Settles(p, c)
           /\ \A g \in registry.records : state[g] # Nothing
           /\ c.pc \notin Losing => \A g \in Held : g \in registry.records
<1>1. /\ Once(held) /\ HasState(tasks["control"]) /\ Driven(tasks["control"])
      /\ Carries(c) /\ Settles(p, c)
  BY DEF Calm
<1>2. HasState(c) /\ Driven(c)
  <2>1. CASE p = "control"
    BY <1>1, <2>1
  <2>2. CASE p = "loop"
    <3>1. tasks["control"].pc \in Passive
      BY <2>2 DEF Alone
    <3> QED
      BY <1>1, <3>1 DEF HasState, Driven, Passive, Losing
  <2> QED
    BY <2>1, <2>2
<1> QED
  BY <1>1, <1>2 DEF HasState, Driven

(* A step of a task that is alone.                                          *)
LEMMA CalmStep ==
    ASSUME Ordered, Ordered', NEW p \in {"loop", "control"}, Alone(p), NEW t, Becomes(p, t),
           Once(held)', HasState(t)', Driven(t)', Carries(t)', Settles(p, t)'
    PROVE  Calm'
<1>1. p \in Tasks /\ DOMAIN tasks = Tasks
  BY OrderedFacts DEF Tasks
<1>2. tasks'[p] = t /\ \A q \in Tasks \ {p} : tasks'[q] = tasks[q]
  BY <1>1, TaskStep
<1>3. TaskTyped(p, t)
  BY <1>1, <1>2 DEF Ordered
<1>4. PICK q \in {"loop", "control"} : q # p
  OBVIOUS
<1>5. tasks'[q] = tasks[q] /\ tasks[q].pc \in Passive
  BY <1>2, <1>4 DEF Alone, Tasks
<1>6. PICK u : u = tasks[q]
  OBVIOUS
<1>7. Carries(u)' /\ Settles(q, u)'
  BY <1>5, <1>6, SettledCarries DEF Settled
<1>8. (\A r \in {"loop", "control"} : Carries(tasks[r]) /\ Settles(r, tasks[r]))'
  <2>1. ASSUME NEW r \in {"loop", "control"}
        PROVE  (Carries(tasks[r]) /\ Settles(r, tasks[r]))'
    <3>1. CASE r = p
      BY <1>2, <3>1 DEF Carries, Settles
    <3>2. CASE r = q
      BY <1>5, <1>6, <1>7, <3>2 DEF Carries, Settles
    <3> QED
      BY <1>4, <3>1, <3>2
  <2> QED
    BY <2>1
<1>9. Apart(tasks["loop"], tasks["control"])'
  BY <1>2, <1>4, <1>5 DEF Apart
<1>10. HasState(tasks["control"])' /\ Driven(tasks["control"])'
  <2>1. CASE p = "control"
    BY <1>2, <2>1 DEF HasState, Driven
  <2>2. CASE p = "loop"
    <3>1. t.pc \notin Losing
      BY <1>3, <2>2 DEF TaskTyped, Stages, Losing, InMove, InDrop, InAfter
    <3> QED
      BY <3>1 DEF HasState, Driven, Losing
  <2> QED
    BY <2>1, <2>2
<1> QED
  BY <1>8, <1>9, <1>10 DEF Calm

(* One that leaves registry, states and folds as they are.                  *)
LEMMA CalmAlong ==
    ASSUME Ordered, Ordered', Calm, NEW p \in {"loop", "control"}, Alone(p), tasks[p].pc \notin Losing,
           NEW t, Becomes(p, t), UNCHANGED <<registry, state, held>>, Carries(t)', Settles(p, t)'
    PROVE  Calm'
<1>1. PICK c : c = tasks[p]
  OBVIOUS
<1>2. /\ Once(held) /\ HasState(c) /\ Driven(c) /\ c.pc \notin Losing
  BY <1>1, CalmFacts
<1>3. Held' = Held
  BY DEF Held
<1>4. Once(held)' /\ HasState(t)' /\ Driven(t)'
  BY <1>2, <1>3 DEF Once, HasState, Driven, Losing
<1> QED
  BY <1>4, CalmStep

(* A fold that advances, while another task may be settling a promotion: a  *)
(* state only grows, and what answers reads does not, since its turn is     *)
(* taken or nothing here folds it.                                          *)
LEMMA CalmGrows ==
    ASSUME Ordered, Calm, NEW p \in Tasks, tasks[p].pc \in Passive, NEW t, t.pc \in Passive, Becomes(p, t),
           UNCHANGED <<registry, held>>,
           \/ state' = state
           \/ \E g \in Generations, n \in 0 .. MaxBlock :
                /\ ~Busy(g) /\ state[g] # Nothing /\ n >= Reached(g) /\ state' = [state EXCEPT ![g] = 1 .. n]
                /\ p = "loop" \/ g \in Held
    PROVE  Calm'
<1>1. /\ DOMAIN tasks = Tasks /\ World /\ state \in [Generations -> (SUBSET Blocks) \cup {Nothing}]
      /\ \A q \in Tasks : TaskTyped(q, tasks[q])
      /\ canonical \in registry.records \cup {Nothing} /\ registry.records \subseteq Generations
  BY OrderedFacts
<1>2. tasks'[p] = t /\ \A q \in Tasks \ {p} : tasks'[q] = tasks[q]
  BY <1>1, TaskStep
<1>3. Held' = Held /\ canonical' = canonical /\ successor' = successor
  BY DEF Held, canonical, successor
<1>4. \A h \in Generations : state[h] # Nothing => state'[h] # Nothing
  BY <1>1, TopOfSegment
<1>5. \A q \in {"loop", "control"} : tasks'[q] = tasks[q] \/ (tasks[q].pc \in Passive /\ tasks'[q].pc \in Passive)
  BY <1>2 DEF Tasks
<1>6. Once(held)' /\ Apart(tasks["loop"], tasks["control"])'
  BY <1>5 DEF Calm, Once, Apart
<1>7. HasState(tasks["control"])' /\ Driven(tasks["control"])'
  <2>1. PICK u, v : u = tasks["control"] /\ v = tasks'["control"]
    OBVIOUS
  <2>2. HasState(u) /\ Driven(u) /\ Held \subseteq Generations
    BY <2>1, OrderedFacts DEF Calm
  <2>3. v = u \/ (u.pc \notin Losing /\ v.pc \notin Losing)
    BY <1>5, <2>1 DEF Passive, Losing
  <2>4. HasState(v)' /\ Driven(v)'
    BY <1>1, <1>3, <1>4, <2>2, <2>3 DEF HasState, Driven, Losing
  <2> QED
    BY <2>1, <2>4 DEF HasState, Driven
<1>8. ASSUME NEW q \in {"loop", "control"}, NEW u, u = tasks[q]
      PROVE  Carries(u)' /\ Settles(q, u)'
  <2>1. CASE u.pc \in Passive
    BY <2>1, SettledCarries DEF Settled
  <2>2. CASE u.pc \notin Passive
    <3>1. Carries(u) /\ Settles(q, u) /\ TaskTyped(q, u) /\ q # p /\ q \in Tasks
      BY <1>1, <1>8, <2>2 DEF Calm, Tasks
    <3>2. Carries(u)'
      <4>1. u.pc \in InMove \cup InReplace \cup {"moved"} => u.target \in Generations
        BY <3>1 DEF TaskTyped, Aiming
      <4> QED
        BY <1>3, <1>4, <3>1, <4>1 DEF Carries, InMove, InReplace
    <3>3. ASSUME u.pc \in InMove, u.settles, q = "loop" \/ canonical \in Held
          PROVE  hasReachedCursor(cursorOf(u.target)', cursorOf(canonical)')
      <4>1. /\ canonical \in Held => u.turn = canonical
            /\ hasReachedCursor(cursorOf(u.target), cursorOf(canonical))
        BY <3>1, <3>3 DEF Settles
      <4>2. u.target \in Generations /\ "turn" \in DOMAIN u
        BY <3>1, <3>3 DEF TaskTyped, Shaped, Aiming
      <4>3. CASE state' = state
        BY <1>3, <4>1, <4>3 DEF cursorOf, Reached
      <4>4. ASSUME NEW g \in Generations, NEW n \in 0 .. MaxBlock,
                   ~Busy(g), state[g] # Nothing, n >= Reached(g), state' = [state EXCEPT ![g] = 1 .. n],
                   p = "loop" \/ g \in Held
            PROVE  hasReachedCursor(cursorOf(u.target)', cursorOf(canonical)')
        <5>1. canonical \in Held => Turn(u) = canonical
          BY <4>1, <4>2 DEF Turn
        <5>2. g # canonical
          BY <1>8, <3>1, <3>3, <4>4, <5>1 DEF Busy
        <5>3. PICK x : x = canonical
          OBVIOUS
        <5>4. x # Nothing /\ x \in Generations
          <6>1. x # Nothing => x \in Generations
            BY <1>1, <5>3
          <6>2. state[x] \notin {Nothing, {}}
            BY <4>1, <5>3 DEF hasReachedCursor, cursorOf
          <6>3. CASE q = "loop"
            <7>1. g \in Held
              BY <3>1, <4>4, <6>3
            <7>2. registry.records # {}
              <8>1. Driven(tasks["control"]) /\ Alone("loop")
                BY <1>8, <2>2, <6>3, AloneInStage DEF Calm
              <8>2. tasks["control"].pc \notin Losing
                BY <8>1 DEF Alone, Passive, Losing
              <8> QED
                BY <7>1, <8>1, <8>2 DEF Driven
            <7>3. canonical # Nothing
              BY <1>1, <7>2 DEF World, InOrder, SlotsSound, canonical
            <7> QED
              BY <5>3, <6>1, <7>3
          <6>4. CASE canonical \in Held
            BY <5>3, <6>4, OrderedFacts
          <6> QED
            BY <3>3, <6>1, <6>3, <6>4
        <5>5. cursorOf(x)' = cursorOf(x)
          <6>1. state'[x] = state[x]
            BY <1>1, <4>4, <5>2, <5>3, <5>4
          <6> QED
            BY <6>1, CursorOfState
        <5>6. hasReachedCursor(cursorOf(u.target)', cursorOf(x))
          <6>1. CASE u.target # g
            <7>1. state'[u.target] = state[u.target]
              BY <1>1, <4>2, <4>4, <6>1
            <7>2. cursorOf(u.target)' = cursorOf(u.target)
              BY <7>1, CursorOfState
            <7> QED
              BY <4>1, <5>3, <7>2
          <6>2. CASE u.target = g
            <7>1. Reached(g) \in 0 .. MaxBlock /\ state[g] = 1 .. Reached(g)
              BY <1>1, <4>4, Segment
            <7>2. state[x] # Nothing
              BY <4>1, <5>3 DEF hasReachedCursor, cursorOf
            <7>3. Reached(x) \in 0 .. MaxBlock /\ state[x] = 1 .. Reached(x)
              BY <1>1, <5>4, <7>2, Segment
            <7>4. state'[g] = 1 .. n
              BY <1>1, <4>4
            <7>5. /\ cursorOf(g) = CursorIn(1 .. Reached(g)) /\ cursorOf(x) = CursorIn(1 .. Reached(x))
                  /\ cursorOf(g)' = CursorIn(1 .. n)
              BY <7>1, <7>3, <7>4, CursorOfState
            <7>6. hasReachedCursor(CursorIn(1 .. Reached(g)), CursorIn(1 .. Reached(x)))
              BY <4>1, <5>3, <6>2, <7>5
            <7>7. hasReachedCursor(CursorIn(1 .. n), CursorIn(1 .. Reached(x)))
              BY <4>4, <7>1, <7>3, <7>6, StaysReached
            <7> QED
              BY <6>2, <7>5, <7>7
          <6> QED
            BY <6>1, <6>2
        <5> QED
          <6>1. cursorOf(canonical)' = cursorOf(x)'
            BY <1>3, <5>3 DEF cursorOf, Reached
          <6> QED
            BY <5>5, <5>6, <6>1
      <4> QED
        BY <4>3, <4>4
    <3>4. Settles(q, u)'
      <4>1. ASSUME u.pc \in InMove, u.settles, q = "loop" \/ canonical' \in Held'
            PROVE  hasReachedCursor(cursorOf(u.target)', cursorOf(canonical)')
        BY <1>3, <3>3, <4>1
      <4> QED
        BY <1>3, <3>1, <4>1 DEF Settles, hasReachedCursor
    <3> QED
      BY <3>2, <3>4
  <2> QED
    BY <2>1, <2>2
<1>9. ASSUME NEW q \in {"loop", "control"}
      PROVE  (Carries(tasks[q]) /\ Settles(q, tasks[q]))'
  <2>1. PICK v : v = tasks'[q]
    OBVIOUS
  <2>2. Carries(v)' /\ Settles(q, v)'
    <3>1. CASE v = tasks[q]
      BY <1>8, <3>1
    <3>2. CASE v.pc \in Passive
      BY <3>2, SettledCarries DEF Settled
    <3> QED
      BY <1>5, <2>1, <3>1, <3>2
  <2> QED
    BY <2>1, <2>2 DEF Carries, Settles
<1> QED
  BY <1>6, <1>7, <1>9 DEF Calm

-----------------------------------------------------------------------------
(* Calm: the batches and the loop.                                          *)

LEMMA IngestingCalm ==
    ASSUME Ordered, Calm, Ingesting
    PROVE  Calm'
<1>0. "ingest" \in Tasks
  BY DEF Tasks
<1>1. ASSUME NEW s \in Streams, Receive(s)
      PROVE  Calm'
  <2>1. PICK t : /\ Becomes("ingest", t) /\ t.pc = "append" /\ tasks["ingest"].pc = "idle"
                 /\ UNCHANGED <<registry, held, state>>
    BY <1>1 DEF Receive, At, disk, memory
  <2> QED
    BY <1>0, <2>1, CalmGrows DEF Passive
<1>2. CASE AppendEmissions
  <2>1. PICK t : Becomes("ingest", t) /\ t.pc \in {"idle", "deliver"}
    <3>1. PICK t : Becomes("ingest", t) /\ (t = Idle \/ \E b, todo : t = [pc |-> "deliver", block |-> b, todo |-> todo])
      BY <1>2, Zenon DEF AppendEmissions
    <3> QED
      BY <3>1 DEF Idle
  <2>2. tasks["ingest"].pc = "append" /\ UNCHANGED <<registry, state, memory>>
    BY <1>2, Zenon DEF AppendEmissions, At
  <2> QED
    BY <1>0, <2>1, <2>2, CalmGrows DEF Passive, memory
<1>3. CASE Deliver
  <2>1. PICK c : c = tasks["ingest"]
    OBVIOUS
  <2>2. /\ c.pc = "deliver" /\ UNCHANGED <<registry, held>>
        /\ \/ Becomes("ingest", Idle)
           \/ Becomes("ingest", [c EXCEPT !.todo = Tail(@)])
    BY <1>3, <2>1 DEF Deliver, At, memory
  <2>3. "pc" \in DOMAIN c
    BY <2>1, <2>2, Ingest DEF TaskTyped, Shaped
  <2>4. PICK t : Becomes("ingest", t) /\ t.pc \in {"idle", "deliver"}
    BY <2>2, <2>3 DEF Idle
  <2>5. Held \subseteq Generations
    BY OrderedFacts
  <2>6. \/ state' = state
        \/ \E g \in Generations, n \in 0 .. MaxBlock :
              /\ ~Busy(g) /\ state[g] # Nothing /\ n >= Reached(g) /\ state' = [state EXCEPT ![g] = 1 .. n]
              /\ g \in Held
    BY <1>3, <2>5, Delivered
  <2> QED
    BY <1>0, <2>1, <2>2, <2>4, <2>6, CalmGrows DEF Passive
<1> QED
  BY <1>1, <1>2, <1>3 DEF Ingesting

LEMMA LoopingCalm ==
    ASSUME Ordered, Calm, Looping
    PROVE  Calm'
<1>0. "loop" \in Tasks
  BY DEF Tasks
<1>1. CASE RebuildMore
  <2>1. PICK t : Becomes("loop", t) /\ t.pc \in {"chunks", "settle"}
    <3>1. PICK todo : Becomes("loop", Chunks(todo))
      BY <1>1, Zenon DEF RebuildMore
    <3> QED
      BY <3>1 DEF Chunks
  <2>2. tasks["loop"].pc = "idle" /\ UNCHANGED <<disk, memory>>
    BY <1>1, Zenon DEF RebuildMore, At
  <2> QED
    BY <1>0, <2>1, <2>2, CalmGrows DEF Passive, disk, memory
<1>2. CASE Chunk
  <2>1. PICK t : Becomes("loop", t) /\ t.pc \in {"idle", "chunks", "settle"}
    BY <1>2 DEF Chunk, Chunks, Idle
  <2>2. tasks["loop"].pc = "chunks" /\ UNCHANGED <<registry, held>>
    BY <1>2 DEF Chunk, At, memory
  <2> QED
    BY <1>0, <1>2, <2>1, <2>2, Chunked, CalmGrows DEF Passive
<1> QED
  BY <1>1, <1>2 DEF Looping

-----------------------------------------------------------------------------
(* Calm: a promotion.                                                       *)

(* A promotion that ends, or a call that goes on, with nothing else done.   *)
LEMMA CalmContinues ==
    ASSUME Ordered, Ordered', Calm, NEW p \in {"loop", "control"}, tasks[p].pc \in Returning \ (Passive \cup Losing),
           Becomes(p, Continue(tasks[p].then)), UNCHANGED <<registry, state, held>>
    PROVE  Calm'
<1>1. PICK c : c = tasks[p]
  OBVIOUS
<1>2. Alone(p)
  BY AloneInStage
<1>3. PICK t : t = Continue(c.then)
  OBVIOUS
<1>4. t.pc \in {"idle", "foldCanonical", "ready"}
  BY <1>1, <1>3, Resumes, Continued
<1>5. Carries(t)' /\ Settles(p, t)'
  BY <1>4, SettledCarries DEF Settled, Passive, InOpen
<1> QED
  BY <1>1, <1>2, <1>3, <1>5, CalmAlong

LEMMA SettleCalm ==
    ASSUME Ordered, Ordered', Calm, ~config.racing, NEW p \in {"loop", "control"}, NothingToSettle(p) \/ Settle(p)
    PROVE  Calm'
<1>1. PICK c : c = tasks[p]
  OBVIOUS
<1>2. c.pc = "settle" /\ c.pc \in Returning /\ UNCHANGED <<registry, state, held>>
  BY <1>1 DEF NothingToSettle, Settle, At, Returning, disk, memory
<1>3. CASE NothingToSettle(p)
  <2>1. PICK t : t = Continue(c.then)
    OBVIOUS
  <2>2. Becomes(p, t)
    BY <1>1, <1>3, <2>1 DEF NothingToSettle
  <2>3. /\ t.pc = c.then /\ c.then \in {"idle", "foldCanonical", "ready"} /\ (p = "loop" => c.then = "idle")
        /\ opened => c.then = "idle"
    BY <1>1, <1>2, <2>1, Resumes, Continued
  <2>4. CASE c.then = "idle"
    BY <1>1, <1>2, <2>2, <2>3, <2>4, CalmGrows DEF Passive, Tasks
  <2>5. CASE c.then # "idle"
    <3>1. ~opened /\ p = "control"
      BY <2>3, <2>5
    <3>2. Alone(p)
      BY <3>1, AloneWhenShut
    <3>3. Carries(t)' /\ Settles(p, t)'
      BY <2>3, SettledCarries DEF Settled, Passive, InOpen
    <3> QED
      BY <1>1, <1>2, <2>2, <3>2, <3>3, CalmAlong DEF Losing
  <2> QED
    BY <2>4, <2>5
<1>4. CASE Settle(p)
  <2>1. PICK t : t = [pc |-> "level", incumbent |-> canonical, target |-> successor, then |-> c.then,
                      turn |-> IF canonical \in Held THEN canonical ELSE Nothing]
    OBVIOUS
  <2>2. Becomes(p, t) /\ Alone(p)
    BY <1>1, <1>4, <2>1, AloneWhenMaking DEF Settle
  <2>3. /\ t.pc = "level" /\ t.incumbent = canonical /\ t.target = successor
        /\ canonical \in Held => t.turn = canonical
    BY <2>1
  <2>4. Held' = Held /\ canonical' = canonical /\ successor' = successor
    BY <1>2 DEF Held, canonical, successor
  <2>5. Carries(t)'
    BY <2>3 DEF Carries, InDrop, InReplace
  <2>6. Settles(p, t)'
    BY <2>3, <2>4 DEF Settles, InMove
  <2> QED
    BY <1>1, <1>2, <2>2, <2>5, <2>6, CalmAlong DEF Losing
<1> QED
  BY <1>3, <1>4

LEMMA LevelCalm ==
    ASSUME Ordered, Ordered', Calm, NEW p \in {"loop", "control"}, Level(p)
    PROVE  Calm'
<1>1. PICK c : c = tasks[p]
  OBVIOUS
<1>2. c.pc = "level" /\ c.pc \in Returning \ (Passive \cup Losing) /\ UNCHANGED <<registry, state, held>>
  BY <1>1 DEF Level, At, Returning, Passive, Losing, disk, memory
<1>3. CASE hasReachedCursor(cursorOf(c.target), cursorOf(c.incumbent))
  <2>1. PICK t : t = [pc |-> "move", target |-> c.target, then |-> c.then, turn |-> Turn(c), settles |-> TRUE]
    OBVIOUS
  <2>2. Becomes(p, t)
    BY <1>1, <1>3, <2>1 DEF Level
  <2>3. Alone(p)
    BY <1>1, <1>2, AloneInStage
  <2>4. Settles(p, c) /\ TaskTyped(p, c)
    BY <1>1, <2>3, CalmFacts, OrderedFacts DEF Tasks
  <2>5. c.incumbent = canonical /\ (canonical \in Held => c.turn = canonical) /\ "turn" \in DOMAIN c
    BY <1>2, <2>4 DEF Settles, TaskTyped, Shaped
  <2>6. t.pc = "move" /\ t.target = c.target /\ t.turn = c.turn
    BY <2>1, <2>5 DEF Turn
  <2>7. UNCHANGED <<Held, canonical, successor, cursorOf(t.target), cursorOf(canonical)>>
    BY <1>2 DEF Held, canonical, successor, cursorOf, Reached
  <2>8. Carries(t)'
    BY <2>6 DEF Carries, InDrop, InReplace
  <2>9. Settles(p, t)'
    BY <1>3, <2>5, <2>6, <2>7 DEF Settles, hasReachedCursor
  <2> QED
    BY <1>1, <1>2, <2>2, <2>3, <2>8, <2>9, CalmAlong
<1>4. CASE ~hasReachedCursor(cursorOf(c.target), cursorOf(c.incumbent))
  BY <1>1, <1>2, <1>4, CalmContinues DEF Level
<1> QED
  BY <1>3, <1>4

LEMMA MoveCalm ==
    ASSUME Ordered, Ordered', Calm, NEW p \in {"loop", "control"}, Move(p)
    PROVE  Calm'
<1>1. PICK c : c = tasks[p]
  OBVIOUS
<1>2. c.pc = "move" /\ c.pc \notin Passive \cup Losing /\ UNCHANGED <<registry, state, held>>
  BY <1>1 DEF Move, At, Passive, Losing, disk, memory
<1>3. PICK t : /\ Becomes(p, t)
               /\ \/ t.pc = "instantiate" /\ c.target \notin Held
                  \/ t.pc = "commit"
               /\ t.target = c.target /\ t.turn = c.turn /\ t.settles = c.settles /\ ~t.fold
  <2>1. PICK t : t = [pc |-> IF config.instantiates /\ c.target # canonical /\ c.target \notin Held
                             THEN "instantiate" ELSE "commit",
                      target |-> c.target, then |-> c.then, turn |-> c.turn, settles |-> c.settles,
                      superseded |-> canonical, wasPromotion |-> successor = c.target, fold |-> FALSE]
    OBVIOUS
  <2>2. Becomes(p, t)
    BY <1>1, <2>1 DEF Move
  <2> QED
    BY <2>1, <2>2
<1>4. Alone(p)
  BY <1>1, <1>2, AloneInStage
<1>5. Settles(p, c)
  BY <1>1, <1>4, CalmFacts
<1>6. UNCHANGED <<Held, canonical, successor, cursorOf(t.target), cursorOf(canonical)>>
  BY <1>2 DEF Held, canonical, successor, cursorOf, Reached
<1>7. Carries(t)'
  BY <1>3, <1>6 DEF Carries, InDrop, InReplace
<1>8. Settles(p, t)'
  BY <1>2, <1>3, <1>5, <1>6 DEF Settles, InMove, hasReachedCursor
<1> QED
  BY <1>1, <1>2, <1>3, <1>4, <1>7, <1>8, CalmAlong

(* Making a fold's tables changes no cursor that was there.                 *)
LEMMA MigratedCursor ==
    ASSUME World, NEW g \in Generations, state' = Migrated(g)
    PROVE  /\ \A h \in Generations : state[h] # Nothing => state'[h] = state[h]
           /\ state'[g] # Nothing
           /\ \A h : cursorOf(h)' = cursorOf(h)
<1>1. PICK S : /\ state' = [state EXCEPT ![g] = S] /\ S # Nothing
               /\ S = IF state[g] = Nothing THEN {} ELSE state[g]
  BY MigratedState
<1>2. state \in [Generations -> (SUBSET Blocks) \cup {Nothing}]
  BY DEF World, TypeOK
<1>3. \A h \in Generations \ {g} : state'[h] = state[h]
  BY <1>1, <1>2
<1>4. state'[g] = S
  BY <1>1, <1>2
<1>5. ASSUME NEW h
      PROVE  cursorOf(h)' = cursorOf(h)
  <2>1. CASE h = g
    BY <1>1, <1>4, <2>1, CursorOfState DEF CursorIn
  <2>2. CASE h # g
    <3>1. state'[h] = state[h]
      BY <1>1, <1>2, <2>2
    <3> QED
      BY <3>1, CursorOfState
  <2> QED
    BY <2>1, <2>2
<1> QED
  BY <1>1, <1>3, <1>4, <1>5

LEMMA InstantiateCalm ==
    ASSUME Ordered, Ordered', Calm, NEW p \in {"loop", "control"}, Instantiate(p) \/ InstantiationFails(p)
    PROVE  Calm'
<1>1. PICK c : c = tasks[p]
  OBVIOUS
<1>2. c.pc = "instantiate" /\ c.pc \in Returning \ (Passive \cup Losing) /\ UNCHANGED <<registry, held>>
  BY <1>1 DEF Instantiate, InstantiationFails, At, Returning, InMove, Passive, Losing, disk, memory
<1>3. CASE InstantiationFails(p)
  BY <1>1, <1>2, <1>3, CalmContinues DEF InstantiationFails, disk
<1>4. CASE Instantiate(p)
  <2>1. PICK t : /\ Becomes(p, t) /\ t.pc = "commit" /\ t.target = c.target /\ t.turn = c.turn /\ t.settles = c.settles
                 /\ state' = IF t.fold THEN Migrated(c.target) ELSE state
    BY <1>1, <1>4, Instantiates
  <2>2. Alone(p)
    BY <1>1, <1>2, AloneInStage
  <2>3. /\ Once(held) /\ HasState(c) /\ Driven(c) /\ Carries(c) /\ Settles(p, c) /\ c.target \in Generations
        /\ World /\ registry.records \subseteq Generations /\ Held \subseteq Generations
    BY <1>1, <1>2, <2>2, CalmFacts, OrderedFacts DEF TaskTyped, Tasks, Aiming, InMove
  <2>4. UNCHANGED <<Held, canonical, successor>>
    BY <1>2 DEF Held, canonical, successor
  <2>5. /\ \A h \in Generations : state[h] # Nothing => state'[h] # Nothing
        /\ t.fold => state'[c.target] # Nothing
        /\ \A h : cursorOf(h)' = cursorOf(h)
    <3>1. CASE t.fold
      BY <2>1, <2>3, <3>1, MigratedCursor
    <3>2. CASE ~t.fold
      BY <2>1, <3>2 DEF cursorOf, Reached
    <3> QED
      BY <3>1, <3>2
  <2>6. cursorOf(canonical)' = cursorOf(canonical)
    <3>1. PICK x : x = canonical
      OBVIOUS
    <3>2. cursorOf(x)' = cursorOf(x)
      BY <2>5
    <3> QED
      BY <2>4, <3>1, <3>2 DEF cursorOf, Reached
  <2>7. Carries(t)'
    BY <1>2, <2>1, <2>3, <2>4, <2>5 DEF Carries, InDrop, InReplace
  <2>8. Settles(p, t)'
    BY <1>2, <2>1, <2>3, <2>4, <2>5, <2>6 DEF Settles, InMove, hasReachedCursor
  <2>9. Once(held)' /\ HasState(t)' /\ Driven(t)'
    BY <1>2, <2>3, <2>4, <2>5 DEF Once, HasState, Driven, Losing
  <2> QED
    BY <2>1, <2>2, <2>7, <2>8, <2>9, CalmStep
<1> QED
  BY <1>3, <1>4

LEMMA CommitCalm ==
    ASSUME Ordered, Ordered', Calm, NEW p \in {"loop", "control"}, CommitMove(p) \/ MoveUnknown(p)
    PROVE  Calm'
<1>1. PICK c : c = tasks[p]
  OBVIOUS
<1>2. c.pc = "commit" /\ c.pc \in Returning \ (Passive \cup Losing)
  BY <1>1 DEF CommitMove, MoveUnknown, At, Returning, InMove, Passive, Losing
<1>3. CASE MoveUnknown(p)
  BY <1>1, <1>2, <1>3, CalmContinues DEF MoveUnknown, disk, memory
<1>4. CASE CommitMove(p)
  <2>1. Alone(p)
    BY <1>1, <1>2, AloneInStage
  <2>2. Once(held) /\ HasState(c) /\ Driven(c) /\ Carries(c)
    BY <1>1, <2>1, CalmFacts
  <2>3. PICK t : t = [pc |-> "moved", target |-> c.target, then |-> c.then, turn |-> c.turn,
                      superseded |-> c.superseded, wasPromotion |-> c.wasPromotion, fold |-> c.fold]
    OBVIOUS
  <2>4. /\ registry'.records = registry.records /\ UNCHANGED <<state, held>> /\ canonical' = c.target /\ Becomes(p, t)
    BY <1>1, <1>4, <2>3, Committed
  <2>5. Held' = Held
    BY <2>4 DEF Held
  <2>6. t.pc = "moved" /\ t.target = c.target /\ t.fold = c.fold
    BY <2>3
  <2>7. Carries(t)'
    BY <1>2, <2>2, <2>4, <2>5, <2>6 DEF Carries, InDrop, InReplace
  <2>8. Settles(p, t)'
    BY <2>6 DEF Settles, InMove
  <2>9. Once(held)' /\ HasState(t)' /\ Driven(t)'
    BY <1>2, <2>2, <2>4, <2>5 DEF Once, HasState, Driven, Losing
  <2> QED
    BY <2>1, <2>4, <2>7, <2>8, <2>9, CalmStep
<1> QED
  BY <1>3, <1>4

LEMMA AfterCalm ==
    ASSUME Ordered, Ordered', Calm, NEW p \in {"loop", "control"}, AfterMove(p)
    PROVE  Calm'
<1>1. PICK c : c = tasks[p]
  OBVIOUS
<1>2. c.pc = "moved" /\ c.target \in Generations /\ UNCHANGED <<registry, state>>
  BY <1>1, After
<1>3. c.pc \in Returning \ (Passive \cup Losing)
  BY <1>2 DEF Returning, InAfter, Passive, Losing
<1>4. Alone(p)
  BY <1>1, <1>3, AloneInStage
<1>5. /\ Once(held) /\ HasState(c) /\ Driven(c) /\ Carries(c) /\ Held = Folds(held)
      /\ held \in Seq(Generations)
  BY <1>1, <1>4, CalmFacts, OrderedFacts
<1>6. c.target = canonical /\ c.target \in registry.records /\ canonical' = canonical
  BY <1>2, <1>5, OrderedFacts DEF Carries, canonical
<1>7. PICK now, off : /\ now = IF c.fold THEN Append(held, c.target) ELSE held
                      /\ now \in Seq(Generations) /\ Folds(now) = Held \cup (IF c.fold THEN {c.target} ELSE {})
                      /\ held' = IF off THEN Unheld(now, c.superseded) ELSE now
                      /\ \/ Becomes(p, Continue(c.then))
                         \/ /\ off
                            /\ Becomes(p, [pc |-> "delete", gone |-> c.superseded, then |-> c.then, turn |-> c.turn])
                         \/ /\ c.superseded # c.target
                            /\ Becomes(p, [pc |-> "letGo", gone |-> c.superseded, then |-> c.then, turn |-> c.turn])
  BY <1>1, After
<1>8. Once(now)
  BY <1>2, <1>5, <1>7, Taken DEF Carries
<1>9. Once(held') /\ Folds(held') = Folds(now) \ (IF off THEN {c.superseded} ELSE {})
  BY <1>7, <1>8, Spliced
<1>10. Held' = Folds(held')
  BY DEF Held, Folds
<1>11. \A g \in Held' : g \in registry.records /\ state[g] # Nothing
  BY <1>3, <1>5, <1>6, <1>7, <1>9, <1>10 DEF HasState, Driven, Losing
<1>12. \A g \in registry.records : state[g] # Nothing
  BY <1>5 DEF HasState
<1>13. PICK t : /\ Becomes(p, t)
                /\ \/ t.pc \in {"idle", "foldCanonical", "ready"}
                   \/ t.pc = "delete" /\ t.gone \notin Held'
                   \/ t.pc = "letGo" /\ t.gone # canonical
  <2>1. CASE Becomes(p, Continue(c.then))
    BY <1>1, <1>3, <2>1, Resumes, Continued
  <2>2. CASE off /\ Becomes(p, [pc |-> "delete", gone |-> c.superseded, then |-> c.then, turn |-> c.turn])
    BY <1>9, <1>10, <2>2
  <2>3. CASE /\ c.superseded # c.target
             /\ Becomes(p, [pc |-> "letGo", gone |-> c.superseded, then |-> c.then, turn |-> c.turn])
    BY <1>6, <2>3
  <2> QED
    BY <1>7, <2>1, <2>2, <2>3
<1>14. Carries(t)' /\ Settles(p, t)'
  <2>1. CASE t.pc \in {"idle", "foldCanonical", "ready"}
    BY <2>1, SettledCarries DEF Settled, Passive, InOpen
  <2>2. CASE t.pc = "delete" /\ t.gone \notin Held'
    BY <2>2 DEF Carries, Settles, InDrop, InMove, InReplace
  <2>3. CASE t.pc = "letGo" /\ t.gone # canonical
    BY <1>6, <2>3 DEF Carries, Settles, InDrop, InMove, InReplace
  <2> QED
    BY <1>13, <2>1, <2>2, <2>3
<1>15. Once(held)' /\ HasState(t)' /\ Driven(t)'
  BY <1>2, <1>9, <1>11, <1>12 DEF Once, HasState, Driven
<1> QED
  BY <1>4, <1>13, <1>14, <1>15, CalmStep

LEMMA LetGoCalm ==
    ASSUME Ordered, Ordered', Calm, NEW p \in {"loop", "control"}, LetGo(p) \/ KeepFolding(p)
    PROVE  Calm'
<1>1. PICK c : c = tasks[p]
  OBVIOUS
<1>2. c.pc = "letGo" /\ c.pc \in Returning \ (Passive \cup Losing)
  BY <1>1 DEF LetGo, KeepFolding, At, Returning, InAfter, Passive, Losing
<1>3. CASE KeepFolding(p)
  BY <1>1, <1>2, <1>3, CalmContinues DEF KeepFolding, disk, memory
<1>4. CASE LetGo(p)
  <2>1. PICK t : t = Continue(c.then)
    OBVIOUS
  <2>2. Becomes(p, t) /\ held' = Unheld(held, c.gone) /\ UNCHANGED <<registry, state>>
    BY <1>1, <1>4, <2>1 DEF LetGo, disk
  <2>3. Alone(p)
    BY <1>1, <1>2, AloneInStage
  <2>4. /\ Once(held) /\ HasState(c) /\ Driven(c) /\ Held = Folds(held) /\ held \in Seq(Generations)
    BY <1>1, <2>3, CalmFacts, OrderedFacts
  <2>5. Once(held') /\ Folds(held') \subseteq Folds(held)
    BY <2>2, <2>4, Spliced
  <2>6. Held' \subseteq Held
    BY <2>4, <2>5 DEF Held, Folds
  <2>7. t.pc \in {"idle", "foldCanonical", "ready"}
    BY <1>1, <1>2, <2>1, Resumes, Continued
  <2>8. Carries(t)' /\ Settles(p, t)'
    BY <2>7, SettledCarries DEF Settled, Passive, InOpen
  <2>9. Once(held)' /\ HasState(t)' /\ Driven(t)'
    BY <1>2, <2>2, <2>4, <2>5, <2>6 DEF Once, HasState, Driven, Losing
  <2> QED
    BY <2>2, <2>3, <2>8, <2>9, CalmStep
<1> QED
  BY <1>3, <1>4

LEMMA DropCalm ==
    ASSUME Ordered, Ordered', Calm, NEW p \in {"loop", "control"}, Delete(p) \/ DropState(p)
    PROVE  Calm'
<1>1. PICK c : c = tasks[p]
  OBVIOUS
<1>2. c.pc \in InDrop /\ c.pc \in Returning \ (Passive \cup Losing) /\ held' = held
  BY <1>1 DEF Delete, DropState, At, Returning, InDrop, Passive, Losing, memory
<1>3. Alone(p)
  BY <1>1, <1>2, AloneInStage
<1>4. Once(held) /\ HasState(c) /\ Driven(c) /\ Carries(c)
  BY <1>1, <1>3, CalmFacts
<1>5. Held' = Held /\ c.gone \notin Held
  BY <1>2, <1>4 DEF Held, Carries
<1>6. PICK e : e = Continue(c.then)
  OBVIOUS
<1>7. Carries(e)' /\ Settles(p, e)'
  <2>1. e.pc \in {"idle", "foldCanonical", "ready"}
    BY <1>1, <1>2, <1>6, Resumes, Continued
  <2> QED
    BY <2>1, SettledCarries DEF Settled, Passive, InOpen
<1>8. CASE Delete(p)
  <2>1. registry'.records \subseteq registry.records /\ state' = state
    BY <1>1, <1>8, Deletes DEF Delete
  <2>2. PICK t : /\ Becomes(p, t)
                 /\ \/ t = e /\ registry' = registry
                    \/ t.pc = "dropState" /\ t.gone = c.gone /\ registry'.records = registry.records \ {c.gone}
    BY <1>1, <1>6, <1>8, Deletes
  <2>3. Carries(t)' /\ Settles(p, t)'
    <3>1. CASE t = e
      BY <1>7, <3>1
    <3>2. CASE t.pc = "dropState" /\ t.gone = c.gone /\ registry'.records = registry.records \ {c.gone}
      BY <1>5, <3>2 DEF Carries, Settles, InMove, InReplace
    <3> QED
      BY <2>2, <3>1, <3>2
  <2>4. Once(held)' /\ HasState(t)' /\ Driven(t)'
    BY <1>2, <1>4, <1>5, <2>1, <2>2 DEF Once, HasState, Driven, Losing
  <2> QED
    BY <1>3, <2>2, <2>3, <2>4, CalmStep
<1>9. CASE DropState(p)
  <2>1. /\ Becomes(p, e) /\ state' = [state EXCEPT ![c.gone] = Nothing] /\ registry' = registry /\ c.pc = "dropState"
    BY <1>1, <1>6, <1>9 DEF DropState, At
  <2>2. c.gone \notin registry.records
    BY <1>4, <2>1 DEF Carries
  <2>3. \A g \in registry.records \cup Held : state'[g] = state[g]
    <3>1. /\ registry.records \subseteq Generations /\ Held \subseteq Generations
          /\ state \in [Generations -> (SUBSET Blocks) \cup {Nothing}]
      BY OrderedFacts
    <3> QED
      BY <1>5, <2>1, <2>2, <3>1
  <2>4. Once(held)' /\ HasState(e)' /\ Driven(e)'
    BY <1>2, <1>4, <1>5, <2>1, <2>3 DEF Once, HasState, Driven, Losing
  <2> QED
    BY <1>3, <1>7, <2>1, <2>4, CalmStep
<1> QED
  BY <1>8, <1>9

-----------------------------------------------------------------------------
(* Calm: the operator's calls.                                              *)

LEMMA CallsCalm ==
    ASSUME Ordered, Ordered', Calm, ~config.racing, Reclaim \/ \E g \in Generations : Add(g) \/ Promote(g)
    PROVE  Calm'
<1>1. PICK t : /\ Becomes("control", t) /\ (Calls("reclaim") \/ Calls("add") \/ Calls("promote"))
               /\ \/ \E S : t = [pc |-> "reclaim", garbage |-> S]
                  \/ \E g \in Generations : \/ t = [pc |-> "register", target |-> g, then |-> "idle"]
                                            \/ t = [pc |-> "move", target |-> g, then |-> "idle",
                                                    turn |-> Nothing, settles |-> FALSE]
  BY DEF Reclaim, Add, Promote
<1>2. t.pc \in {"reclaim", "register"} \/ (t.pc = "move" /\ ~t.settles)
  BY <1>1
<1>3. tasks["control"].pc = "idle" /\ MayMove("control") /\ UNCHANGED <<registry, state, held>>
  BY <1>1 DEF Calls, At, disk, memory
<1>4. Alone("control")
  BY <1>3, AloneWhenMaking
<1>5. Carries(t)' /\ Settles("control", t)'
  <2>1. CASE t.pc \in {"reclaim", "register"}
    BY <2>1, SettledCarries DEF Settled, InReclaim
  <2>2. CASE t.pc = "move" /\ ~t.settles
    BY <2>2 DEF Carries, Settles, InDrop, InReplace
  <2> QED
    BY <1>2, <2>1, <2>2
<1> QED
  BY <1>1, <1>3, <1>4, <1>5, CalmAlong DEF Losing

(* A call that has deleted a record drops its state and lets its fold go:   *)
(* what is left agrees.                                                     *)
LEMMA WithoutState ==
    ASSUME Ordered, NEW g, g \notin registry.records, state' = [state EXCEPT ![g] = Nothing]
    PROVE  /\ \A h \in registry.records : state'[h] = state[h]
           /\ \A h \in Held \ {g} : state'[h] = state[h]
<1>1. /\ registry.records \subseteq Generations /\ Held \subseteq Generations
      /\ state \in [Generations -> (SUBSET Blocks) \cup {Nothing}]
  BY OrderedFacts
<1> QED
  BY <1>1

LEMMA HeldWithout ==
    ASSUME Ordered, Once(held), NEW g, held' = Unheld(held, g)
    PROVE  Once(held)' /\ Held' = Held \ {g}
<1>1. held \in Seq(Generations) /\ Held = Folds(held)
  BY OrderedFacts
<1>2. Once(held') /\ Folds(held') = Folds(held) \ {g}
  BY <1>1, Spliced
<1> QED
  BY <1>1, <1>2 DEF Held, Folds, Once

LEMMA ReclaimingCalm ==
    ASSUME Ordered, Ordered', Calm, Reclaiming
    PROVE  Calm'
<1>1. PICK c : c = tasks["control"]
  OBVIOUS
<1>2. c.pc \in InReclaim /\ c.pc \notin Passive
  BY <1>1 DEF Reclaiming, ReclaimNext, ReclaimState, ReclaimStream, Reclaimed, At, InReclaim, Passive
<1>3. Alone("control")
  BY <1>1, <1>2, AloneInStage
<1>4. Once(held) /\ HasState(c) /\ Driven(c)
  BY <1>1, <1>3, CalmFacts
<1>5. ASSUME NEW t, t.pc \in InReclaim \cup {"idle"}
      PROVE  Carries(t)' /\ Settles("control", t)'
  BY <1>5, SettledCarries DEF Settled, Passive
<1>6. CASE ReclaimNext
  <2>1. PICK t : /\ Becomes("control", t)
                 /\ \/ t.pc = "reclaim" /\ registry' = registry
                    \/ t.pc = "reclaimState" /\ registry'.records = registry.records \ {t.gone}
    BY <1>1, <1>6, ReclaimsNext
  <2>2. c.pc = "reclaim" /\ UNCHANGED <<state, held>>
    BY <1>1, <1>6 DEF ReclaimNext, At, memory
  <2>3. Held' = Held
    BY <2>2 DEF Held
  <2>4. Once(held)' /\ HasState(t)' /\ Driven(t)'
    BY <1>4, <2>1, <2>2, <2>3 DEF Once, HasState, Driven, Losing
  <2> QED
    BY <1>3, <1>5, <2>1, <2>4, CalmStep DEF InReclaim
<1>7. CASE ReclaimState
  <2>1. PICK t : Becomes("control", t) /\ t.pc = "reclaimStream" /\ t.gone = c.gone
    BY <1>1, <1>7, ReclaimsState
  <2>2. /\ c.pc = "reclaimState" /\ c.gone \notin registry.records /\ state' = [state EXCEPT ![c.gone] = Nothing]
        /\ UNCHANGED <<registry, held>>
    BY <1>1, <1>7, ReclaimsState DEF ReclaimState, memory
  <2>3. Held' = Held
    BY <2>2 DEF Held
  <2>4. /\ \A h \in registry.records : state'[h] = state[h]
        /\ \A h \in Held \ {c.gone} : state'[h] = state[h]
    BY <2>2, WithoutState
  <2>5. Once(held)' /\ HasState(t)' /\ Driven(t)'
    BY <1>4, <2>1, <2>2, <2>3, <2>4 DEF Once, HasState, Driven, Losing
  <2> QED
    BY <1>3, <1>5, <2>1, <2>5, CalmStep DEF InReclaim
<1>8. CASE ReclaimStream
  <2>1. PICK t : t = [pc |-> "reclaim", garbage |-> c.garbage]
    OBVIOUS
  <2>2. /\ c.pc = "reclaimStream" /\ Becomes("control", t) /\ held' = Unheld(held, c.gone) /\ UNCHANGED <<registry, state>>
        /\ t.pc = "reclaim"
    BY <1>1, <1>8, <2>1 DEF ReclaimStream, At
  <2>3. Once(held)' /\ Held' = Held \ {c.gone}
    BY <1>4, <2>2, HeldWithout
  <2>4. HasState(t)' /\ Driven(t)'
    BY <1>4, <2>2, <2>3 DEF HasState, Driven, Losing
  <2> QED
    BY <1>3, <1>5, <2>2, <2>3, <2>4, CalmStep DEF InReclaim
<1>9. CASE Reclaimed
  <2>1. /\ Becomes("control", Idle) /\ c.pc = "reclaim" /\ UNCHANGED <<registry, state, held>> /\ Idle.pc = "idle"
    BY <1>1, <1>9 DEF Reclaimed, At, disk, memory, Idle
  <2> QED
    BY <1>1, <1>3, <1>5, <2>1, CalmAlong DEF Losing
<1> QED
  BY <1>6, <1>7, <1>8, <1>9 DEF Reclaiming

LEMMA RegisterCalm ==
    ASSUME Ordered, Ordered', Calm, Register
    PROVE  Calm'
<1>1. PICK c : c = tasks["control"]
  OBVIOUS
<1>2. PICK t : t = [pc |-> "replace", target |-> c.target, then |-> c.then, fold |-> Builds(c.target),
                    displaced |-> displacedBySuccessor(c.target, registry, Held)]
  OBVIOUS
<1>3. /\ c.pc = "register" /\ state' = IF Builds(c.target) THEN Migrated(c.target) ELSE state
      /\ Becomes("control", t) /\ UNCHANGED <<registry, held>>
  BY <1>1, <1>2 DEF Register, At, memory
<1>4. Alone("control")
  BY <1>1, <1>3, AloneInStage DEF Passive
<1>5. /\ Once(held) /\ HasState(c) /\ Driven(c) /\ c.target \in Generations /\ World
      /\ registry.records \subseteq Generations /\ Held \subseteq Generations
  BY <1>1, <1>3, <1>4, CalmFacts, Adds, OrderedFacts
<1>6. Held' = Held
  BY <1>3 DEF Held
<1>7. t.pc = "replace" /\ t.target = c.target /\ (t.fold => c.target \notin Held)
  BY <1>2 DEF Builds
<1>8. /\ \A h \in Generations : state[h] # Nothing => state'[h] # Nothing
      /\ state'[c.target] # Nothing
  <2>1. CASE Builds(c.target)
    BY <1>3, <1>5, <2>1, MigratedCursor
  <2>2. CASE ~Builds(c.target)
    BY <1>3, <1>5, <2>2 DEF Builds, HasState
  <2> QED
    BY <2>1, <2>2
<1>9. Carries(t)' /\ Settles("control", t)'
  BY <1>6, <1>7, <1>8 DEF Carries, Settles, InDrop, InMove
<1>10. Once(held)' /\ HasState(t)' /\ Driven(t)'
  BY <1>3, <1>5, <1>6, <1>8 DEF Once, HasState, Driven, Losing
<1> QED
  BY <1>3, <1>4, <1>9, <1>10, CalmStep

LEMMA ReplaceCalm ==
    ASSUME Ordered, Ordered', Calm, Replace \/ ReplaceState
    PROVE  Calm'
<1>1. PICK c : c = tasks["control"]
  OBVIOUS
<1>2. c.pc \in InReplace /\ c.pc \notin Passive
  BY <1>1 DEF Replace, ReplaceState, At, InReplace, Passive
<1>3. Alone("control")
  BY <1>1, <1>2, AloneInStage
<1>4. Once(held) /\ HasState(c) /\ Driven(c) /\ Carries(c)
  BY <1>1, <1>3, CalmFacts
<1>5. state[c.target] # Nothing /\ (c.fold => c.target \notin Held)
  BY <1>2, <1>4 DEF Carries
<1>6. CASE Replace
  <2>1. PICK t : /\ Becomes("control", t) /\ t.target = c.target /\ t.fold = c.fold
                 /\ \/ t.pc = "replace" /\ registry' = registry
                    \/ /\ t.pc = "replaceState" /\ t.gone # c.target
                       /\ registry'.records = registry.records \ {t.gone}
    BY <1>1, <1>6, Replaces
  <2>2. c.pc = "replace" /\ UNCHANGED <<state, held>>
    BY <1>1, <1>6 DEF Replace, At, memory
  <2>3. Held' = Held
    BY <2>2 DEF Held
  <2>4. Carries(t)' /\ Settles("control", t)'
    BY <1>5, <2>1, <2>2, <2>3 DEF Carries, Settles, InDrop, InMove
  <2>5. Once(held)' /\ HasState(t)' /\ Driven(t)'
    BY <1>4, <2>1, <2>2, <2>3 DEF Once, HasState, Driven, Losing
  <2> QED
    BY <1>3, <2>1, <2>4, <2>5, CalmStep
<1>7. CASE ReplaceState
  <2>1. PICK t : t = [pc |-> "replace", displaced |-> c.displaced, target |-> c.target, then |-> c.then, fold |-> c.fold]
    OBVIOUS
  <2>2. /\ c.pc = "replaceState" /\ state' = [state EXCEPT ![c.gone] = Nothing] /\ Becomes("control", t)
        /\ held' = Unheld(held, c.gone) /\ registry' = registry
    BY <1>1, <1>7, <2>1 DEF ReplaceState, At
  <2>3. Once(held)' /\ Held' = Held \ {c.gone}
    BY <1>4, <2>2, HeldWithout
  <2>4. c.gone \notin registry.records /\ c.target \in Generations /\ c.gone # c.target
    BY <1>1, <1>2, <1>4, <2>2, Adds DEF Carries
  <2>5. /\ \A h \in registry.records : state'[h] = state[h]
        /\ \A h \in Held \ {c.gone} : state'[h] = state[h]
    BY <2>2, <2>4, WithoutState
  <2>6. state'[c.target] # Nothing
    <3>1. state \in [Generations -> (SUBSET Blocks) \cup {Nothing}]
      BY OrderedFacts
    <3> QED
      BY <1>5, <2>2, <2>4, <3>1
  <2>7. t.pc = "replace" /\ t.target = c.target /\ t.fold = c.fold
    BY <2>1
  <2>8. Carries(t)' /\ Settles("control", t)'
    BY <1>5, <2>3, <2>6, <2>7 DEF Carries, Settles, InDrop, InMove
  <2>9. HasState(t)' /\ Driven(t)'
    BY <1>4, <2>2, <2>3, <2>5 DEF HasState, Driven, Losing
  <2> QED
    BY <1>3, <2>2, <2>3, <2>8, <2>9, CalmStep
<1> QED
  BY <1>6, <1>7

LEMMA CreateCalm ==
    ASSUME Ordered, Ordered', Calm, Create
    PROVE  Calm'
<1>1. PICK c : c = tasks["control"]
  OBVIOUS
<1>2. PICK t : t = [pc |-> "policy", target |-> c.target, then |-> c.then]
  OBVIOUS
<1>3. /\ c.pc = "replace" /\ registry' = Created(registry, c.target, "successor") /\ Becomes("control", t)
      /\ state' = state
      /\ held' = IF c.fold THEN Append(held, c.target) ELSE held
  BY <1>1, <1>2 DEF Create, At
<1>4. Alone("control")
  BY <1>1, <1>3, AloneInStage DEF Passive
<1>5. Once(held) /\ HasState(c) /\ Driven(c) /\ Carries(c) /\ c.target \in Generations
  BY <1>1, <1>3, <1>4, CalmFacts, Adds DEF InReplace
<1>6. state[c.target] # Nothing /\ (c.fold => c.target \notin Held)
  BY <1>3, <1>5 DEF Carries, InReplace
<1>7. InOrder(registry) /\ held \in Seq(Generations) /\ Held = Folds(held)
  BY OrderedFacts
<1>8. registry'.records = registry.records \cup {c.target}
  BY <1>3, <1>5, <1>7, CreatedInOrder
<1>9. Once(held') /\ Folds(held') \subseteq Held \cup {c.target}
  BY <1>3, <1>5, <1>6, <1>7, Taken
<1>10. Once(held)' /\ Held' \subseteq Held \cup {c.target}
  BY <1>9 DEF Once, Held, Folds
<1>11. HasState(t)' /\ Driven(t)'
  BY <1>3, <1>5, <1>6, <1>8, <1>10 DEF HasState, Driven, Losing
<1>12. Carries(t)' /\ Settles("control", t)'
  BY <1>2, SettledCarries DEF Settled
<1> QED
  BY <1>3, <1>4, <1>10, <1>11, <1>12, CalmStep

LEMMA PolicyCalm ==
    ASSUME Ordered, Ordered', Calm, RefuseAtCap \/ ApplyPolicy
    PROVE  Calm'
<1>1. PICK c : c = tasks["control"]
  OBVIOUS
<1>2. c.pc \in {"replace", "policy"} /\ c.pc \notin Passive \cup Losing /\ UNCHANGED <<registry, state, held>>
  BY <1>1 DEF RefuseAtCap, ApplyPolicy, At, Passive, Losing, disk, memory
<1>3. PICK t : /\ Becomes("control", t)
               /\ \/ t = Continue("idle") \/ t = Continue(c.then) \/ t = [pc |-> "settle", then |-> c.then]
                  \/ t = [pc |-> "move", target |-> c.target, then |-> c.then, turn |-> Nothing, settles |-> FALSE]
  BY <1>1 DEF RefuseAtCap, ApplyPolicy, Continue
<1>4. c.then \in {"idle", "foldCanonical", "ready"}
  BY <1>1, <1>2, Adds DEF InReplace
<1>5. t.pc \in {"idle", "foldCanonical", "ready", "settle"} \/ (t.pc = "move" /\ ~t.settles)
  BY <1>3, <1>4, Continued
<1>6. Carries(t)' /\ Settles("control", t)'
  <2>1. CASE t.pc \in {"idle", "foldCanonical", "ready", "settle"}
    BY <2>1, SettledCarries DEF Settled, Passive, InOpen
  <2>2. CASE t.pc = "move" /\ ~t.settles
    BY <2>2 DEF Carries, Settles, InDrop, InReplace
  <2> QED
    BY <1>5, <2>1, <2>2
<1>7. Alone("control")
  BY <1>1, <1>2, AloneInStage
<1> QED
  BY <1>1, <1>2, <1>3, <1>6, <1>7, CalmAlong

-----------------------------------------------------------------------------
(* Calm: open, and a process that dies.                                     *)

LEMMA OpenCalm ==
    ASSUME Ordered, Ordered', Calm, OpenWithNothing \/ \E g \in Generations : OpenWith(g)
    PROVE  Calm'
<1>1. ~opened /\ tasks["control"].pc = "idle" /\ held' = <<>> /\ UNCHANGED <<registry, state>>
  BY DEF OpenWith, OpenWithNothing, At
<1>2. PICK t : Becomes("control", t) /\ t.pc \in {"foldCanonical", "register", "discard"}
  <2>1. \/ Becomes("control", [pc |-> "foldCanonical"])
        \/ \E g \in Generations : \/ Becomes("control", [pc |-> "discard", target |-> g])
                                  \/ Becomes("control", [pc |-> "register", target |-> g, then |-> "foldCanonical"])
    <3>1. ASSUME NEW g \in Generations, OpenWith(g)
          PROVE  \/ Becomes("control", [pc |-> "discard", target |-> g])
                 \/ Becomes("control", [pc |-> "register", target |-> g, then |-> "foldCanonical"])
      <4>1. CASE canonical = g /\ successor # Nothing
        BY <3>1, <4>1 DEF OpenWith
      <4>2. CASE ~(canonical = g /\ successor # Nothing)
        BY <3>1, <4>2 DEF OpenWith
      <4> QED
        BY <4>1, <4>2
    <3>2. CASE OpenWithNothing
      BY <3>2 DEF OpenWithNothing
    <3> QED
      BY <3>1, <3>2
  <2>2. PICK t : /\ Becomes("control", t)
                 /\ \/ t = [pc |-> "foldCanonical"]
                    \/ \E g : t = [pc |-> "discard", target |-> g]
                    \/ \E g : t = [pc |-> "register", target |-> g, then |-> "foldCanonical"]
    BY <2>1, Zenon
  <2> QED
    BY <2>2
<1>3. Alone("control") /\ \A g \in registry.records : state[g] # Nothing
  BY <1>1, AloneWhenShut, CalmFacts
<1>4. Held' = {} /\ Once(held)'
  BY <1>1 DEF Held, Once
<1>5. HasState(t)' /\ Driven(t)'
  BY <1>1, <1>3, <1>4 DEF HasState, Driven
<1>6. Carries(t)' /\ Settles("control", t)'
  BY <1>2, SettledCarries DEF Settled, InOpen
<1> QED
  BY <1>2, <1>3, <1>4, <1>5, <1>6, CalmStep

LEMMA DiscardCalm ==
    ASSUME Ordered, Ordered', Calm, DiscardPending \/ DiscardState
    PROVE  Calm'
<1>1. PICK c : c = tasks["control"]
  OBVIOUS
<1>2. c.pc \in {"discard", "discardState"} /\ held' = held
  BY <1>1 DEF DiscardPending, DiscardState, At, memory
<1>3. ~opened /\ held = <<>> /\ (c.pc = "discardState" => c.gone \notin registry.records)
  BY <1>1, <1>2, Called DEF Placed, InOpen, Losing
<1>4. Alone("control") /\ \A g \in registry.records : state[g] # Nothing
  BY <1>1, <1>3, AloneWhenShut, CalmFacts
<1>5. Held' = {} /\ Once(held)'
  BY <1>2, <1>3 DEF Held, Once
<1>6. PICK t : Becomes("control", t) /\ t.pc \in {"discardState", "register"}
  <2>1. \/ Becomes("control", [pc |-> "discardState", target |-> c.target, gone |-> successor])
        \/ Becomes("control", [pc |-> "register", target |-> c.target, then |-> "foldCanonical"])
    BY <1>1 DEF DiscardPending, DiscardState
  <2> QED
    BY <2>1
<1>7. \A g \in registry'.records : state'[g] # Nothing
  <2>1. CASE DiscardPending
    BY <1>4, <2>1, Discards DEF DiscardPending
  <2>2. CASE DiscardState
    <3>1. c.pc = "discardState" /\ state' = [state EXCEPT ![c.gone] = Nothing] /\ registry' = registry
      BY <1>1, <2>2 DEF DiscardState, At
    <3> QED
      BY <1>3, <1>4, <3>1, WithoutState
  <2> QED
    BY <2>1, <2>2
<1>8. HasState(t)' /\ Driven(t)'
  BY <1>5, <1>7 DEF HasState, Driven
<1>9. Carries(t)' /\ Settles("control", t)'
  BY <1>6, SettledCarries DEF Settled, InOpen
<1> QED
  BY <1>4, <1>5, <1>6, <1>8, <1>9, CalmStep

LEMMA FoldCalm ==
    ASSUME Ordered, Ordered', Calm, FoldTheCanonical \/ FoldTheSuccessor
    PROVE  Calm'
<1>1. PICK c : c = tasks["control"]
  OBVIOUS
<1>2. /\ c.pc \in {"foldCanonical", "foldSuccessor"} /\ c.pc \notin Losing /\ c.pc \notin Passive
      /\ UNCHANGED <<config, registry, stored, opened, counters>>
  BY <1>1 DEF FoldTheCanonical, FoldTheSuccessor, At, Losing, Passive
<1>3. Alone("control")
  BY <1>1, <1>2, AloneInStage
<1>4. /\ Once(held) /\ (\A h \in registry.records : state[h] # Nothing) /\ Held \subseteq registry.records
  BY <1>1, <1>2, <1>3, CalmFacts
<1>5. /\ canonical \in registry.records \cup {Nothing} /\ successor \in registry.records \cup {Nothing}
      /\ World /\ registry.records \subseteq Generations /\ held \in Seq(Generations) /\ Held = Folds(held)
  BY OrderedFacts
<1>6. PICK g, t :
          /\ g \in registry.records \cup {Nothing}
          /\ InstantiateAtOpen(g, t) /\ t.pc \in {"foldSuccessor", "ready", "policy"}
  BY <1>5 DEF FoldTheCanonical, FoldTheSuccessor
<1>7. /\ Becomes("control", t)
      /\ \/ state' = state /\ held' = held
         \/ g \in registry.records /\ g \notin Held /\ state' = Migrated(g) /\ held' = Append(held, g)
  BY <1>2, <1>6, FoldedAtOpen
<1>8. (\A h \in registry.records : state'[h] # Nothing) /\ Once(held') /\ Folds(held') \subseteq registry.records
  <2>1. CASE state' = state /\ held' = held
    BY <1>4, <1>5, <2>1
  <2>2. CASE g \in registry.records /\ g \notin Held /\ state' = Migrated(g) /\ held' = Append(held, g)
    <3>1. \A h \in Generations : state[h] # Nothing => state'[h] = state[h]
      BY <1>5, <2>2, MigratedCursor
    <3>2. Once(held') /\ Folds(held') = Held \cup {g}
      BY <1>4, <1>5, <2>2, Taken
    <3> QED
      BY <1>4, <1>5, <2>2, <3>1, <3>2
  <2> QED
    BY <1>7, <2>1, <2>2
<1>9. Held' \subseteq registry.records /\ Once(held)'
  BY <1>8 DEF Held, Folds, Once
<1>10. HasState(t)' /\ Driven(t)'
  BY <1>2, <1>8, <1>9 DEF HasState, Driven
<1>11. Carries(t)' /\ Settles("control", t)'
  BY <1>6, SettledCarries DEF Settled, InOpen
<1> QED
  BY <1>3, <1>7, <1>9, <1>10, <1>11, CalmStep

LEMMA OpenedCalm ==
    ASSUME Ordered, Ordered', Calm, InstantiationFailsAtOpen \/ Opened
    PROVE  Calm'
<1>1. PICK t : Becomes("control", t) /\ t.pc \in {"foldSuccessor", "ready", "idle"}
  BY DEF InstantiationFailsAtOpen, Opened, Idle
<1>2. /\ tasks["control"].pc \in {"foldCanonical", "foldSuccessor", "ready"} /\ UNCHANGED <<registry, state, held>>
  BY DEF InstantiationFailsAtOpen, Opened, At, disk, memory
<1>3. Alone("control")
  BY <1>2, AloneInStage DEF Passive
<1>4. Carries(t)' /\ Settles("control", t)'
  BY <1>1, SettledCarries DEF Settled, Passive, InOpen
<1> QED
  BY <1>1, <1>2, <1>3, <1>4, CalmAlong DEF Losing

(* Nothing is in flight and nothing is held: only the states have to be     *)
(* there.                                                                   *)
LEMMA CalmAtRest ==
    ASSUME held' = <<>>, tasks' = [p \in Tasks |-> Idle], \A g \in registry'.records : state'[g] # Nothing
    PROVE  Calm'
<1>1. tasks'["loop"] = Idle /\ tasks'["control"] = Idle /\ Idle.pc = "idle"
  BY DEF Tasks, Idle
<1>2. Held' = {} /\ Once(held)'
  BY DEF Held, Once
<1>3. PICK t : t = Idle
  OBVIOUS
<1>4. \A p \in {"loop", "control"} : Carries(t)' /\ Settles(p, t)'
  BY <1>1, <1>3, SettledCarries DEF Settled, Passive
<1>5. HasState(t)' /\ Driven(t)' /\ Apart(t, t)
  BY <1>1, <1>2, <1>3 DEF HasState, Driven, Apart, Passive
<1>6. HasState(tasks["control"])' /\ Driven(tasks["control"])' /\ Apart(tasks["loop"], tasks["control"])'
  BY <1>1, <1>3, <1>5 DEF HasState, Driven, Apart
<1>7. (\A p \in {"loop", "control"} : Carries(tasks[p]) /\ Settles(p, tasks[p]))'
  <2>1. ASSUME NEW p \in {"loop", "control"}
        PROVE  (Carries(tasks[p]) /\ Settles(p, tasks[p]))'
    <3>1. tasks'[p] = t
      BY <1>1, <1>3
    <3> QED
      BY <1>4, <3>1 DEF Carries, Settles
  <2> QED
    BY <2>1
<1> QED
  BY <1>2, <1>6, <1>7 DEF Calm

LEMMA RestartCalm ==
    ASSUME Calm, Restart
    PROVE  Calm'
<1>1. held' = <<>> /\ tasks' = [p \in Tasks |-> Idle] /\ UNCHANGED <<registry, state>>
  BY DEF Restart, disk
<1>2. \A g \in registry.records : state[g] # Nothing
  BY DEF Calm, HasState
<1> QED
  BY <1>1, <1>2, CalmAtRest

LEMMA CalmStutters ==
    ASSUME Calm, UNCHANGED vars
    PROVE  Calm'
<1>1. UNCHANGED <<registry, state, held, tasks>>
  BY DEF vars, disk, memory
<1>2. UNCHANGED <<Held, canonical, successor>>
  BY <1>1 DEF Held, canonical, successor
<1>3. ASSUME NEW p \in {"loop", "control"}
      PROVE  (Carries(tasks[p]) /\ Settles(p, tasks[p]))'
  <2>1. Carries(tasks[p]) /\ Settles(p, tasks[p])
    BY DEF Calm
  <2>2. Carries(tasks[p])'
    BY <1>1, <1>2, <2>1 DEF Carries
  <2>3. UNCHANGED <<cursorOf(tasks[p].target), cursorOf(canonical)>>
    BY <1>1, <1>2 DEF cursorOf, Reached
  <2>4. Settles(p, tasks[p])'
    BY <1>1, <1>2, <2>1, <2>3 DEF Settles, hasReachedCursor
  <2> QED
    BY <2>2, <2>4
<1> QED
  BY <1>1, <1>2, <1>3 DEF Calm, Once, Apart, HasState, Driven

-----------------------------------------------------------------------------
(* The invariant.                                                           *)

LEMMA InvInit ==
    ASSUME Init
    PROVE  Inv
<1>1. /\ config \in Configs /\ registry = EmptyRegistry
      /\ state = [g \in Generations |-> Nothing] /\ stored = [s \in Streams |-> Nothing]
      /\ opened = FALSE /\ held = <<>> /\ built = {} /\ tasks = [p \in Tasks |-> Idle] /\ controls = 0 /\ restarts = 0
  BY DEF Init
<1>2. InOrder(registry)
  <2>1. registry \in Registry
    <3>1. /\ [g \in Generations |-> 0] \in [Generations -> Nat]
          /\ [n \in SlotNames |-> Nothing] \in [SlotNames -> Generations \cup {Nothing}]
      OBVIOUS
    <3> QED
      BY <1>1, <3>1, RegistryOfParts DEF EmptyRegistry
  <2>2. SlotsSound(registry) /\ RecordsSound(registry)
    BY <1>1 DEF EmptyRegistry, SlotsSound, RecordsSound, StreamsOf
  <2>3. Bounded(registry)
    BY <1>1 DEF EmptyRegistry, Bounded
  <2> QED
    BY <2>1, <2>2, <2>3 DEF InOrder
<1>3. Len(config.calls) \in Nat /\ config.restarts \in Nat
  BY <1>1, ReceivingAssumption
<1>4. TypeOK
  <2>1. DOMAIN tasks = Tasks
    BY <1>1, Zenon
  <2>2. opened \in BOOLEAN
    BY <1>1, Zenon
  <2>3. /\ state \in [Generations -> (SUBSET Blocks) \cup {Nothing}] /\ stored \in [Streams -> Claim \cup {Nothing}]
        /\ held \in Seq(Generations) /\ built \subseteq Generations
    BY <1>1
  <2>4. controls \in 0 .. Len(config.calls) /\ restarts \in 0 .. config.restarts
    BY <1>1, <1>3
  <2> QED
    BY <1>1, <1>2, <2>1, <2>2, <2>3, <2>4 DEF TypeOK, InOrder
<1>5. NoHoles
  BY <1>1 DEF NoHoles
<1>6. \A p \in Tasks : tasks[p] = Idle
  BY <1>1
<1>7. tasks["control"] = Idle /\ tasks["loop"] = Idle /\ tasks["ingest"] = Idle /\ Idle.pc = "idle"
  BY <1>6 DEF Tasks, Idle
<1>8. Ordered
  BY <1>2, <1>4, <1>5, <1>6, <1>7, IdleTyped DEF Ordered, World, Shut, At
<1>9. Calm
  <2>1. Held = {} /\ registry.records = {} /\ Once(held)
    BY <1>1 DEF Held, EmptyRegistry, Once
  <2>2. \A p \in {"loop", "control"} : Carries(tasks[p]) /\ Settles(p, tasks[p])
    BY <1>7, SettledCarries DEF Settled, Passive
  <2> QED
    BY <1>7, <2>1, <2>2 DEF Calm, HasState, Driven, Apart, Passive
<1> QED
  BY <1>8, <1>9 DEF Inv

LEMMA ConfigStays ==
    ASSUME [Next]_vars
    PROVE  config' = config
<1>1. CASE Ingesting
  BY <1>1, Zenon DEF Ingesting, Receive, AppendEmissions, Deliver
<1>2. CASE Looping
  BY <1>2, Zenon DEF Looping, RebuildMore, Chunk
<1>3. ASSUME NEW p \in {"loop", "control"}, Moving(p) \/ InstantiationFails(p) \/ KeepFolding(p)
      PROVE  config' = config
  BY <1>3, Zenon DEF Moving, NothingToSettle, Settle, Level, Move, Instantiate, InstantiationFails,
                     CommitMove, MoveUnknown, AfterMove, LetGo, KeepFolding, Delete, DropState
<1>4. CASE Calling
  BY <1>4, Zenon DEF Calling, OpenWithNothing, OpenWith, Reclaim, Add, Promote, Calls
<1>5. CASE Adding
  BY <1>5, Zenon DEF Adding, Register, Replace, ReplaceState, Create, RefuseAtCap, ApplyPolicy
<1>6. CASE Reclaiming
  BY <1>6, Zenon DEF Reclaiming, ReclaimNext, ReclaimState, ReclaimStream, Reclaimed
<1>7. CASE Opening
  BY <1>7, Zenon DEF Opening, DiscardPending, DiscardState, FoldTheCanonical, FoldTheSuccessor, Opened
<1>8. CASE InstantiationFailsAtOpen \/ Restart
  BY <1>8, Zenon DEF InstantiationFailsAtOpen, Restart
<1>9. CASE UNCHANGED vars
  BY <1>9 DEF vars
<1> QED
  BY <1>1, <1>2, <1>3, <1>4, <1>5, <1>6, <1>7, <1>8, <1>9 DEF Next

LEMMA CalmNext ==
    ASSUME Ordered, Ordered', Calm, ~config.racing, [Next]_vars
    PROVE  Calm'
<1>1. CASE Ingesting
  BY <1>1, IngestingCalm
<1>2. CASE Looping
  BY <1>2, LoopingCalm
<1>3. ASSUME NEW p \in {"loop", "control"}, Moving(p) \/ InstantiationFails(p) \/ KeepFolding(p)
      PROVE  Calm'
  BY <1>3, SettleCalm, LevelCalm, MoveCalm, InstantiateCalm, CommitCalm, AfterCalm, LetGoCalm, DropCalm DEF Moving
<1>4. CASE Calling
  BY <1>4, CallsCalm, OpenCalm DEF Calling
<1>5. CASE Adding
  BY <1>5, RegisterCalm, ReplaceCalm, CreateCalm, PolicyCalm DEF Adding
<1>6. CASE Reclaiming
  BY <1>6, ReclaimingCalm
<1>7. CASE Opening
  BY <1>7, DiscardCalm, FoldCalm, OpenedCalm DEF Opening
<1>8. CASE InstantiationFailsAtOpen \/ Restart \/ UNCHANGED vars
  BY <1>8, OpenedCalm, RestartCalm, CalmStutters
<1> QED
  BY <1>1, <1>2, <1>3, <1>4, <1>5, <1>6, <1>7, <1>8 DEF Next

LEMMA InvNext ==
    ASSUME Inv, [Next]_vars
    PROVE  Inv'
<1>1. Ordered'
  BY OrderedStep DEF Inv
<1>2. config' = config
  BY ConfigStays
<1>3. ~config.racing => Calm'
  BY <1>1, CalmNext DEF Inv
<1> QED
  BY <1>1, <1>2, <1>3 DEF Inv

LEMMA Invariance == Spec => []Inv
<1>1. Init => Inv
  BY InvInit
<1>2. Inv /\ [Next]_vars => Inv'
  BY InvNext
<1> QED
  BY <1>1, <1>2, PTL DEF Spec

-----------------------------------------------------------------------------
(* What follows from it.                                                    *)

(* The registry, the states and the folds agree: every slot names one       *)
(* registered generation of its own, what is folded between two calls is    *)
(* registered, and what is registered has its state, whichever verb the     *)
(* process dies in.                                                         *)
THEOREM Sound == Spec => []ReceivingSound
<1>1. Inv => ReceivingSound
  <2>1. SUFFICES ASSUME Inv
                 PROVE  ReceivingSound
    OBVIOUS
  <2>2. TypeOK /\ RegistrySound
    BY <2>1 DEF Inv, Ordered, World, InOrder, RegistrySound
  <2>3. RegisteredHasState
    BY <2>1 DEF Inv, Calm, HasState, RegisteredHasState
  <2>4. HeldIsRegistered
    <3>1. SUFFICES ASSUME Quiet, ~config.racing
                   PROVE  Held \subseteq registry.records
      BY DEF HeldIsRegistered
    <3>2. tasks["control"].pc = "idle" /\ Driven(tasks["control"])
      BY <2>1, <3>1 DEF Inv, Calm, Quiet, At, Tasks
    <3> QED
      BY <3>2 DEF Driven, Losing
  <2> QED
    BY <2>2, <2>3, <2>4 DEF ReceivingSound
<1> QED
  BY <1>1, Invariance, PTL

(* Uploads, promotions that instantiate and starts never build a second     *)
(* fold over a state, however they follow each other.                       *)
THEOREM FoldedOnce == Spec => []OneFoldPerState
<1>1. Inv => OneFoldPerState
  BY DEF Inv, Calm, Once, OneFoldPerState
<1> QED
  BY <1>1, Invariance, PTL

(* No fold skips a block, although deliveries and chunks advance it by      *)
(* turns and its stream may be reaped and stored again in between.          *)
THEOREM Whole == Spec => []NoHoles
<1>1. Inv => NoHoles
  BY DEF Inv, Ordered, World
<1> QED
  BY <1>1, Invariance, PTL

(* Letting a fold go, or taking one on, leaves the others.                  *)
LEMMA StaysHeld ==
    ASSUME Ordered, NEW g, g \in Held
    PROVE  /\ held' = held => g \in Held'
           /\ \A h \in Generations : held' = Append(held, h) => g \in Held'
           /\ \A h : h # g /\ held' = Unheld(held, h) => g \in Held'
<1>1. held \in Seq(Generations) /\ g \in Folds(held) /\ Held' = Folds(held')
  BY OrderedFacts DEF Held, Folds
<1>2. ASSUME NEW h \in Generations, held' = Append(held, h)
      PROVE  g \in Held'
  <2>1. Folds(Append(held, h)) = Folds(held) \cup {h}
    BY <1>1, Taken
  <2> QED
    BY <1>1, <1>2, <2>1
<1>3. ASSUME NEW h, h # g, held' = Unheld(held, h)
      PROVE  g \in Held'
  <2>1. Folds(held) \ {h} \subseteq Folds(Unheld(held, h))
    BY <1>1, Spliced
  <2> QED
    BY <1>1, <1>3, <2>1
<1>4. held' = held => g \in Held'
  BY <1>1
<1> QED
  BY <1>2, <1>3, <1>4

(* What a call has deleted does not answer reads.                           *)
LEMMA GoneIsNotRead ==
    ASSUME Ordered, canonical \in Held, NEW c, c = tasks["control"], c.pc \in Losing
    PROVE  canonical # c.gone
<1>1. canonical \in registry.records
  BY OrderedFacts
<1> QED
  BY <1>1, Called DEF Placed

LEMMA ReadsStayFoldedStep ==
    ASSUME Ordered, Calm, [Next]_vars, opened, opened', canonical' = canonical, canonical \in Held
    PROVE  canonical \in Held'
<1>0. PICK g : g = canonical
  OBVIOUS
<1>1. CASE held' = held
  BY <1>1, StaysHeld
<1>2. ASSUME NEW p \in {"loop", "control"}, AfterMove(p) \/ LetGo(p)
      PROVE  canonical \in Held'
  <2>1. PICK c : c = tasks[p]
    OBVIOUS
  <2>2. Carries(c)
    BY <2>1 DEF Calm
  <2>3. CASE AfterMove(p)
    <3>1. c.pc = "moved" /\ c.target = g
      BY <1>0, <2>1, <2>2, <2>3 DEF Carries, AfterMove, At
    <3>2. PICK now, off : /\ now \in Seq(Generations) /\ Held \subseteq Folds(now)
                          /\ held' = IF off THEN Unheld(now, c.superseded) ELSE now
                          /\ off => c.superseded # c.target
      BY <2>1, <2>3, After
    <3>3. g \in Folds(held')
      BY <1>0, <3>1, <3>2, Spliced
    <3> QED
      BY <1>0, <3>3 DEF Held, Folds
  <2>4. CASE LetGo(p)
    <3>1. c.pc = "letGo" /\ held' = Unheld(held, c.gone)
      BY <2>1, <2>4 DEF LetGo, At
    <3>2. c.gone # g
      BY <1>0, <2>2, <3>1 DEF Carries
    <3> QED
      BY <1>0, <3>1, <3>2, StaysHeld
  <2> QED
    BY <1>2, <2>3, <2>4
<1>3. CASE ReclaimStream \/ ReplaceState
  <2>1. PICK c : c = tasks["control"]
    OBVIOUS
  <2>2. c.pc \in Losing /\ held' = Unheld(held, c.gone)
    BY <1>3, <2>1 DEF ReclaimStream, ReplaceState, At, Losing
  <2>3. g # c.gone
    BY <1>0, <2>1, <2>2, GoneIsNotRead
  <2> QED
    BY <1>0, <2>2, <2>3, StaysHeld
<1>4. CASE Create
  <2>1. PICK c : c = tasks["control"]
    OBVIOUS
  <2>2. c.pc = "replace" /\ held' = IF c.fold THEN Append(held, c.target) ELSE held
    BY <1>4, <2>1 DEF Create, At
  <2>3. c.target \in Generations
    BY <2>1, <2>2, Adds DEF InReplace
  <2> QED
    BY <2>2, <2>3, StaysHeld
<1>5. CASE FoldTheCanonical \/ FoldTheSuccessor
  BY <1>5, Called DEF Placed, InOpen, FoldTheCanonical, FoldTheSuccessor, At
<1>6. CASE Ingesting \/ Looping
  <2>1. UNCHANGED memory
    BY <1>6, Zenon DEF Ingesting, Looping, Receive, AppendEmissions, Deliver, RebuildMore, Chunk
  <2> QED
    BY <1>1, <2>1 DEF memory
<1>7. ASSUME NEW p \in {"loop", "control"}, Moving(p) \/ InstantiationFails(p) \/ KeepFolding(p)
      PROVE  canonical \in Held'
  <2>1. CASE AfterMove(p) \/ LetGo(p)
    BY <1>2, <2>1
  <2>2. CASE ~(AfterMove(p) \/ LetGo(p))
    <3>1. UNCHANGED memory
      BY <1>7, <2>2, Zenon DEF Moving, NothingToSettle, Settle, Level, Move, Instantiate, InstantiationFails,
                               CommitMove, MoveUnknown, KeepFolding, Delete, DropState
    <3> QED
      BY <1>1, <3>1 DEF memory
  <2> QED
    BY <2>1, <2>2
<1>8. CASE Calling
  <2>1. CASE OpenWithNothing \/ \E h \in Generations : OpenWith(h)
    BY <2>1 DEF OpenWith, OpenWithNothing
  <2>2. CASE Reclaim \/ \E h \in Generations : Add(h) \/ Promote(h)
    <3>1. UNCHANGED memory
      BY <2>2, Zenon DEF Reclaim, Add, Promote, Calls
    <3> QED
      BY <1>1, <3>1 DEF memory
  <2> QED
    BY <1>8, <2>1, <2>2 DEF Calling
<1>9. CASE Adding \/ Reclaiming
  <2>1. CASE ReclaimStream \/ ReplaceState \/ Create
    BY <1>3, <1>4, <2>1
  <2>2. CASE Register \/ Replace \/ RefuseAtCap \/ ApplyPolicy \/ ReclaimNext \/ ReclaimState \/ Reclaimed
    <3>1. UNCHANGED memory
      BY <2>2, Zenon DEF Register, Replace, RefuseAtCap, ApplyPolicy, ReclaimNext, ReclaimState, Reclaimed
    <3> QED
      BY <1>1, <3>1 DEF memory
  <2> QED
    BY <1>9, <2>1, <2>2 DEF Adding, Reclaiming
<1>10. CASE Opening \/ InstantiationFailsAtOpen
  <2>1. CASE DiscardPending \/ DiscardState \/ InstantiationFailsAtOpen
    <3>1. UNCHANGED memory
      BY <2>1, Zenon DEF DiscardPending, DiscardState, InstantiationFailsAtOpen
    <3> QED
      BY <1>1, <3>1 DEF memory
  <2>2. CASE Opened
    BY <1>1, <2>2 DEF Opened
  <2> QED
    BY <1>5, <1>10, <2>1, <2>2 DEF Opening
<1>11. CASE Restart
  BY <1>11 DEF Restart
<1>12. CASE UNCHANGED vars
  BY <1>1, <1>12 DEF vars, memory
<1> QED
  BY <1>6, <1>7, <1>8, <1>9, <1>10, <1>11, <1>12 DEF Next

(* What answers reads is driven until reads move, where no two calls race:  *)
(* a promotion decides what it lets go of before its commit, reads have not *)
(* moved back when it does, and a reclaim or a replacement lets go only of  *)
(* what it deleted.                                                         *)
THEOREM ReadsAreFolded == Spec => ReadsStayFolded
<1>1. Inv /\ [Next]_vars =>
         [~config.racing /\ opened /\ opened' /\ canonical' = canonical /\ canonical \in Held
            => canonical \in Held']_vars
  BY ReadsStayFoldedStep DEF Inv
<1> QED
  BY <1>1, Invariance, PTL DEF Spec, ReadsStayFolded

(* A promotion that settles moves reads to a state that has reached what    *)
(* answers, although both may be folded between the comparison and the      *)
(* move: the turn that is taken, and what nothing here folds, keep it true. *)
THEOREM SettlesForward == Spec => SettlingNeverGoesBack
<1>1. Inv /\ [Next]_vars =>
         [~config.racing => \A p \in {"loop", "control"} :
            CommitMove(p) /\ tasks[p].settles /\ (p = "loop" \/ canonical \in Held) =>
                hasReachedCursor(cursorOf(tasks[p].target), cursorOf(canonical))]_vars
  <2>1. SUFFICES ASSUME Inv, ~config.racing, NEW p \in {"loop", "control"},
                        CommitMove(p), tasks[p].settles, p = "loop" \/ canonical \in Held
                 PROVE  hasReachedCursor(cursorOf(tasks[p].target), cursorOf(canonical))
    OBVIOUS
  <2>2. Settles(p, tasks[p]) /\ tasks[p].pc = "commit"
    BY <2>1 DEF Inv, Calm, CommitMove, At
  <2> QED
    BY <2>1, <2>2 DEF Settles, InMove
<1> QED
  BY <1>1, Invariance, PTL DEF Spec, SettlingNeverGoesBack
=============================================================================
