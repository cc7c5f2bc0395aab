--------------------------- MODULE ContainerProofs ---------------------------
(***************************************************************************)
(* What the container keeps true however adds, promotions, drops and       *)
(* deaths interleave, for every set of generations and streams, every      *)
(* policy and every height: the registry stays in order, what is driven is *)
(* registered, the fold that answers is the one the registry names, a      *)
(* promotion by the loop never moves reads back, and each stream has one   *)
(* fold that fetches it.                                                   *)
(*                                                                         *)
(* The invariant is about what a task carries over its awaits: the target  *)
(* of a move, the fold a drop is about to delete, the one that was deleted *)
(* and is still to be stopped.                                             *)
(***************************************************************************)
EXTENDS Container, FiniteSetTheorems, SequenceTheorems, WellFoundedInduction, TLAPS

(* One move of reads is in flight at a time.                                *)
OneMove == Racing = FALSE

(* A registry in order: as RegistrySound has it, and with ages that do not  *)
(* grow without bound, so that there is a newest.                           *)

Bounded(r) == \E n \in Nat : \A g \in Generations : r.born[g] <= n

InOrder(r) == r \in Registry /\ SlotsSound(r) /\ RecordsSound(r) /\ Bounded(r)

-----------------------------------------------------------------------------
(* The parts of the invariant. First the container between its awaits.      *)

Folds(s) == {s[i] : i \in DOMAIN s}

Once(s) == \A i, j \in DOMAIN s : s[i] = s[j] => i = j

(* Nothing is ever kept for a revert: no move assigns a predecessor.        *)
Books == InOrder(registry) /\ registry.slots.predecessor = Nothing

(* Before open has ended there is nothing to promote or to drop; after it,  *)
(* the fold that answers reads is the one the registry names.               *)
Answering ==
    /\ ~opened => deferred = {} /\ candidate = {}
    /\ opened => current \in Generations /\ current = registry.slots.canonical

(* Drops wait under `immediate` alone, candidates under `on-catch-up`.      *)
ByPolicy ==
    /\ deferred # {} => policy = "immediate"
    /\ candidate # {} => policy = "on-catch-up"

(* A cursor that was seen is the state's, while the fold is registered and  *)
(* driven, and is never behind it.                                          *)
Level ==
    /\ \A g \in Generations : lastSync[g] # Nothing => lastSync[g] >= state[g]
    /\ \A g \in Held \cap registry.records : lastSync[g] # Nothing => lastSync[g] = state[g]

World == TypeOK /\ Books /\ Once(held) /\ Answering /\ ByPolicy /\ Level

(* Then what a task t carries over an await.                                *)

InMove == {"move", "commit"}
InDrop == {"delete", "dropState"}
InRegister == {"register", "displace", "stop"}

(* What each stage carries.                                                 *)
TaskTyped(p, t) ==
    /\ t.pc \in InRegister \cup {"resolve"} => p = "control"
    /\ t.pc \in InRegister \cup InMove => t.target \in Generations
    /\ t.pc \in InMove => t.superseded \in Generations
    /\ t.pc \in InDrop \cup {"stop"} => t.gone \in Generations
    /\ t.pc \in InMove \cup InDrop => t.then \in {"idle", "drops"}
    /\ t.pc = "cycle" => p = "index" /\ t.todo \in Seq(Generations)

(* Which stages a closed container, and which each policy, can be in.       *)
TaskInPlace(p, t) ==
    /\ t.pc = "resolve" => ~opened
    /\ ~opened => t.pc \notin InMove \cup InDrop \cup {"drops", "cycle"}
    /\ p = "index" /\ t.pc \in InMove => policy = "on-catch-up"
    /\ p = "control" /\ t.pc = "drops" => policy = "on-catch-up"
    /\ p = "control" /\ t.pc \in InMove \cup InDrop /\ t.then = "drops" => policy = "on-catch-up"

(* A fold is out of the loop before it is deleted, and does not come back   *)
(* before its state is gone. One that was deleted for an arriving one has   *)
(* no record while it is waiting to be stopped.                             *)
TaskDrops(t) ==
    /\ t.pc = "stop" => t.gone \notin registry.records
    /\ t.pc \in InDrop => t.gone \notin Held

(* What the loop moves reads to stays in the loop, and level, unless its    *)
(* record goes.                                                             *)
TaskMoves(p, t) ==
    p = "index" /\ t.pc \in InMove /\ t.target \in registry.records =>
        t.target \in Held /\ state[t.target] >= state[t.superseded]

TaskSafe(p, t) == TaskTyped(p, t) /\ TaskInPlace(p, t) /\ TaskDrops(t) /\ TaskMoves(p, t)

(* A driven fold is registered, or is the one that was deleted for an       *)
(* arriving one and is about to be stopped.                                 *)
Driven(t) == \A g \in Held : g \in registry.records \/ (t.pc = "stop" /\ t.gone = g)

(* Unless reads are moved back under a waiting drop: what answers is        *)
(* driven, no drop that waits is about it, nor about what is being added or *)
(* moved to by an operator.                                                 *)
Kept(t) ==
    /\ opened => current \in Held /\ \A d \in deferred : d.superseded # current
    /\ t.pc \in InRegister \cup InMove => \A d \in deferred : d.superseded # t.target
    /\ t.pc \in InMove /\ t.target \in registry.records => t.target \in Held

Apart(t, u) == ~(t.pc \in InMove /\ u.pc \in InMove)

Inv ==
    /\ World
    /\ \A p \in Tasks : TaskSafe(p, tasks[p])
    /\ Driven(tasks["control"])
    /\ Apart(tasks["index"], tasks["control"])
    /\ ~Revert => Kept(tasks["control"])

-----------------------------------------------------------------------------
(* Least elements: a set of numbers has one, and a bounded one a greatest.  *)

(* Every set of natural numbers that is not empty has a least element.      *)
LEMMA LeastNumber ==
    ASSUME NEW S \in SUBSET Nat, S # {}
    PROVE  \E n \in S : \A m \in S : n <= m
<1>1. IsWellFoundedOn(OpToRel(<, Nat), Nat)
  BY NatLessThanWellFounded
<1>2. PICK n \in S : \A m \in S : ~(<<m, n>> \in OpToRel(<, Nat))
  BY <1>1, WFMin
<1>3. \A m \in S : ~(m < n)
  BY <1>2 DEF OpToRel
<1> QED
  BY <1>3

(* A set of generations whose ages are bounded has a newest.                *)
LEMMA NewestExists ==
    ASSUME NEW S, S # {}, NEW born, \A g \in S : born[g] \in Nat,
           NEW n \in Nat, \A g \in S : born[g] <= n
    PROVE  Newest(S, born) \in S /\ \A h \in S : born[Newest(S, born)] >= born[h]
<1> DEFINE U == {m \in Nat : \A g \in S : born[g] <= m}
<1>1. n \in U
  OBVIOUS
<1>2. PICK m \in U : \A k \in U : m <= k
  BY <1>1, LeastNumber
<1>3. \E g \in S : born[g] >= m
  <2>1. SUFFICES ASSUME \A g \in S : born[g] < m
                 PROVE  FALSE
    BY <1>2
  <2>2. m - 1 \in U
    BY <1>2, <2>1
  <2> QED
    BY <1>2, <2>2
<1>4. \E g \in S : \A h \in S : born[g] >= born[h]
  BY <1>2, <1>3
<1> QED
  BY <1>4 DEF Newest

(* The first of a set of positions is one of them.                          *)
LEMMA FirstIsOne ==
    ASSUME NEW I \in SUBSET Nat, I # {}
    PROVE  First(I) \in I
BY LeastNumber DEF First

-----------------------------------------------------------------------------
(* The registry's verbs.                                                    *)

(* What the parts of a registry are.                                        *)
LEMMA RegistryParts ==
    ASSUME NEW r \in Registry
    PROVE  /\ r.records \subseteq Generations /\ r.born \in [Generations -> Nat]
           /\ r.slots \in [SlotNames -> Generations \cup {Nothing}] /\ r.kept \subseteq Streams
BY DEF Registry

(* A verb's registry is one when its parts are.                             *)
LEMMA RegistryOfParts ==
    ASSUME NEW records, NEW born, NEW slots, NEW kept,
           records \subseteq Generations, born \in [Generations -> Nat],
           slots \in [SlotNames -> Generations \cup {Nothing}], kept \subseteq Streams
    PROVE  [records |-> records, born |-> born, slots |-> slots, kept |-> kept] \in Registry
BY DEF Registry

(* create keeps the registry in order: the arriving generation is younger   *)
(* than every other, and takes a slot that is its own.                      *)
LEMMA CreatedInOrder ==
    ASSUME NEW r, InOrder(r), NEW g \in Generations
    PROVE  /\ InOrder(Created(r, g, "successor"))
           /\ Created(r, g, "successor").records = r.records \cup {g}
           /\ r.slots.canonical # Nothing =>
                 Created(r, g, "successor").slots.canonical = r.slots.canonical
           /\ r.slots.predecessor = Nothing => Created(r, g, "successor").slots.predecessor = Nothing
           /\ g \in r.records => Created(r, g, "successor").born = r.born
           /\ g \notin r.records => \A h \in r.records :
                 /\ Created(r, g, "successor").born[h] = r.born[h]
                 /\ Created(r, g, "successor").born[h] < Created(r, g, "successor").born[g]
<1> DEFINE highest == IF r.records = {} THEN 0 ELSE r.born[Newest(r.records, r.born)]
           slots == IF r.slots.canonical = Nothing
                    THEN [r.slots EXCEPT !.canonical = g]
                    ELSE IF r.slots.predecessor = g
                    THEN [r.slots EXCEPT !.successor = g, !.predecessor = Nothing]
                    ELSE IF slotHolding(r.slots, g) = {}
                    THEN [r.slots EXCEPT !.successor = g]
                    ELSE r.slots
           born == IF g \in r.records THEN r.born ELSE [r.born EXCEPT ![g] = highest + 1]
           new == [records |-> r.records \cup {g}, born |-> born, slots |-> slots,
                   kept |-> r.kept \cup {StreamOf[g]}]
<1>0. /\ r.records \subseteq Generations /\ r.born \in [Generations -> Nat]
      /\ r.slots \in [SlotNames -> Generations \cup {Nothing}] /\ r.kept \subseteq Streams
  BY RegistryParts DEF InOrder
<1>1. Created(r, g, "successor") = new
  BY GenerationsAssumption DEF Created, SlotNames
<1>2. highest \in Nat /\ \A h \in r.records : r.born[h] <= highest
  <2>1. CASE r.records = {}
    BY <2>1
  <2>2. CASE r.records # {}
    <3>1. PICK n \in Nat : \A h \in Generations : r.born[h] <= n
      BY DEF InOrder, Bounded
    <3>2. /\ Newest(r.records, r.born) \in r.records
          /\ \A h \in r.records : r.born[Newest(r.records, r.born)] >= r.born[h]
      BY <1>0, <2>2, <3>1, NewestExists
    <3> QED
      BY <1>0, <2>2, <3>2
  <2> QED
    BY <2>1, <2>2
<1> HIDE DEF highest
<1>3. slots \in [SlotNames -> Generations \cup {Nothing}]
  BY <1>0 DEF SlotNames
<1>4. born \in [Generations -> Nat]
  BY <1>0, <1>2
<1>5. new \in Registry
  <2>1. r.records \cup {g} \subseteq Generations /\ r.kept \cup {StreamOf[g]} \subseteq Streams
    BY <1>0, GenerationsAssumption
  <2> HIDE DEF slots, born
  <2> QED
    BY <1>3, <1>4, <2>1, RegistryOfParts
<1>6. SlotsSound(new)
  <2>1. /\ \A n \in SlotNames : r.slots[n] # Nothing => r.slots[n] \in r.records
        /\ \A n, m \in SlotNames : r.slots[n] = r.slots[m] /\ r.slots[n] # Nothing => n = m
        /\ r.records # {} => r.slots.canonical # Nothing
    BY DEF InOrder, SlotsSound
  <2>2. \A n \in SlotNames : slots[n] # Nothing => slots[n] \in r.records \cup {g}
    BY <1>0, <2>1 DEF SlotNames
  <2>3. \A n, m \in SlotNames : slots[n] = slots[m] /\ slots[n] # Nothing => n = m
    <3>1. CASE r.slots.canonical = Nothing
      <4>1. \A n \in SlotNames : r.slots[n] = Nothing
        BY <2>1, <3>1
      <4> QED
        BY <1>0, <3>1, <4>1 DEF SlotNames
    <3>2. CASE r.slots.canonical # Nothing /\ r.slots.predecessor = g
      BY <1>0, <2>1, <3>2 DEF SlotNames
    <3>3. CASE r.slots.canonical # Nothing /\ r.slots.predecessor # g /\ slotHolding(r.slots, g) = {}
      <4>1. \A n \in SlotNames : r.slots[n] # g
        BY <3>3 DEF slotHolding
      <4> QED
        BY <1>0, <2>1, <3>3, <4>1 DEF SlotNames
    <3> QED
      BY <2>1, <3>1, <3>2, <3>3
  <2>4. slots.canonical # Nothing
    BY <1>0, GenerationsAssumption DEF SlotNames
  <2> QED
    BY <2>2, <2>3, <2>4 DEF SlotsSound
<1>7. RecordsSound(new)
  <2>1. /\ StreamsOf(r.records) \subseteq r.kept
        /\ \A h, k \in r.records : r.born[h] = r.born[k] => h = k
    BY DEF InOrder, RecordsSound
  <2>2. StreamsOf(r.records \cup {g}) \subseteq r.kept \cup {StreamOf[g]}
    BY <2>1 DEF StreamsOf
  <2>3. ASSUME NEW h \in r.records \cup {g}, NEW k \in r.records \cup {g}, born[h] = born[k]
        PROVE  h = k
    <3>1. \A x \in r.records : born[x] = r.born[x] /\ born[x] \in Nat
      BY <1>0
    <3>2. g \notin r.records => born[g] = highest + 1
      BY <1>0
    <3> QED
      BY <1>2, <2>1, <2>3, <3>1, <3>2
  <2> QED
    BY <2>2, <2>3 DEF RecordsSound
<1>8. Bounded(new)
  <2>1. PICK n \in Nat : \A h \in Generations : r.born[h] <= n
    BY DEF InOrder, Bounded
  <2> DEFINE m == IF n < highest + 1 THEN highest + 1 ELSE n
  <2>2. m \in Nat /\ \A h \in Generations : born[h] <= m
    BY <1>0, <1>2, <2>1
  <2> QED
    BY <2>2 DEF Bounded
<1>9. /\ r.slots.canonical # Nothing => slots.canonical = r.slots.canonical
      /\ r.slots.predecessor = Nothing => slots.predecessor = Nothing
  BY <1>0, GenerationsAssumption DEF SlotNames
<1>10. InOrder(new)
  BY <1>5, <1>6, <1>7, <1>8 DEF InOrder
<1>11. new.records = r.records \cup {g} /\ new.slots = slots /\ new.born = born
  OBVIOUS
<1>12. /\ g \in r.records => born = r.born
       /\ g \notin r.records => \A h \in r.records : born[h] = r.born[h] /\ born[h] < born[g]
  BY <1>0, <1>2
<1> HIDE DEF new, slots, born
<1> QED
  BY <1>1, <1>9, <1>10, <1>11, <1>12

(* moveCanonicalTo keeps the registry in order, as long as the target is    *)
(* not what a revert would go back to, or that slot is assigned afresh.     *)
LEMMA MovedInOrder ==
    ASSUME NEW r, InOrder(r), NEW g \in r.records, r.slots.predecessor = Nothing
    PROVE  /\ InOrder(MovedTo(r, g, FALSE))
           /\ MovedTo(r, g, FALSE).records = r.records /\ MovedTo(r, g, FALSE).born = r.born
           /\ MovedTo(r, g, FALSE).slots.canonical = g
           /\ MovedTo(r, g, FALSE).slots.predecessor = Nothing
<1>0. /\ r.records \subseteq Generations /\ r.born \in [Generations -> Nat]
      /\ r.slots \in [SlotNames -> Generations \cup {Nothing}] /\ r.kept \subseteq Streams
  BY RegistryParts DEF InOrder
<1>1. CASE r.slots.canonical = g
  BY <1>1 DEF MovedTo
<1>2. CASE r.slots.canonical # g
  <2> DEFINE slots == [canonical |-> g,
                       successor |-> IF r.slots.successor = g THEN Nothing ELSE r.slots.successor,
                       predecessor |-> Nothing]
             new == [r EXCEPT !.slots = slots]
  <2>1. MovedTo(r, g, FALSE) = new
    BY <1>2 DEF MovedTo
  <2>2. slots \in [SlotNames -> Generations \cup {Nothing}]
    BY <1>0 DEF SlotNames
  <2>3. new \in Registry
    BY <2>2 DEF InOrder, Registry
  <2>4. new.records = r.records /\ new.born = r.born /\ new.kept = r.kept /\ new.slots = slots
    BY DEF InOrder, Registry
  <2>5. SlotsSound(new)
    <3>1. \A n \in SlotNames : r.slots[n] # Nothing => r.slots[n] \in r.records
      BY DEF InOrder, SlotsSound
    <3>2. \A n \in SlotNames : slots[n] # Nothing => slots[n] \in r.records
      BY <3>1 DEF SlotNames
    <3>3. \A n, m \in SlotNames : slots[n] = slots[m] /\ slots[n] # Nothing => n = m
      BY DEF SlotNames
    <3>4. slots.canonical # Nothing
      BY <1>0, GenerationsAssumption
    <3> QED
      BY <2>4, <3>2, <3>3, <3>4 DEF SlotsSound
  <2>6. RecordsSound(new) /\ Bounded(new)
    BY <2>4 DEF InOrder, RecordsSound, Bounded
  <2>7. InOrder(new)
    BY <2>3, <2>5, <2>6 DEF InOrder
  <2>8. slots.canonical = g /\ slots.predecessor = Nothing
    OBVIOUS
  <2> HIDE DEF new, slots
  <2> QED
    BY <2>1, <2>4, <2>7, <2>8
<1> QED
  BY <1>1, <1>2

(* deleteGeneration of one that may be deleted keeps the registry in order, *)
(* and reads where they are.                                                *)
LEMMA DeletedInOrder ==
    ASSUME NEW r, InOrder(r), NEW g, Deletable(r, g), NEW reapStream \in BOOLEAN
    PROVE  /\ InOrder(deleteGeneration(r, g, reapStream))
           /\ deleteGeneration(r, g, reapStream).records = r.records \ {g}
           /\ deleteGeneration(r, g, reapStream).born = r.born
           /\ deleteGeneration(r, g, reapStream).slots.canonical = r.slots.canonical
           /\ r.slots.predecessor = Nothing => deleteGeneration(r, g, reapStream).slots.predecessor = Nothing
<1>0. /\ r.records \subseteq Generations /\ r.born \in [Generations -> Nat]
      /\ r.slots \in [SlotNames -> Generations \cup {Nothing}] /\ r.kept \subseteq Streams
  BY RegistryParts DEF InOrder
<1> DEFINE slots == [n \in SlotNames |-> IF r.slots[n] \in {g} THEN Nothing ELSE r.slots[n]]
           kept == IF Reaps(r, g, reapStream) THEN r.kept \ {StreamOf[g]} ELSE r.kept
           new == deleteGeneration(r, g, reapStream)
<1>1. /\ new.records = r.records \ {g} /\ new.born = r.born /\ new.slots = slots /\ new.kept = kept
      /\ new \in Registry
  <2>1. slots \in [SlotNames -> Generations \cup {Nothing}]
    BY <1>0
  <2>2. kept \subseteq Streams
    BY <1>0
  <2>3. new = [[r EXCEPT !.records = r.records \ {g}, !.slots = slots] EXCEPT !.kept = kept]
    BY DEF deleteGeneration, Without, InOrder, Registry
  <2> QED
    BY <1>0, <2>1, <2>2, <2>3 DEF InOrder, Registry
<1>2. g \in r.records /\ r.slots.canonical # g /\ r.slots.canonical # Nothing
  BY DEF Deletable, InOrder, SlotsSound
<1>3. slots.canonical = r.slots.canonical /\ (r.slots.predecessor = Nothing => slots.predecessor = Nothing)
  BY <1>2 DEF SlotNames
<1>4. SlotsSound(new)
  <2>1. /\ \A n \in SlotNames : r.slots[n] # Nothing => r.slots[n] \in r.records
        /\ \A n, m \in SlotNames : r.slots[n] = r.slots[m] /\ r.slots[n] # Nothing => n = m
    BY DEF InOrder, SlotsSound
  <2> QED
    BY <1>1, <1>2, <1>3, <2>1 DEF SlotsSound
<1>5. RecordsSound(new)
  <2>1. /\ \A h \in r.records : StreamOf[h] \in r.kept
        /\ \A h, k \in r.records : r.born[h] = r.born[k] => h = k
    BY DEF InOrder, RecordsSound, StreamsOf
  <2>2. ASSUME NEW h \in r.records \ {g}
        PROVE  StreamOf[h] \in kept
    BY <1>2, <2>1 DEF Reaps, OnStream
  <2> QED
    BY <1>1, <2>1, <2>2 DEF RecordsSound, StreamsOf
<1>6. Bounded(new)
  BY <1>1 DEF InOrder, Bounded
<1> QED
  BY <1>1, <1>3, <1>4, <1>5, <1>6 DEF InOrder

-----------------------------------------------------------------------------
(* The folds that are held.                                                 *)

(* A fold that is taken on comes last.                                      *)
LEMMA Taken ==
    ASSUME NEW s \in Seq(Generations), Once(s), NEW g \in Generations, g \notin Folds(s)
    PROVE  /\ Append(s, g) \in Seq(Generations) /\ Once(Append(s, g))
           /\ Folds(Append(s, g)) = Folds(s) \cup {g}
<1>1. /\ Append(s, g) \in Seq(Generations) /\ Len(Append(s, g)) = Len(s) + 1
      /\ Append(s, g)[Len(s) + 1] = g /\ \A i \in 1 .. Len(s) : Append(s, g)[i] = s[i]
  BY AppendProperties
<1>2. DOMAIN s = 1 .. Len(s) /\ DOMAIN Append(s, g) = 1 .. Len(s) + 1 /\ Len(s) \in Nat
  BY <1>1
<1> DEFINE a == Append(s, g)
           n == Len(s)
<1> HIDE DEF a, n
<1>3. /\ DOMAIN s = 1 .. n /\ DOMAIN a = 1 .. n + 1 /\ n \in Nat
      /\ a[n + 1] = g /\ \A i \in 1 .. n : a[i] = s[i]
  BY <1>1, <1>2 DEF a, n
<1>4. Once(a)
  BY <1>3 DEF Once, Folds
<1>5. Folds(a) = Folds(s) \cup {g}
  <2>1. ASSUME NEW x \in Folds(a)
        PROVE  x \in Folds(s) \cup {g}
    BY <1>3, <2>1 DEF Folds
  <2>2. ASSUME NEW x \in Folds(s)
        PROVE  x \in Folds(a)
    <3>1. PICK i \in 1 .. n : s[i] = x
      BY <1>3, <2>2 DEF Folds
    <3>2. i \in DOMAIN a /\ a[i] = x
      BY <1>3, <3>1
    <3> QED
      BY <3>2 DEF Folds
  <2>3. g \in Folds(a)
    BY <1>3 DEF Folds
  <2> QED
    BY <2>1, <2>2, <2>3
<1> QED
  BY <1>1, <1>4, <1>5 DEF a

(* A fold that is let go is gone, and the others stay in their order.       *)
LEMMA LetGo ==
    ASSUME held \in Seq(Generations), Once(held), NEW g \in Generations
    PROVE  /\ Unheld(g) \in Seq(Generations) /\ Once(Unheld(g))
           /\ Folds(Unheld(g)) = Held \ {g}
<1>1. CASE g \notin Held
  BY <1>1 DEF Unheld, Held, Folds
<1>2. CASE g \in Held
  <2> DEFINE k == CHOOSE i \in DOMAIN held : held[i] = g
             n == Len(held)
             q == SubSeq(held, 1, k - 1) \o SubSeq(held, k + 1, n)
  <2>1. k \in DOMAIN held /\ held[k] = g
    BY <1>2 DEF Held
  <2>2. Unheld(g) = q
    BY <1>2 DEF Unheld
  <2>3. n \in Nat /\ DOMAIN held = 1 .. n /\ \A i \in 1 .. n : held[i] \in Generations
    OBVIOUS
  <2> HIDE DEF k, n
  <2>4. k \in 1 .. n /\ k \in Nat
    BY <2>1, <2>3
  <2> DEFINE l == SubSeq(held, 1, k - 1)
             r == SubSeq(held, k + 1, n)
  <2>5. l \in Seq(Generations) /\ Len(l) = k - 1 /\ \A i \in 1 .. k - 1 : l[i] = held[i]
    BY <2>3, <2>4 DEF n
  <2>6. r \in Seq(Generations) /\ Len(r) = n - k /\ \A i \in 1 .. n - k : r[i] = held[i + k]
    <3>1. /\ Len(r) = n - k /\ r \in Seq(Generations)
          /\ \A i \in 1 .. n - k : r[i] = held[(k + 1) + i - 1]
      BY <2>3, <2>4 DEF n
    <3>2. \A i \in 1 .. n - k : (k + 1) + i - 1 = i + k
      BY <2>3, <2>4
    <3> QED
      BY <3>1, <3>2
  <2> HIDE DEF l, r
  <2>7. /\ q = l \o r /\ q \in Seq(Generations) /\ Len(q) = n - 1
        /\ \A i \in 1 .. n - 1 : q[i] = IF i < k THEN held[i] ELSE held[i + 1]
    <3>1. q = l \o r
      BY DEF l, r
    <3>2. /\ l \o r \in Seq(Generations) /\ Len(l \o r) = n - 1
          /\ \A i \in 1 .. n - 1 : (l \o r)[i] = IF i <= k - 1 THEN l[i] ELSE r[i - (k - 1)]
      BY <2>3, <2>4, <2>5, <2>6
    <3>3. ASSUME NEW i \in 1 .. n - 1
          PROVE  (l \o r)[i] = IF i < k THEN held[i] ELSE held[i + 1]
      <4>1. CASE i < k
        BY <2>3, <2>4, <2>5, <3>2, <4>1
      <4>2. CASE ~(i < k)
        <5>1. i - (k - 1) \in 1 .. n - k /\ (i - (k - 1)) + k = i + 1 /\ ~(i <= k - 1)
          BY <2>3, <2>4, <4>2
        <5> QED
          BY <2>6, <3>2, <4>2, <5>1
      <4> QED
        BY <4>1, <4>2
    <3> QED
      BY <3>1, <3>2, <3>3
  <2> HIDE DEF q
  <2>8. DOMAIN q = 1 .. n - 1
    BY <2>7
  <2>9. Once(q)
    <3>1. SUFFICES ASSUME NEW i \in 1 .. n - 1, NEW j \in 1 .. n - 1, q[i] = q[j]
                   PROVE  i = j
      BY <2>8 DEF Once
    <3> DEFINE f == IF i < k THEN i ELSE i + 1
               h == IF j < k THEN j ELSE j + 1
    <3>2. f \in 1 .. n /\ h \in 1 .. n /\ q[i] = held[f] /\ q[j] = held[h]
      BY <2>3, <2>4, <2>7
    <3>3. f = h
      BY <2>3, <3>1, <3>2 DEF Once
    <3> QED
      BY <2>4, <3>3
  <2>10. ASSUME NEW x \in Folds(q)
         PROVE  x \in Held \ {g}
    <3>1. PICK i \in 1 .. n - 1 : x = q[i]
      BY <2>8, <2>10 DEF Folds
    <3> DEFINE j == IF i < k THEN i ELSE i + 1
    <3>2. j \in 1 .. n /\ j # k /\ held[j] = x
      BY <2>3, <2>4, <2>7, <3>1
    <3> QED
      BY <2>1, <2>3, <3>2 DEF Held, Once
  <2>11. ASSUME NEW x \in Held \ {g}
         PROVE  x \in Folds(q)
    <3>1. PICK i \in 1 .. n : x = held[i]
      BY <2>3, <2>11 DEF Held
    <3> DEFINE j == IF i < k THEN i ELSE i - 1
    <3>2. i # k
      BY <2>1, <2>11, <3>1
    <3>3. j \in 1 .. n - 1 /\ (IF j < k THEN j ELSE j + 1) = i
      BY <2>3, <2>4, <3>2
    <3>4. q[j] = x
      BY <2>7, <3>1, <3>3
    <3> QED
      BY <2>8, <3>3, <3>4 DEF Folds
  <2> QED
    BY <2>2, <2>7, <2>9, <2>10, <2>11
<1> QED
  BY <1>1, <1>2

-----------------------------------------------------------------------------
(* Steps. A task that takes one becomes t; the other stays u.               *)

(* What the step of a task leaves of the two.                               *)
LEMMA TaskStep ==
    ASSUME DOMAIN tasks = Tasks, NEW p \in Tasks, NEW t, Becomes(p, t)
    PROVE  DOMAIN tasks' = Tasks /\ tasks'[p] = t /\ \A q \in Tasks \ {p} : tasks'[q] = tasks[q]
BY DEF Becomes

(* The invariant after a step, part by part.                                *)
LEMMA Assembled ==
    ASSUME DOMAIN tasks = Tasks, NEW p \in Tasks, NEW t, Becomes(p, t), NEW q \in Tasks \ {p}, NEW u, u = tasks[q],
           World', TaskSafe(p, t)', TaskSafe(q, u)',
           p = "control" => Driven(t)' /\ (~Revert => Kept(t)'),
           p = "index" => Driven(u)' /\ (~Revert => Kept(u)'),
           Apart(t, u)
    PROVE  Inv'
<1>1. tasks'[p] = t /\ tasks'[q] = u /\ Tasks = {p, q} /\ {p, q} = {"index", "control"}
  BY TaskStep DEF Tasks
<1>2. \A x \in Tasks : TaskSafe(x, tasks[x])'
  BY <1>1
<1>3. Driven(tasks["control"])' /\ (~Revert => Kept(tasks["control"])')
  <2>1. CASE p = "control"
    BY <1>1, <2>1
  <2>2. CASE p = "index"
    BY <1>1, <2>2
  <2> QED
    BY <2>1, <2>2 DEF Tasks
<1>4. Apart(tasks["index"], tasks["control"])'
  BY <1>1 DEF Apart
<1> QED
  BY <1>2, <1>3, <1>4 DEF Inv

(* A step that changes nothing but where a task is.                         *)
LEMMA OnlyTasks ==
    ASSUME Inv, NEW p \in Tasks, NEW t, Becomes(p, t), UNCHANGED <<config, disk, memory>>,
           controls' \in 0 .. MaxControls, restarts' \in 0 .. MaxRestarts,
           TaskSafe(p, t), p = "control" => Driven(t) /\ (~Revert => Kept(t)),
           t.pc \in InMove => \A q \in Tasks \ {p} : tasks[q].pc \notin InMove
    PROVE  Inv'
<1>0. DOMAIN tasks = Tasks
  BY DEF Inv, World, TypeOK
<1>1. PICK q \in Tasks \ {p} : TRUE
  BY DEF Tasks
<1>2. PICK u : u = tasks[q]
  OBVIOUS
<1> USE DEF disk, memory
<1>3. World'
  <2>1. TypeOK'
    BY <1>0, TaskStep DEF Inv, World, TypeOK
  <2> QED
    BY <2>1 DEF Inv, World, Books, Answering, ByPolicy, Level, Held, policy
<1>4. TaskSafe(p, t)'
  BY DEF TaskSafe, TaskTyped, TaskInPlace, TaskDrops, TaskMoves, Held, policy
<1>5. TaskSafe(q, u)'
  <2>1. TaskSafe(q, u)
    BY <1>2 DEF Inv
  <2> QED
    BY <2>1 DEF TaskSafe, TaskTyped, TaskInPlace, TaskDrops, TaskMoves, Held, policy
<1>6. p = "control" => Driven(t)' /\ (~Revert => Kept(t)')
  BY DEF Driven, Kept, Held
<1>7. p = "index" => Driven(u)' /\ (~Revert => Kept(u)')
  <2>1. p = "index" => Driven(u) /\ (~Revert => Kept(u))
    BY <1>1, <1>2 DEF Inv, Tasks
  <2> QED
    BY <2>1 DEF Driven, Kept, Held
<1>8. Apart(t, u)
  BY <1>2 DEF Apart
<1> QED
  BY <1>0, <1>2, <1>3, <1>4, <1>5, <1>6, <1>7, <1>8, Assembled

(* With one move at a time, a task that may begin one finds the other at    *)
(* none, and not in the middle of a drop.                                   *)
LEMMA MoveAlone ==
    ASSUME OneMove, NEW p, MayMove(p), NEW q \in Tasks \ {p}
    PROVE  tasks[q].pc \notin InMove \cup InDrop
BY DEF OneMove, MayMove, InMove, InDrop

(* A registration that goes on with the same target, or ends.               *)
LEMMA AnotherTurn ==
    ASSUME Inv, NEW t, Becomes("control", t), UNCHANGED <<config, disk, memory, counters>>,
           tasks["control"].pc \in InRegister \ {"stop"},
           t.pc = "idle" \/ (t.pc = "displace" /\ t.target = tasks["control"].target)
    PROVE  Inv'
<1> DEFINE c == tasks["control"]
<1>0. TypeOK /\ "control" \in Tasks /\ TaskSafe("control", c) /\ Driven(c) /\ (~Revert => Kept(c))
  BY DEF Inv, World, Tasks
<1>1. controls \in 0 .. MaxControls /\ restarts \in 0 .. MaxRestarts
  BY <1>0 DEF TypeOK
<1> HIDE DEF c
<1>2. TaskSafe("control", t)
  BY <1>0 DEF TaskSafe, TaskTyped, TaskInPlace, TaskDrops, TaskMoves, InRegister, InMove, InDrop, c
<1>3. Driven(t)
  BY <1>0 DEF Driven, c
<1>4. ~Revert => Kept(t)
  BY <1>0 DEF Kept, InMove, InRegister, c
<1>5. t.pc \notin InMove
  BY DEF InMove
<1> QED
  BY <1>0, <1>1, <1>2, <1>3, <1>4, <1>5, OnlyTasks DEF counters

(* The start of an operator's call, and what it decides from the registry.  *)
LEMMA CallsKeep ==
    ASSUME Inv, OneMove, NEW g \in Generations,
           Open(g) \/ Add(g) \/ Promote(g) \/ Register("control") \/ KeepDisplaced("control") \/ RefuseAtCap("control")
    PROVE  Inv'
<1> DEFINE c == tasks["control"]
<1>0. /\ TypeOK /\ "control" \in Tasks /\ TaskSafe("control", c) /\ Driven(c) /\ (~Revert => Kept(c))
      /\ Answering
  BY DEF Inv, World, Tasks
<1>1. controls \in 0 .. MaxControls /\ restarts \in 0 .. MaxRestarts
  BY <1>0 DEF TypeOK
<1> HIDE DEF c
<1>2. CASE Open(g)
  <2> DEFINE t == [pc |-> "register", target |-> g]
  <2>1. Becomes("control", t) /\ UNCHANGED <<config, disk, memory, counters>> /\ ~opened /\ c.pc = "idle"
    BY <1>2 DEF Open, At, c
  <2>2. TaskSafe("control", t)
    BY DEF TaskSafe, TaskTyped, TaskInPlace, TaskDrops, TaskMoves, InRegister, InMove, InDrop
  <2>3. Driven(t)
    BY <1>0, <2>1 DEF Driven
  <2>4. Kept(t)
    BY <1>0, <2>1 DEF Kept, Answering, InMove, InRegister
  <2>5. t.pc \notin InMove
    BY DEF InMove
  <2> HIDE DEF t
  <2> QED
    BY <1>0, <1>1, <2>1, <2>2, <2>3, <2>4, <2>5, OnlyTasks DEF counters
<1>3. CASE Add(g)
  <2> DEFINE t == [pc |-> "register", target |-> g]
  <2>1. /\ Becomes("control", t) /\ UNCHANGED <<config, disk, memory, restarts>> /\ opened /\ c.pc = "idle"
        /\ controls' = controls + 1 /\ controls < MaxControls
        /\ Revert \/ \A d \in deferred : d.superseded # g
    BY <1>3 DEF Add, MayControl, At, c
  <2>2. TaskSafe("control", t)
    BY <2>1 DEF TaskSafe, TaskTyped, TaskInPlace, TaskDrops, TaskMoves, InRegister, InMove, InDrop
  <2>3. Driven(t)
    BY <1>0, <2>1 DEF Driven
  <2>4. ~Revert => Kept(t)
    BY <1>0, <2>1 DEF Kept, InMove, InRegister
  <2>5. t.pc \notin InMove
    BY DEF InMove
  <2>6. controls' \in 0 .. MaxControls
    BY <1>1, <2>1, ContainerAssumption
  <2> HIDE DEF t
  <2> QED
    BY <1>0, <1>1, <2>1, <2>2, <2>3, <2>4, <2>5, <2>6, OnlyTasks
<1>4. CASE Promote(g)
  <2> DEFINE t == [pc |-> "move", target |-> g, superseded |-> current, then |-> "idle"]
  <2>1. /\ Becomes("control", t) /\ UNCHANGED <<config, disk, memory, restarts>> /\ opened /\ c.pc = "idle"
        /\ controls' = controls + 1 /\ controls < MaxControls /\ g \in Held /\ MayMove("control")
        /\ Revert \/ deferred = {}
    BY <1>4 DEF Promote, MayControl, At, c, MoveTo
  <2>2. TaskSafe("control", t)
    BY <1>0, <2>1 DEF TaskSafe, TaskTyped, TaskInPlace, TaskDrops, TaskMoves, InRegister, InMove, InDrop, Answering
  <2>3. Driven(t)
    BY <1>0, <2>1 DEF Driven
  <2>4. ~Revert => Kept(t)
    BY <1>0, <2>1 DEF Kept, InMove, InRegister
  <2>5. \A q \in Tasks \ {"control"} : tasks[q].pc \notin InMove
    BY <2>1, MoveAlone
  <2>6. controls' \in 0 .. MaxControls
    BY <1>1, <2>1, ContainerAssumption
  <2> HIDE DEF t
  <2> QED
    BY <1>0, <1>1, <2>1, <2>2, <2>3, <2>4, <2>5, <2>6, OnlyTasks
<1>6. CASE Register("control")
  <2> DEFINE t == Displacing(c.target, registry.records, displacedBySuccessor(c.target, registry, Generations))
  <2>1. Becomes("control", t) /\ UNCHANGED <<config, disk, memory, counters>> /\ c.pc = "register"
    BY <1>6 DEF Register, At, c
  <2>2. t.pc = "displace" /\ t.target = c.target
    BY DEF Displacing
  <2> HIDE DEF t
  <2> QED
    BY <2>1, <2>2, AnotherTurn DEF InRegister, c
<1>7. CASE KeepDisplaced("control")
  <2> DEFINE t == Displacing(c.target, c.surviving, c.displaced \ {Newest(c.displaced, registry.born)})
  <2>1. Becomes("control", t) /\ UNCHANGED <<config, disk, memory, counters>> /\ c.pc = "displace"
    BY <1>7 DEF KeepDisplaced, At, c
  <2>2. t.pc = "displace" /\ t.target = c.target
    BY DEF Displacing
  <2> HIDE DEF t
  <2> QED
    BY <2>1, <2>2, AnotherTurn DEF InRegister, c
<1>8. CASE RefuseAtCap("control")
  <2>1. Becomes("control", Idle) /\ UNCHANGED <<config, disk, memory, counters>> /\ c.pc = "displace"
    BY <1>8 DEF RefuseAtCap, At, c
  <2>2. Idle.pc = "idle"
    BY DEF Idle
  <2> QED
    BY <2>1, <2>2, AnotherTurn DEF InRegister, c
<1> QED
  BY <1>2, <1>3, <1>4, <1>6, <1>7, <1>8

(* A task that goes on with nothing in hand.                                *)
LEMMA GoesOn ==
    ASSUME Inv, NEW p \in Tasks, tasks[p].pc # "stop", NEW t, Becomes(p, t), UNCHANGED <<config, disk, memory, counters>>,
           t.pc = "idle"
    PROVE  Inv'
<1>0. TypeOK /\ TaskSafe(p, tasks[p]) /\ Driven(tasks["control"]) /\ (~Revert => Kept(tasks["control"]))
  BY DEF Inv, World
<1>1. controls \in 0 .. MaxControls /\ restarts \in 0 .. MaxRestarts
  BY <1>0 DEF TypeOK
<1>2. TaskSafe(p, t)
  BY DEF TaskSafe, TaskTyped, TaskInPlace, TaskDrops, TaskMoves, InRegister, InMove, InDrop
<1>3. p = "control" => Driven(t) /\ (~Revert => Kept(t))
  BY <1>0 DEF Driven, Kept, InMove, InRegister
<1>4. t.pc \notin InMove
  BY DEF InMove
<1> QED
  BY <1>1, <1>2, <1>3, <1>4, OnlyTasks DEF counters

(* What settlePromotion begins with: the candidate that is found ready is   *)
(* driven, and level with the fold that answers.                            *)
LEMMA FoundReady ==
    ASSUME World, NEW S, current # Nothing, Ready(S) # {}
    PROVE  LET g == held[First(Ready(S))]
           IN /\ g \in Held /\ g \in S /\ g \in Generations
              /\ lastSync[g] # Nothing /\ lastSync[current] # Nothing
              /\ lastSync[g] >= lastSync[current]
<1>1. held \in Seq(Generations)
  BY DEF World, TypeOK
<1>2. Ready(S) \subseteq DOMAIN held /\ DOMAIN held \subseteq Nat
  BY <1>1 DEF Ready
<1>3. First(Ready(S)) \in Ready(S)
  BY <1>2, FirstIsOne
<1> DEFINE i == First(Ready(S))
<1> HIDE DEF i
<1>4. i \in DOMAIN held /\ held[i] \in S /\ hasReachedCursor(lastSync[held[i]], lastSync[current])
  BY <1>3 DEF Ready, i
<1>5. held[i] \in Held /\ held[i] \in Generations
  BY <1>1, <1>4 DEF Held
<1> QED
  BY <1>4, <1>5 DEF hasReachedCursor, i

(* The steps of the loop and of a move that change nothing else.            *)
LEMMA TurnsKeep ==
    ASSUME Inv, OneMove, NEW p \in Tasks,
           Move(p) \/ MoveUnknown(p) \/ Settled(p) \/ StartCycle \/ EndCycle
    PROVE  Inv'
<1>0. TypeOK /\ World /\ \A x \in Tasks : TaskSafe(x, tasks[x])
  BY DEF Inv, World
<1>1. controls \in 0 .. MaxControls /\ restarts \in 0 .. MaxRestarts
  BY <1>0 DEF TypeOK
<1>2. CASE Move(p)
  <2> DEFINE c == tasks[p]
             t == [pc |-> "commit", target |-> c.target, superseded |-> c.superseded, then |-> c.then,
                   wasPromotion |-> registry.slots.successor = c.target]
  <2>1. Becomes(p, t) /\ UNCHANGED <<config, disk, memory, counters>> /\ c.pc = "move"
    BY <1>2 DEF Move, At
  <2>2. /\ t.pc = "commit" /\ t.target = c.target /\ t.superseded = c.superseded /\ t.then = c.then
    OBVIOUS
  <2>3. /\ TaskSafe(p, c) /\ (p = "control" => Driven(c) /\ (~Revert => Kept(c)))
        /\ \A q \in Tasks \ {p} : tasks[q].pc \notin InMove
    BY <1>0, <2>1 DEF Inv, Apart, Tasks, InMove
  <2> HIDE DEF t, c
  <2>4. TaskSafe(p, t)
    BY <2>1, <2>2, <2>3 DEF TaskSafe, TaskTyped, TaskInPlace, TaskDrops, TaskMoves, InRegister, InMove, InDrop
  <2>5. p = "control" => Driven(t) /\ (~Revert => Kept(t))
    BY <2>1, <2>2, <2>3 DEF Driven, Kept, InMove, InRegister
  <2> QED
    BY <1>1, <2>1, <2>3, <2>4, <2>5, OnlyTasks DEF counters
<1>3. CASE MoveUnknown(p)
  BY <1>3, GoesOn DEF MoveUnknown, At, Idle
<1>4. CASE Settled(p)
  BY <1>4, GoesOn DEF Settled, At, Idle
<1>5. CASE StartCycle
  <2> DEFINE t == [pc |-> "cycle", todo |-> held]
  <2>1. Becomes("index", t) /\ UNCHANGED <<config, disk, memory, counters>> /\ opened
    BY <1>5 DEF StartCycle
  <2>2. t.pc = "cycle" /\ t.todo = held /\ held \in Seq(Generations) /\ "index" \in Tasks
    BY <1>0 DEF TypeOK, Tasks
  <2> HIDE DEF t
  <2>3. TaskSafe("index", t)
    BY <2>1, <2>2 DEF TaskSafe, TaskTyped, TaskInPlace, TaskDrops, TaskMoves, InRegister, InMove, InDrop
  <2>4. t.pc \notin InMove
    BY <2>2 DEF InMove
  <2> QED
    BY <1>1, <2>1, <2>2, <2>3, <2>4, OnlyTasks DEF counters
<1>6. CASE EndCycle
  <2> DEFINE t == SettleOver(candidate)
  <2>1. /\ Becomes("index", t) /\ UNCHANGED <<config, disk, memory, counters>> /\ tasks["index"].pc = "cycle"
        /\ MayMove("index") /\ "index" \in Tasks
    BY <1>6 DEF EndCycle, At, Tasks
  <2>2. opened /\ current \in Generations
    BY <1>0, <2>1 DEF TaskSafe, TaskInPlace, World, Answering
  <2>3. \A q \in Tasks \ {"index"} : tasks[q].pc \notin InMove
    BY <2>1, MoveAlone
  <2>4. TaskSafe("index", t)
    <3>1. CASE current # Nothing /\ Ready(candidate) # {}
      <4> DEFINE g == held[First(Ready(candidate))]
      <4>1. /\ g \in Held /\ g \in candidate /\ g \in Generations
            /\ lastSync[g] # Nothing /\ lastSync[current] # Nothing
            /\ lastSync[g] >= lastSync[current]
        BY <1>0, <3>1, FoundReady
      <4>2. t = [pc |-> "move", target |-> g, superseded |-> current, then |-> "drops"]
        BY <3>1 DEF SettleOver, MoveTo
      <4> HIDE DEF g
      <4>3. t.pc = "move" /\ t.target = g /\ t.superseded = current /\ t.then = "drops"
        BY <4>2
      <4>4. policy = "on-catch-up"
        BY <1>0, <4>1 DEF World, ByPolicy
      <4>5. g \in registry.records => state[g] >= state[current]
        <5>1. /\ g \in registry.records => lastSync[g] = state[g]
              /\ lastSync[current] >= state[current]
          BY <1>0, <2>2, <4>1 DEF World, Level
        <5>2. /\ lastSync[current] \in Nat /\ state[current] \in Nat /\ lastSync[g] \in Nat
          BY <1>0, <2>2, <4>1, ContainerAssumption DEF TypeOK, Cursor
        <5> QED
          BY <4>1, <5>1, <5>2
      <4> HIDE DEF t
      <4> QED
        BY <2>2, <4>1, <4>3, <4>4, <4>5
        DEF TaskSafe, TaskTyped, TaskInPlace, TaskDrops, TaskMoves, InRegister, InMove, InDrop
    <3>2. CASE ~(current # Nothing /\ Ready(candidate) # {})
      <4>1. t.pc = "drops"
        BY <3>2 DEF SettleOver
      <4> HIDE DEF t
      <4> QED
        BY <2>2, <4>1 DEF TaskSafe, TaskTyped, TaskInPlace, TaskDrops, TaskMoves, InRegister, InMove, InDrop
    <3> QED
      BY <3>1, <3>2
  <2> HIDE DEF t
  <2> QED
    BY <1>1, <2>1, <2>3, <2>4, OnlyTasks DEF counters
<1> QED
  BY <1>2, <1>3, <1>4, <1>5, <1>6

-----------------------------------------------------------------------------
(* Records that go.                                                         *)

(* A registry that lost records leaves everything else as it was.           *)
LEMMA RecordsGo ==
    ASSUME World, UNCHANGED <<config, state, stored, memory, counters>>, DOMAIN tasks' = Tasks,
           Books', registry'.records \subseteq registry.records,
           registry'.slots.canonical = registry.slots.canonical
    PROVE  World'
<1> USE DEF memory, counters
<1>1. TypeOK'
  BY DEF World, TypeOK, Books, InOrder
<1> QED
  BY <1>1 DEF World, Answering, ByPolicy, Level, Held, policy

(* ... and the tasks.                                                       *)
LEMMA RecordsGoTask ==
    ASSUME UNCHANGED <<config, state, stored, memory>>, registry'.records \subseteq registry.records,
           NEW p, NEW t
    PROVE  /\ TaskSafe(p, t) => TaskSafe(p, t)'
           /\ Kept(t) => Kept(t)'
BY DEF memory, TaskSafe, TaskTyped, TaskInPlace, TaskDrops, TaskMoves, Kept, Held, policy

(* What a task does once a move or a drop is behind it is always safe.      *)
LEMMA ContinueSafe ==
    ASSUME NEW p, NEW c, TaskSafe(p, c), c.pc \in InMove \cup InDrop
    PROVE  /\ Continue(c.then).pc \in {"idle", "drops"}
           /\ TaskSafe(p, Continue(c.then))
<1>1. c.then \in {"idle", "drops"}
  BY DEF TaskSafe, TaskTyped
<1>2. opened /\ (p = "control" /\ c.then = "drops" => policy = "on-catch-up")
  BY DEF TaskSafe, TaskInPlace
<1>3. Continue(c.then).pc = c.then
  BY <1>1 DEF Continue, Idle
<1> QED
  BY <1>1, <1>2, <1>3 DEF TaskSafe, TaskTyped, TaskInPlace, TaskDrops, TaskMoves, InRegister, InMove, InDrop

(* dropReplaced of a displaced generation: its record goes, and until it is *)
(* stopped it is the one driven fold without.                               *)
LEMMA DropDisplacedKeeps ==
    ASSUME Inv, DropDisplaced("control")
    PROVE  Inv'
<1>1. PICK c : c = tasks["control"]
  OBVIOUS
<1>2. PICK g : g = Newest(c.displaced, registry.born)
  OBVIOUS
<1>3. /\ World /\ DOMAIN tasks = Tasks /\ {"control", "index"} \subseteq Tasks /\ TaskSafe("control", c)
      /\ Driven(c) /\ (~Revert => Kept(c)) /\ InOrder(registry) /\ registry.slots.predecessor = Nothing
  BY <1>1 DEF Inv, World, TypeOK, Tasks, Books
<1>4. c.pc = "displace" /\ UNCHANGED <<config, state, stored, memory, counters>>
  BY <1>1 DEF DropDisplaced, At
<1>5. CASE Deletable(registry, g)
  <2>1. PICK t : t = [pc |-> "stop", target |-> c.target, surviving |-> c.surviving \ {g},
                      displaced |-> c.displaced \ {g}, gone |-> g]
    OBVIOUS
  <2>2. Becomes("control", t) /\ registry' = deleteGeneration(registry, g, FALSE)
    BY <1>1, <1>2, <1>5, <2>1 DEF DropDisplaced
  <2>3. t.pc = "stop" /\ t.target = c.target /\ t.gone = g
    BY <2>1
  <2>4. /\ Books' /\ registry'.records = registry.records \ {g} /\ registry'.slots.canonical = registry.slots.canonical
    BY <1>3, <1>5, <2>2, DeletedInOrder DEF Books
  <2>5. g \in Generations
    BY <1>3, <1>5, RegistryParts DEF Deletable, InOrder
  <2>6. PICK u : u = tasks["index"]
    OBVIOUS
  <2>7. DOMAIN tasks' = Tasks
    BY <1>3, <2>2, TaskStep
  <2>8. World'
    BY <1>3, <1>4, <2>4, <2>7, RecordsGo
  <2>9. TaskSafe("index", u)'
    <3>1. TaskSafe("index", u)
      BY <1>3, <2>6 DEF Inv
    <3> QED
      BY <1>4, <2>4, <3>1, RecordsGoTask
  <2>10. TaskSafe("control", t)'
    <3>1. TaskTyped("control", t)'
      BY <1>3, <1>4, <2>3, <2>5 DEF TaskSafe, TaskTyped, InRegister, InMove, InDrop
    <3>2. TaskInPlace("control", t)'
      BY <2>3 DEF TaskInPlace, InMove, InDrop
    <3>3. TaskDrops(t)' /\ TaskMoves("control", t)'
      BY <2>3, <2>4 DEF TaskDrops, TaskMoves, InDrop
    <3> QED
      BY <3>1, <3>2, <3>3 DEF TaskSafe
  <2>11. Driven(t)'
    BY <1>3, <1>4, <2>3, <2>4 DEF Driven, Held, memory
  <2>12. ~Revert => Kept(t)'
    <3>1. ~Revert => Kept(c)'
      BY <1>3, <1>4, <2>4, RecordsGoTask
    <3> QED
      BY <1>4, <2>3, <3>1 DEF Kept, InRegister, InMove
  <2>13. Apart(t, u)
    BY <2>3 DEF Apart, InMove
  <2>14. "index" \in Tasks \ {"control"} /\ "control" \in Tasks
    BY <1>3
  <2> QED
    BY <1>3, <2>2, <2>6, <2>8, <2>9, <2>10, <2>11, <2>12, <2>13, <2>14, Assembled
<1>6. CASE ~Deletable(registry, g)
  <2>1. PICK t : t = Displacing(c.target, c.surviving, c.displaced \ {g})
    OBVIOUS
  <2>2. Becomes("control", t) /\ registry' = registry
    BY <1>1, <1>2, <1>6, <2>1 DEF DropDisplaced
  <2>3. t.pc = "displace" /\ t.target = c.target
    BY <2>1 DEF Displacing
  <2>4. UNCHANGED <<config, disk, memory, counters>>
    BY <1>4, <2>2 DEF disk
  <2> QED
    BY <1>1, <1>4, <2>2, <2>3, <2>4, AnotherTurn DEF InRegister
<1> QED
  BY <1>5, <1>6

(* deleteGeneration of a superseded one: it is out of the loop already.     *)
LEMMA DeleteKeeps ==
    ASSUME Inv, NEW p \in Tasks, Delete(p)
    PROVE  Inv'
<1>1. PICK c : c = tasks[p]
  OBVIOUS
<1>2. PICK q \in Tasks \ {p} : TRUE
  BY DEF Tasks
<1>3. PICK u : u = tasks[q]
  OBVIOUS
<1>4. /\ World /\ DOMAIN tasks = Tasks /\ TaskSafe(p, c) /\ TaskSafe(q, u)
      /\ InOrder(registry) /\ registry.slots.predecessor = Nothing
      /\ p = "control" => Driven(c) /\ (~Revert => Kept(c))
      /\ p = "index" => Driven(u) /\ (~Revert => Kept(u))
  BY <1>1, <1>2, <1>3 DEF Inv, World, TypeOK, Tasks, Books
<1>5. c.pc = "delete" /\ UNCHANGED <<config, state, stored, memory, counters>>
  BY <1>1 DEF Delete, At
<1>6. CASE Deletable(registry, c.gone)
  <2>1. PICK t : t = [pc |-> "dropState", gone |-> c.gone, then |-> c.then]
    OBVIOUS
  <2>2. Becomes(p, t) /\ registry' = deleteGeneration(registry, c.gone, FALSE)
    BY <1>1, <1>6, <2>1 DEF Delete
  <2>3. t.pc = "dropState" /\ t.gone = c.gone /\ t.then = c.then
    BY <2>1
  <2>4. /\ Books' /\ registry'.records = registry.records \ {c.gone} /\ registry'.slots.canonical = registry.slots.canonical
    <3>1. PICK g : g = c.gone
      OBVIOUS
    <3>2. InOrder(registry) /\ registry.slots.predecessor = Nothing /\ Deletable(registry, g)
      BY <1>4, <1>6, <3>1
    <3>3. registry' = deleteGeneration(registry, g, FALSE)
      BY <2>2, <3>1
    <3>4. /\ Books' /\ registry'.records = registry.records \ {g} /\ registry'.slots.canonical = registry.slots.canonical
      BY <3>2, <3>3, DeletedInOrder DEF Books
    <3> QED
      BY <3>1, <3>4
  <2>5. DOMAIN tasks' = Tasks
    BY <1>4, <2>2, TaskStep
  <2>6. World'
    BY <1>4, <1>5, <2>4, <2>5, RecordsGo
  <2>7. TaskSafe(q, u)'
    BY <1>4, <1>5, <2>4, RecordsGoTask
  <2>8. TaskSafe(p, t)'
    <3>1. TaskSafe(p, t)
      BY <1>4, <1>5, <2>3 DEF TaskSafe, TaskTyped, TaskInPlace, TaskDrops, TaskMoves, InRegister, InMove, InDrop
    <3> QED
      BY <1>5, <2>4, <3>1, RecordsGoTask
  <2>9. c.gone \notin Held
    BY <1>4, <1>5 DEF TaskSafe, TaskDrops, InDrop
  <2>10. p = "control" => Driven(t)' /\ (~Revert => Kept(t)')
    <3>1. p = "control" => Driven(t)'
      BY <1>4, <1>5, <2>3, <2>4, <2>9 DEF Driven, Held, memory
    <3>2. p = "control" /\ ~Revert => Kept(t)
      BY <1>4, <2>3 DEF Kept, InRegister, InMove
    <3> QED
      BY <1>5, <2>4, <3>1, <3>2, RecordsGoTask
  <2>11. p = "index" => Driven(u)' /\ (~Revert => Kept(u)')
    <3>1. p = "index" => Driven(u)'
      BY <1>4, <1>5, <2>4, <2>9 DEF Driven, Held, memory
    <3> QED
      BY <1>4, <1>5, <2>4, <3>1, RecordsGoTask
  <2>12. Apart(t, u)
    BY <2>3 DEF Apart, InMove
  <2> QED
    BY <1>2, <1>3, <1>4, <2>2, <2>6, <2>7, <2>8, <2>10, <2>11, <2>12, Assembled
<1>7. CASE ~Deletable(registry, c.gone)
  <2>1. PICK t : t = Continue(c.then)
    OBVIOUS
  <2>2. Becomes(p, t) /\ UNCHANGED <<config, disk, memory, counters>>
    BY <1>1, <1>5, <1>7, <2>1 DEF Delete, disk
  <2>3. TaskSafe(p, t) /\ t.pc \in {"idle", "drops"}
    BY <1>4, <1>5, <2>1, ContinueSafe DEF InDrop
  <2>4. p = "control" => Driven(t) /\ (~Revert => Kept(t))
    BY <1>4, <1>5, <2>3 DEF Driven, Kept, InRegister, InMove
  <2>5. t.pc \notin InMove /\ controls \in 0 .. MaxControls /\ restarts \in 0 .. MaxRestarts
    BY <1>4, <2>3 DEF InMove, World, TypeOK
  <2> QED
    BY <2>2, <2>3, <2>4, <2>5, OnlyTasks DEF counters
<1> QED
  BY <1>6, <1>7

-----------------------------------------------------------------------------
(* States that go, and folds that are stopped.                              *)

(* A state that is dropped begins again at nothing.                         *)
LEMMA StateGoes ==
    ASSUME TypeOK, NEW g \in Generations, state' = [state EXCEPT ![g] = 0]
    PROVE  /\ state' \in [Generations -> Cursor]
           /\ \A x \in Generations : state[x] \in Nat /\ state'[x] \in Nat /\ state'[x] <= state[x]
           /\ \A x \in Generations \ {g} : state'[x] = state[x]
<1>1. state \in [Generations -> Cursor] /\ 0 \in Cursor /\ Cursor \subseteq Nat
  BY ContainerAssumption DEF TypeOK, Cursor
<1>2. state'[g] = 0 /\ \A x \in Generations \ {g} : state'[x] = state[x]
  BY <1>1
<1>3. \A x \in Generations : state[x] \in Nat /\ state'[x] \in Nat /\ state'[x] <= state[x]
  <2>1. \A x \in Generations : state[x] \in Nat
    BY <1>1
  <2> QED
    BY <1>2, <2>1
<1>4. state' \in [Generations -> Cursor]
  BY <1>1
<1> QED
  BY <1>2, <1>3, <1>4

(* Every fold is a generation, and Held is the folds of the loop, before    *)
(* and after a step.                                                        *)
LEMMA HeldFolds ==
    /\ Held = Folds(held) /\ Held' = Folds(held')
    /\ TypeOK => Held \subseteq Generations
BY DEF Held, Folds, TypeOK

(* Letting a fold go, as a step.                                            *)
LEMMA LetGoStep ==
    ASSUME World, NEW g \in Generations, held' = Unheld(g)
    PROVE  /\ held' \in Seq(Generations) /\ Once(held') /\ Held' = Held \ {g}
           /\ Held' \subseteq Held /\ Held \ {g} \subseteq Held'
<1>1. held \in Seq(Generations) /\ Once(held)
  BY DEF World, TypeOK
<1>2. Unheld(g) \in Seq(Generations) /\ Once(Unheld(g)) /\ Folds(Unheld(g)) = Held \ {g}
  BY <1>1, LetGo
<1>3. PICK h : h = Unheld(g)
  OBVIOUS
<1>4. held' = h /\ h \in Seq(Generations) /\ Once(h) /\ Folds(h) = Held \ {g}
  BY <1>2, <1>3
<1>5. Held' = Folds(h)
  BY <1>4, HeldFolds
<1> QED
  BY <1>4, <1>5

(* The fold that answers is registered.                                     *)
LEMMA AnswersRegistered ==
    ASSUME World, opened
    PROVE  current \in registry.records
BY GenerationsAssumption DEF World, Answering, Books, InOrder, SlotsSound, SlotNames

(* While a fold is let go, the other task keeps what it relies on if the    *)
(* fold has no record, or none of its own business.                         *)
LEMMA LetGoTask ==
    ASSUME TypeOK, NEW g \in Generations, Held' \subseteq Held, Held \ {g} \subseteq Held',
           UNCHANGED <<config, opened>>, registry'.records = registry.records,
           NEW q \in Tasks, NEW u, TaskSafe(q, u),
           \A x \in Generations : state'[x] <= state[x] /\ state[x] \in Nat /\ state'[x] \in Nat,
           q = "index" /\ u.pc \in InMove /\ u.target \in registry.records =>
                u.target # g /\ state'[u.target] = state[u.target]
    PROVE  TaskSafe(q, u)'
<1>1. TaskTyped(q, u)'
  BY DEF TaskSafe, TaskTyped
<1>2. TaskInPlace(q, u)'
  BY DEF TaskSafe, TaskInPlace, policy
<1>3. TaskDrops(u)'
  BY DEF TaskSafe, TaskDrops
<1>4. TaskMoves(q, u)'
  <2>1. SUFFICES ASSUME q = "index", u.pc \in InMove, u.target \in registry.records
                 PROVE  u.target \in Held' /\ state'[u.target] >= state'[u.superseded]
    BY DEF TaskMoves
  <2>2. u.target \in Generations /\ u.superseded \in Generations
    BY <2>1 DEF TaskSafe, TaskTyped
  <2>3. u.target \in Held /\ state[u.target] >= state[u.superseded]
    BY <2>1 DEF TaskSafe, TaskMoves
  <2>4. u.target # g /\ state'[u.target] = state[u.target] /\ state'[u.superseded] <= state[u.superseded]
    BY <2>1, <2>2
  <2>5. state[u.target] \in Nat /\ state[u.superseded] \in Nat /\ state'[u.superseded] \in Nat
    BY <2>2
  <2> QED
    BY <2>3, <2>4, <2>5
<1> QED
  BY <1>1, <1>2, <1>3, <1>4 DEF TaskSafe

(* The state of a superseded generation goes last.                          *)
LEMMA DropStateKeeps ==
    ASSUME Inv, NEW p \in Tasks, DropState(p)
    PROVE  Inv'
<1>1. PICK c : c = tasks[p]
  OBVIOUS
<1>2. PICK q \in Tasks \ {p} : TRUE
  BY DEF Tasks
<1>3. PICK u : u = tasks[q]
  OBVIOUS
<1>4. /\ World /\ TypeOK /\ DOMAIN tasks = Tasks /\ TaskSafe(p, c) /\ TaskSafe(q, u)
      /\ p = "control" => Driven(c) /\ (~Revert => Kept(c))
      /\ p = "index" => Driven(u) /\ (~Revert => Kept(u))
  BY <1>1, <1>2, <1>3 DEF Inv, World, TypeOK, Tasks
<1>5. PICK t : t = Continue(c.then)
  OBVIOUS
<1>6. /\ c.pc = "dropState" /\ UNCHANGED <<config, registry, stored, memory, counters>>
      /\ state' = [state EXCEPT ![c.gone] = 0] /\ Becomes(p, t)
  BY <1>1, <1>5 DEF DropState, At
<1>7. c.gone \in Generations /\ c.gone \notin Held
  BY <1>4, <1>6 DEF TaskSafe, TaskTyped, TaskDrops, InDrop
<1>8. /\ state' \in [Generations -> Cursor]
      /\ \A x \in Generations : state[x] \in Nat /\ state'[x] \in Nat /\ state'[x] <= state[x]
      /\ \A x \in Generations \ {c.gone} : state'[x] = state[x]
  BY <1>4, <1>6, <1>7, StateGoes
<1>9. Held' = Held
  BY <1>6 DEF Held, memory
<1>10. World'
  <2>1. DOMAIN tasks' = Tasks
    BY <1>4, <1>6, TaskStep
  <2>2. TypeOK'
    BY <1>4, <1>6, <1>8, <2>1 DEF TypeOK, memory, counters
  <2>3. Books' /\ Once(held)' /\ Answering' /\ ByPolicy'
    BY <1>4, <1>6 DEF World, Books, Once, Answering, ByPolicy, policy, memory
  <2>4. Level'
    <3>1. \A g \in Generations : lastSync[g] # Nothing => lastSync[g] \in Nat
      BY <1>4, ContainerAssumption DEF TypeOK, Cursor
    <3>2. \A g \in Held : g \in Generations \ {c.gone}
      BY <1>4, <1>7 DEF TypeOK, Held
    <3> QED
      BY <1>4, <1>6, <1>8, <1>9, <3>1, <3>2 DEF World, Level, memory
  <2> QED
    BY <2>2, <2>3, <2>4 DEF World
<1>11. TaskSafe(q, u)'
  <2>1. q = "index" /\ u.pc \in InMove /\ u.target \in registry.records =>
            u.target # c.gone /\ state'[u.target] = state[u.target]
    BY <1>4, <1>7, <1>8 DEF TaskSafe, TaskTyped, TaskMoves
  <2> QED
    BY <1>4, <1>6, <1>7, <1>8, <1>9, <2>1, LetGoTask DEF memory
<1>12. TaskSafe(p, t)' /\ t.pc \in {"idle", "drops"}
  <2>1. TaskSafe(p, t) /\ t.pc \in {"idle", "drops"}
    BY <1>4, <1>5, <1>6, ContinueSafe DEF InDrop
  <2> QED
    BY <1>4, <1>6, <1>7, <1>8, <1>9, <2>1, LetGoTask DEF memory, InMove
<1>13. p = "control" => Driven(t)' /\ (~Revert => Kept(t)')
  BY <1>4, <1>6, <1>9, <1>12 DEF Driven, Kept, InRegister, InMove, memory
<1>14. p = "index" => Driven(u)' /\ (~Revert => Kept(u)')
  BY <1>4, <1>6, <1>9 DEF Driven, Kept, memory
<1>15. Apart(t, u)
  BY <1>12 DEF Apart, InMove
<1> QED
  BY <1>2, <1>3, <1>4, <1>6, <1>10, <1>11, <1>12, <1>13, <1>14, <1>15, Assembled

(* stopDriving of a displaced generation: it has no record any more, so it  *)
(* is not the one that answers, nor one that reads are being moved to.      *)
LEMMA StopDrivingKeeps ==
    ASSUME Inv, StopDriving("control")
    PROVE  Inv'
<1>1. PICK c : c = tasks["control"]
  OBVIOUS
<1>2. PICK u : u = tasks["index"]
  OBVIOUS
<1>3. /\ World /\ TypeOK /\ DOMAIN tasks = Tasks /\ "control" \in Tasks /\ "index" \in Tasks \ {"control"}
      /\ TaskSafe("control", c) /\ TaskSafe("index", u) /\ Driven(c) /\ (~Revert => Kept(c))
  BY <1>1, <1>2 DEF Inv, World, TypeOK, Tasks
<1>4. PICK t : t = Displacing(c.target, c.surviving, c.displaced)
  OBVIOUS
<1>5. /\ c.pc = "stop" /\ UNCHANGED <<config, registry, stored, opened, follows, lastSync, current, counters>>
      /\ state' = [state EXCEPT ![c.gone] = 0] /\ Becomes("control", t) /\ held' = Unheld(c.gone)
      /\ candidate' \subseteq candidate /\ deferred' \subseteq deferred
  BY <1>1, <1>4 DEF StopDriving, At, NotNaming
<1>6. t.pc = "displace" /\ t.target = c.target
  BY <1>4 DEF Displacing
<1>7. c.gone \in Generations /\ c.gone \notin registry.records
  BY <1>3, <1>5 DEF TaskSafe, TaskTyped, TaskDrops
<1>8. /\ state' \in [Generations -> Cursor]
      /\ \A x \in Generations : state[x] \in Nat /\ state'[x] \in Nat /\ state'[x] <= state[x]
      /\ \A x \in Generations \ {c.gone} : state'[x] = state[x]
  BY <1>3, <1>5, <1>7, StateGoes
<1>9. held' \in Seq(Generations) /\ Once(held') /\ Held' = Held \ {c.gone}
  BY <1>3, <1>5, <1>7, LetGoStep
<1>10. World'
  <2>1. DOMAIN tasks' = Tasks
    BY <1>3, <1>5, TaskStep
  <2>2. TypeOK'
    BY <1>3, <1>5, <1>8, <1>9, <2>1 DEF TypeOK, counters
  <2>3. Books' /\ Answering' /\ ByPolicy'
    BY <1>3, <1>5 DEF World, Books, Answering, ByPolicy, policy
  <2>4. Level'
    <3>1. \A g \in Generations : lastSync[g] # Nothing => lastSync[g] \in Nat
      BY <1>3, ContainerAssumption DEF TypeOK, Cursor
    <3>2. \A g \in Held' : g \in Generations \ {c.gone} /\ g \in Held
      BY <1>3, <1>9, HeldFolds
    <3> QED
      BY <1>3, <1>5, <1>8, <3>1, <3>2 DEF World, Level
  <2> QED
    BY <1>9, <2>2, <2>3, <2>4 DEF World, Once
<1>11. TaskSafe("index", u)'
  <2>1. u.pc \in InMove /\ u.target \in registry.records =>
            u.target # c.gone /\ state'[u.target] = state[u.target]
    BY <1>3, <1>7, <1>8 DEF TaskSafe, TaskTyped
  <2> QED
    BY <1>3, <1>5, <1>7, <1>8, <1>9, <2>1, LetGoTask
<1>12. TaskSafe("control", t)'
  <2>1. TaskSafe("control", t)
    BY <1>3, <1>5, <1>6 DEF TaskSafe, TaskTyped, TaskInPlace, TaskDrops, TaskMoves, InRegister, InMove, InDrop
  <2> QED
    BY <1>3, <1>5, <1>6, <1>7, <1>8, <1>9, <2>1, LetGoTask
<1>13. Driven(t)'
  BY <1>3, <1>5, <1>9 DEF Driven
<1>14. ~Revert => Kept(t)'
  <2>1. opened => current # c.gone
    BY <1>3, <1>7, AnswersRegistered
  <2> QED
    BY <1>3, <1>5, <1>6, <1>9, <2>1 DEF Kept, InRegister, InMove
<1>15. Apart(t, u)
  BY <1>6 DEF Apart, InMove
<1> QED
  BY <1>2, <1>3, <1>5, <1>10, <1>11, <1>12, <1>13, <1>14, <1>15, Assembled

-----------------------------------------------------------------------------
(* The loop drives a fold.                                                  *)

(* How far a fold gets is a height of the chain.                            *)
LEMMA ReachedTyped ==
    ASSUME TypeOK, NEW g \in Generations
    PROVE  Reached(g) \in Cursor
<1>1. state[g] \in Cursor /\ StreamOf[g] \in Streams /\ stored[StreamOf[g]] \in Cursor
  BY GenerationsAssumption DEF TypeOK
<1>2. PICK level : level = IF state[g] > stored[StreamOf[g]] THEN state[g] ELSE stored[StreamOf[g]]
  OBVIOUS
<1>3. level \in 0 .. MaxBlock
  BY <1>1, <1>2 DEF Cursor
<1>4. Reached(g) = IF g \in follows THEN level ELSE IF level = MaxBlock THEN level ELSE level + 1
  BY <1>2 DEF Reached
<1> QED
  BY <1>3, <1>4, ContainerAssumption DEF Cursor

(* A fold that is driven shows its own cursor.                              *)
LEMMA DriveKeeps ==
    ASSUME Inv, Drive
    PROVE  Inv'
<1>1. PICK c : c = tasks["index"]
  OBVIOUS
<1>2. PICK u : u = tasks["control"]
  OBVIOUS
<1>3. /\ World /\ TypeOK /\ DOMAIN tasks = Tasks /\ "index" \in Tasks /\ "control" \in Tasks \ {"index"}
      /\ TaskSafe("index", c) /\ TaskSafe("control", u) /\ Driven(u) /\ (~Revert => Kept(u))
  BY <1>1, <1>2 DEF Inv, World, TypeOK, Tasks
<1>4. PICK t : t = [pc |-> "cycle", todo |-> Tail(c.todo)]
  OBVIOUS
<1>5. PICK g : g = Head(c.todo)
  OBVIOUS
<1>6. PICK n : n = Reached(g)
  OBVIOUS
<1>7. /\ c.pc = "cycle" /\ c.todo # <<>> /\ Becomes("index", t)
      /\ UNCHANGED <<config, registry, opened, held, follows, candidate, current, deferred, counters>>
      /\ state' = [state EXCEPT ![g] = n] /\ lastSync' = [lastSync EXCEPT ![g] = n]
      /\ stored' = IF g \in follows THEN stored ELSE [stored EXCEPT ![StreamOf[g]] = n]
  BY <1>1, <1>4, <1>5, <1>6 DEF Drive, At
<1>8. c.todo \in Seq(Generations)
  BY <1>3, <1>7 DEF TaskSafe, TaskTyped
<1>9. g \in Generations /\ Tail(c.todo) \in Seq(Generations)
  BY <1>5, <1>7, <1>8
<1>10. n \in Cursor
  BY <1>3, <1>6, <1>9, ReachedTyped
<1>11. t.pc = "cycle" /\ t.todo \in Seq(Generations)
  BY <1>4, <1>9
<1>12. Held' = Held
  BY <1>7 DEF Held
<1>13. World'
  <2>1. DOMAIN tasks' = Tasks
    BY <1>3, <1>7, TaskStep
  <2>2. /\ state' \in [Generations -> Cursor] /\ lastSync' \in [Generations -> Cursor \cup {Nothing}]
        /\ stored' \in [Streams -> Cursor]
    BY <1>3, <1>7, <1>9, <1>10, GenerationsAssumption DEF TypeOK
  <2>3. TypeOK'
    BY <1>3, <1>7, <2>1, <2>2 DEF TypeOK, counters
  <2>4. Books' /\ Once(held)' /\ Answering' /\ ByPolicy'
    BY <1>3, <1>7 DEF World, Books, Once, Answering, ByPolicy, policy
  <2>5. Level'
    <3>1. /\ state'[g] = n /\ lastSync'[g] = n /\ n >= n
          /\ \A x \in Generations \ {g} : state'[x] = state[x] /\ lastSync'[x] = lastSync[x]
      BY <1>3, <1>7, <1>9, <1>10, ContainerAssumption DEF TypeOK, Cursor
    <3>2. \A x \in Held : x \in Generations
      BY <1>3, HeldFolds
    <3>3. \A x \in Generations : lastSync'[x] # Nothing => lastSync'[x] >= state'[x]
      BY <1>3, <3>1 DEF World, Level
    <3>4. \A x \in Held \cap registry.records : lastSync'[x] # Nothing => lastSync'[x] = state'[x]
      BY <1>3, <3>1, <3>2 DEF World, Level
    <3> QED
      BY <1>7, <1>12, <3>3, <3>4 DEF Level
  <2> QED
    BY <2>3, <2>4, <2>5 DEF World
<1>14. TaskSafe("control", u)'
  BY <1>3, <1>7, <1>12 DEF TaskSafe, TaskTyped, TaskInPlace, TaskDrops, TaskMoves, policy
<1>15. TaskSafe("index", t)'
  <2>1. opened
    BY <1>3, <1>7 DEF TaskSafe, TaskInPlace
  <2> QED
    BY <1>7, <1>11, <2>1 DEF TaskSafe, TaskTyped, TaskInPlace, TaskDrops, TaskMoves, InRegister, InMove, InDrop
<1>16. Driven(u)' /\ (~Revert => Kept(u)')
  BY <1>3, <1>7, <1>12 DEF Driven, Kept
<1>17. Apart(t, u)
  BY <1>11 DEF Apart, InMove
<1> QED
  BY <1>2, <1>3, <1>7, <1>13, <1>14, <1>15, <1>16, <1>17, Assembled

-----------------------------------------------------------------------------
(* The end of open, and the death of the process.                           *)

(* open ends with the canonical generation answering.                       *)
LEMMA ResolveKeeps ==
    ASSUME Inv, ResolveCanonical("control")
    PROVE  Inv'
<1>1. PICK c : c = tasks["control"]
  OBVIOUS
<1>2. PICK u : u = tasks["index"]
  OBVIOUS
<1>3. /\ World /\ TypeOK /\ DOMAIN tasks = Tasks /\ "control" \in Tasks /\ "index" \in Tasks \ {"control"}
      /\ TaskSafe("control", c) /\ TaskSafe("index", u) /\ Driven(c) /\ (~Revert => Kept(c))
  BY <1>1, <1>2 DEF Inv, World, TypeOK, Tasks
<1>4. /\ c.pc = "resolve" /\ Becomes("control", Idle) /\ registry.slots.canonical \in Held
      /\ current' = registry.slots.canonical /\ opened' = TRUE
      /\ UNCHANGED <<config, disk, held, follows, candidate, lastSync, deferred, counters>>
  BY <1>1 DEF ResolveCanonical, At
<1>5. ~opened /\ deferred = {} /\ candidate = {}
  BY <1>3, <1>4 DEF TaskSafe, TaskInPlace, World, Answering
<1>6. Held' = Held /\ Held \subseteq Generations
  BY <1>3, <1>4, HeldFolds DEF Held
<1>7. PICK t : t = Idle
  OBVIOUS
<1>8. t.pc = "idle" /\ Becomes("control", t)
  BY <1>4, <1>7 DEF Idle
<1>9. World'
  <2>1. DOMAIN tasks' = Tasks
    BY <1>3, <1>8, TaskStep
  <2>2. TypeOK'
    BY <1>3, <1>4, <1>6, <2>1 DEF TypeOK, disk, counters
  <2>3. Books' /\ Once(held)' /\ Answering' /\ ByPolicy' /\ Level'
    BY <1>3, <1>4, <1>6 DEF World, Books, Once, Answering, ByPolicy, Level, policy, disk
  <2> QED
    BY <2>2, <2>3 DEF World
<1>10. TaskSafe("index", u)'
  BY <1>3, <1>4, <1>6 DEF TaskSafe, TaskTyped, TaskInPlace, TaskDrops, TaskMoves, policy, disk
<1>11. TaskSafe("control", t)'
  BY <1>8 DEF TaskSafe, TaskTyped, TaskInPlace, TaskDrops, TaskMoves, InRegister, InMove, InDrop
<1>12. Driven(t)' /\ Kept(t)'
  BY <1>3, <1>4, <1>5, <1>6, <1>8 DEF Driven, Kept, disk, InRegister, InMove
<1>13. Apart(t, u)
  BY <1>8 DEF Apart, InMove
<1> QED
  BY <1>2, <1>3, <1>8, <1>9, <1>10, <1>11, <1>12, <1>13, Assembled

(* open fails, and what it took on is let go.                               *)
LEMMA NotHeldKeeps ==
    ASSUME Inv, CanonicalNotHeld("control")
    PROVE  Inv'
<1>1. PICK c : c = tasks["control"]
  OBVIOUS
<1>2. PICK u : u = tasks["index"]
  OBVIOUS
<1>3. /\ World /\ TypeOK /\ DOMAIN tasks = Tasks /\ "control" \in Tasks /\ "index" \in Tasks \ {"control"}
      /\ TaskSafe("control", c) /\ TaskSafe("index", u)
  BY <1>1, <1>2 DEF Inv, World, TypeOK, Tasks
<1>4. /\ c.pc = "resolve" /\ Becomes("control", Idle) /\ held' = <<>> /\ follows' = {}
      /\ UNCHANGED <<config, disk, opened, candidate, lastSync, current, deferred, counters>>
  BY <1>1 DEF CanonicalNotHeld, At
<1>5. ~opened
  BY <1>3, <1>4 DEF TaskSafe, TaskInPlace
<1>6. Held' = {} /\ held' \in Seq(Generations) /\ Once(held')
  BY <1>4, HeldFolds DEF Folds, Once
<1>7. PICK t : t = Idle
  OBVIOUS
<1>8. t.pc = "idle" /\ Becomes("control", t)
  BY <1>4, <1>7 DEF Idle
<1>9. World'
  <2>1. DOMAIN tasks' = Tasks
    BY <1>3, <1>8, TaskStep
  <2>2. TypeOK'
    BY <1>3, <1>4, <1>6, <2>1 DEF TypeOK, disk, counters
  <2>3. Books' /\ Answering' /\ ByPolicy' /\ Level'
    BY <1>3, <1>4, <1>6 DEF World, Books, Answering, ByPolicy, Level, policy, disk
  <2> QED
    BY <1>6, <2>2, <2>3 DEF World, Once
<1>10. TaskSafe("index", u)'
  BY <1>3, <1>4, <1>5, <1>6 DEF TaskSafe, TaskTyped, TaskInPlace, TaskDrops, TaskMoves, policy, disk
<1>11. TaskSafe("control", t)'
  BY <1>8 DEF TaskSafe, TaskTyped, TaskInPlace, TaskDrops, TaskMoves, InRegister, InMove, InDrop
<1>12. Driven(t)' /\ Kept(t)'
  BY <1>4, <1>5, <1>6, <1>8 DEF Driven, Kept, InRegister, InMove
<1>13. Apart(t, u)
  BY <1>8 DEF Apart, InMove
<1> QED
  BY <1>2, <1>3, <1>8, <1>9, <1>10, <1>11, <1>12, <1>13, Assembled

(* A death leaves what is on disk.                                          *)
LEMMA RestartKeeps ==
    ASSUME Inv, Restart
    PROVE  Inv'
<1>1. /\ restarts < MaxRestarts /\ restarts' = restarts + 1
      /\ opened' = FALSE /\ held' = <<>> /\ follows' = {} /\ candidate' = {}
      /\ lastSync' = NotSeen /\ current' = Nothing /\ deferred' = {}
      /\ tasks' = [p \in Tasks |-> Idle] /\ UNCHANGED <<config, disk, controls>>
  BY DEF Restart
<1>2. Held' = {} /\ held' \in Seq(Generations) /\ Once(held')
  BY <1>1, HeldFolds DEF Folds, Once
<1>3. DOMAIN tasks' = Tasks /\ \A p \in Tasks : tasks'[p].pc = "idle"
  BY <1>1 DEF Idle
<1>4. World'
  <2>1. TypeOK /\ Books
    BY DEF Inv, World
  <2>2. lastSync' \in [Generations -> Cursor \cup {Nothing}] /\ \A g \in Generations : lastSync'[g] = Nothing
    BY <1>1 DEF NotSeen
  <2>3. restarts' \in 0 .. MaxRestarts
    BY <1>1, <2>1, ContainerAssumption DEF TypeOK
  <2>4. TypeOK'
    BY <1>1, <1>2, <1>3, <2>1, <2>2, <2>3 DEF TypeOK, disk
  <2>5. Books' /\ Answering' /\ ByPolicy' /\ Level'
    BY <1>1, <1>2, <2>1, <2>2 DEF Books, Answering, ByPolicy, Level, policy, disk
  <2> QED
    BY <1>2, <2>4, <2>5 DEF World, Once
<1>5. \A p \in Tasks : TaskSafe(p, tasks[p])'
  BY <1>3 DEF TaskSafe, TaskTyped, TaskInPlace, TaskDrops, TaskMoves, InRegister, InMove, InDrop
<1>6. Driven(tasks["control"])' /\ Apart(tasks["index"], tasks["control"])' /\ Kept(tasks["control"])'
  BY <1>1, <1>2, <1>3 DEF Driven, Apart, Kept, Tasks, InRegister, InMove
<1> QED
  BY <1>4, <1>5, <1>6 DEF Inv

-----------------------------------------------------------------------------
(* Reads move, and what they moved off is dropped.                          *)

(* The hand-over of a stream only ever makes a follower a fetcher.          *)
LEMMA HandOverFewer ==
    ASSUME NEW g
    PROVE  HandOver(g) \subseteq follows
BY DEF HandOver

(* A drop that has waited: it is the loop that runs it, and what answers is *)
(* not what it drops.                                                       *)
LEMMA RunDeferredKeeps ==
    ASSUME Inv, NEW p \in Tasks, NEW d \in Due, RunDeferred(p, d)
    PROVE  Inv'
<1>1. PICK c : c = tasks[p]
  OBVIOUS
<1>2. /\ World /\ TypeOK /\ DOMAIN tasks = Tasks /\ TaskSafe(p, c) /\ d \in deferred /\ d \in Drop
      /\ d.superseded \in Generations
  BY <1>1 DEF Inv, World, TypeOK, Due, Drop
<1>3. c.pc = "drops" /\ deferred' = deferred \ {d}
      /\ UNCHANGED <<config, disk, opened, candidate, lastSync, current, counters>>
  BY <1>1 DEF RunDeferred, At
<1>4. policy = "immediate" /\ p = "index" /\ opened
  BY <1>2, <1>3 DEF World, ByPolicy, TaskSafe, TaskInPlace, Tasks
<1>5. PICK u : u = tasks["control"]
  OBVIOUS
<1>6. "control" \in Tasks \ {"index"} /\ TaskSafe("control", u) /\ Driven(u) /\ (~Revert => Kept(u))
  BY <1>5 DEF Inv, Tasks
<1>7. PICK t : t = IF MayDrop(d.superseded, d.successor)
                   THEN [pc |-> "delete", gone |-> d.superseded, then |-> "drops"] ELSE c
  OBVIOUS
<1>8. Becomes("index", t)
  BY <1>1, <1>4, <1>7 DEF RunDeferred
<1>9. /\ held' \in Seq(Generations) /\ Once(held') /\ Held' \subseteq Held /\ Held \ {d.superseded} \subseteq Held'
      /\ follows' \subseteq follows
      /\ t.pc = "drops" \/ (t.pc = "delete" /\ t.gone = d.superseded /\ t.then = "drops" /\ d.superseded \notin Held')
  <2>1. CASE MayDrop(d.superseded, d.successor)
    <3>1. held' = Unheld(d.superseded) /\ follows' = HandOver(d.superseded)
      BY <2>1 DEF RunDeferred
    <3>2. t.pc = "delete" /\ t.gone = d.superseded /\ t.then = "drops"
      BY <1>7, <2>1
    <3> QED
      BY <1>2, <3>1, <3>2, LetGoStep, HandOverFewer
  <2>2. CASE ~MayDrop(d.superseded, d.successor)
    <3>1. held' = held /\ follows' = follows
      BY <2>2 DEF RunDeferred
    <3>2. t = c
      BY <1>7, <2>2
    <3> QED
      BY <1>2, <1>3, <3>1, <3>2 DEF World, TypeOK, Held, Once
  <2> QED
    BY <2>1, <2>2
<1>10. World'
  <2>1. DOMAIN tasks' = Tasks
    BY <1>2, <1>4, <1>8, TaskStep
  <2>2. TypeOK'
    BY <1>2, <1>3, <1>9, <2>1 DEF TypeOK, disk, counters
  <2>3. Books' /\ Answering' /\ ByPolicy' /\ Level'
    BY <1>2, <1>3, <1>9 DEF World, Books, Answering, ByPolicy, Level, policy, disk
  <2> QED
    BY <1>9, <2>2, <2>3 DEF World, Once
<1>11. \A x \in Generations : state'[x] <= state[x] /\ state[x] \in Nat /\ state'[x] \in Nat
  BY <1>2, <1>3, ContainerAssumption DEF TypeOK, Cursor, disk
<1>12. TaskSafe("control", u)'
  BY <1>2, <1>3, <1>6, <1>9, <1>11, LetGoTask DEF disk
<1>13. TaskSafe("index", t)'
  BY <1>2, <1>3, <1>4, <1>9 DEF TaskSafe, TaskTyped, TaskInPlace, TaskDrops, TaskMoves, InRegister, InMove, InDrop
<1>14. Driven(u)'
  BY <1>3, <1>6, <1>9 DEF Driven, disk
<1>15. ~Revert => Kept(u)'
  <2>1. SUFFICES ASSUME ~Revert
                 PROVE  Kept(u)'
    OBVIOUS
  <2>2. Kept(u)
    BY <1>6, <2>1
  <2>3. current \in Held'
    BY <1>2, <1>4, <1>9, <2>2 DEF Kept
  <2>4. u.pc \in InMove /\ u.target \in registry.records => u.target \in Held'
    BY <1>2, <1>9, <2>2 DEF Kept
  <2> QED
    BY <1>3, <2>2, <2>3, <2>4 DEF Kept, disk
<1>16. Apart(t, u)
  BY <1>9 DEF Apart, InMove
<1>17. "index" \in Tasks
  BY DEF Tasks
<1> QED
  BY <1>2, <1>5, <1>6, <1>8, <1>10, <1>12, <1>13, <1>14, <1>15, <1>16, <1>17, Assembled

(* The move itself: registry and reads together. What it moves to is driven *)
(* and is not waited on to be dropped.                                      *)
LEMMA CommitMoveKeeps ==
    ASSUME Inv, NEW p \in Tasks, CommitMove(p)
    PROVE  Inv'
<1>1. PICK c : c = tasks[p]
  OBVIOUS
<1>2. PICK q \in Tasks \ {p} : TRUE
  BY DEF Tasks
<1>3. PICK u : u = tasks[q]
  OBVIOUS
<1>4. /\ World /\ TypeOK /\ DOMAIN tasks = Tasks /\ TaskSafe(p, c) /\ TaskSafe(q, u)
      /\ InOrder(registry) /\ registry.slots.predecessor = Nothing
      /\ p = "control" => Driven(c) /\ (~Revert => Kept(c))
      /\ p = "index" => Driven(u) /\ (~Revert => Kept(u))
  BY <1>1, <1>2, <1>3 DEF Inv, World, TypeOK, Tasks, Books
<1>5. PICK g : g = c.target
  OBVIOUS
<1>6. PICK s : s = c.superseded
  OBVIOUS
<1>7. PICK supersedes : supersedes = (s # g /\ dropOnPromotion /\ c.wasPromotion)
  OBVIOUS
<1>8. PICK drops : drops = (supersedes /\ policy # "immediate" /\ MayDrop(s, g))
  OBVIOUS
<1>9. PICK at : at = IF lastSync[s] = Nothing THEN 0 ELSE lastSync[s]
  OBVIOUS
<1>10. PICK t : t = IF drops THEN [pc |-> "delete", gone |-> s, then |-> c.then] ELSE Continue(c.then)
  OBVIOUS
<1>11. /\ c.pc = "commit" /\ g \in registry.records /\ registry' = MovedTo(registry, g, FALSE)
       /\ candidate' = candidate \ {g} /\ current' = g
       /\ deferred' = IF supersedes /\ policy = "immediate"
                      THEN deferred \cup {[superseded |-> s, successor |-> g, at |-> at]} ELSE deferred
       /\ held' = (IF drops THEN Unheld(s) ELSE held) /\ follows' = (IF drops THEN HandOver(s) ELSE follows)
       /\ UNCHANGED <<config, state, stored, opened, lastSync, counters>>
  BY <1>1, <1>5, <1>6, <1>7, <1>8, <1>9 DEF CommitMove, At
<1>12. Becomes(p, t)
  BY <1>1, <1>5, <1>6, <1>7, <1>8, <1>10 DEF CommitMove
<1>13. g \in Generations /\ s \in Generations /\ opened /\ c.then \in {"idle", "drops"}
  BY <1>4, <1>5, <1>6, <1>11 DEF TaskSafe, TaskTyped, TaskInPlace, InMove
<1>14. u.pc \notin InMove
  BY <1>1, <1>2, <1>3, <1>11 DEF Inv, Apart, Tasks, InMove
<1>15. /\ Books' /\ registry'.records = registry.records /\ registry'.slots.canonical = g
  BY <1>4, <1>11, MovedInOrder DEF Books
<1>16. /\ held' \in Seq(Generations) /\ Once(held') /\ Held' \subseteq Held /\ Held \ {s} \subseteq Held'
       /\ follows' \subseteq follows
       /\ drops => s # g /\ s \notin Held'
       /\ ~drops => Held' = Held
  <2>1. CASE drops
    <3>1. s # g
      BY <1>7, <1>8, <2>1
    <3>2. held' = Unheld(s) /\ follows' = HandOver(s)
      BY <1>11, <2>1
    <3>3. /\ held' \in Seq(Generations) /\ Once(held') /\ Held' = Held \ {s}
          /\ Held' \subseteq Held /\ Held \ {s} \subseteq Held'
      BY <1>4, <1>13, <3>2, LetGoStep
    <3> QED
      BY <2>1, <3>1, <3>2, <3>3, HandOverFewer
  <2>2. CASE ~drops
    BY <1>4, <1>11, <2>2 DEF World, TypeOK, Held, Once
  <2> QED
    BY <2>1, <2>2
<1>17. \A d \in deferred' : d \in deferred \/ (d.superseded = s /\ s # g /\ policy = "immediate" /\ d \in Drop)
  <2>1. at \in Cursor
    BY <1>4, <1>9, <1>13, ContainerAssumption DEF TypeOK, Cursor
  <2>2. [superseded |-> s, successor |-> g, at |-> at] \in Drop
    BY <1>13, <2>1 DEF Drop
  <2>3. supersedes => s # g
    BY <1>7
  <2> QED
    BY <1>11, <2>2, <2>3
<1>18. World'
  <2>1. DOMAIN tasks' = Tasks
    BY <1>4, <1>12, TaskStep
  <2>2. TypeOK'
    <3>1. deferred' \subseteq Drop
      BY <1>4, <1>17 DEF TypeOK
    <3> QED
      BY <1>4, <1>11, <1>13, <1>15, <1>16, <2>1, <3>1 DEF TypeOK, Books, InOrder, counters
  <2>3. Answering'
    BY <1>11, <1>13, <1>15 DEF Answering
  <2>4. ByPolicy'
    BY <1>4, <1>11, <1>17 DEF World, ByPolicy, policy
  <2>5. Level'
    BY <1>4, <1>11, <1>15, <1>16 DEF World, Level
  <2> QED
    BY <1>15, <1>16, <2>2, <2>3, <2>4, <2>5 DEF World, Once
<1>19. \A x \in Generations : state'[x] <= state[x] /\ state[x] \in Nat /\ state'[x] \in Nat
  BY <1>4, <1>11, ContainerAssumption DEF TypeOK, Cursor
<1>20. TaskSafe(q, u)'
  BY <1>4, <1>11, <1>13, <1>14, <1>15, <1>16, <1>19, LetGoTask
<1>21. TaskSafe(p, t)' /\ t.pc \in {"idle", "drops", "delete"}
  <2>1. CASE drops
    <3>1. t.pc = "delete" /\ t.gone = s /\ t.then = c.then
      BY <1>10, <2>1
    <3>2. p = "control" /\ c.then = "drops" => policy = "on-catch-up"
      BY <1>4, <1>11 DEF TaskSafe, TaskInPlace, InMove
    <3> QED
      BY <1>11, <1>13, <1>16, <2>1, <3>1, <3>2
      DEF TaskSafe, TaskTyped, TaskInPlace, TaskDrops, TaskMoves, InRegister, InMove, InDrop, policy
  <2>2. CASE ~drops
    <3>1. TaskSafe(p, t) /\ t.pc \in {"idle", "drops"}
      BY <1>4, <1>10, <1>11, <2>2, ContinueSafe DEF InMove
    <3> QED
      BY <1>4, <1>11, <1>13, <1>15, <1>16, <1>19, <3>1, LetGoTask DEF InMove
  <2> QED
    BY <2>1, <2>2
<1>22. p = "control" => Driven(t)'
  BY <1>4, <1>11, <1>15, <1>16 DEF Driven
<1>23. p = "index" => Driven(u)'
  BY <1>4, <1>15, <1>16 DEF Driven
<1>24. ASSUME p = "control", ~Revert
       PROVE  Kept(t)'
  <2>1. Kept(c)
    BY <1>4, <1>24
  <2>2. g \in Held /\ \A d \in deferred : d.superseded # g
    BY <1>5, <1>11, <2>1 DEF Kept, InMove
  <2>3. g \in Held'
    BY <1>16, <2>2
  <2> QED
    BY <1>11, <1>17, <1>21, <2>2, <2>3 DEF Kept, InRegister, InMove
<1>25. ASSUME p = "index", ~Revert
       PROVE  Kept(u)'
  <2>1. policy = "on-catch-up" /\ g \in Held
    BY <1>4, <1>5, <1>11, <1>25 DEF TaskSafe, TaskInPlace, TaskMoves, InMove
  <2>2. deferred' = {}
    BY <1>4, <1>17, <2>1 DEF World, ByPolicy
  <2>3. g \in Held'
    BY <1>16, <2>1
  <2> QED
    BY <1>11, <1>14, <2>2, <2>3 DEF Kept
<1>26. Apart(t, u)
  BY <1>21 DEF Apart, InMove
<1> QED
  BY <1>2, <1>3, <1>4, <1>12, <1>18, <1>20, <1>21, <1>22, <1>23, <1>24, <1>25, <1>26, Assembled

(* What a registration ends with: the answer of open, a promotion at once,  *)
(* a promotion of what is ready, or nothing.                                *)
LEMMA AfterCreate ==
    ASSUME World, NEW g \in Generations, NEW armed \in SUBSET Generations, NEW t,
           t = IF ~opened THEN [pc |-> "resolve"]
               ELSE IF policy = "manual" \/ g = current THEN Idle
               ELSE IF policy = "immediate" THEN MoveTo(g, "idle")
               ELSE SettleOver(armed)
    PROVE  /\ TaskTyped("control", t) /\ TaskInPlace("control", t)
           /\ t.pc \in {"resolve", "idle", "move", "drops"}
           /\ t.pc = "move" => \/ policy = "immediate" /\ t.target = g
                               \/ policy = "on-catch-up" /\ t.target \in Held
<1>1. opened => current \in Generations
  BY DEF World, Answering
<1>2. policy \in {"on-catch-up", "immediate", "manual"}
  BY ContainerAssumption DEF World, TypeOK, policy
<1>3. CASE ~opened
  <2>1. t.pc = "resolve"
    BY <1>3
  <2> QED
    BY <1>3, <2>1 DEF TaskTyped, TaskInPlace, InRegister, InMove, InDrop
<1>4. CASE opened /\ (policy = "manual" \/ g = current)
  <2>1. t.pc = "idle"
    BY <1>4 DEF Idle
  <2> QED
    BY <2>1 DEF TaskTyped, TaskInPlace, InRegister, InMove, InDrop
<1>5. CASE opened /\ ~(policy = "manual" \/ g = current) /\ policy = "immediate"
  <2>1. t.pc = "move" /\ t.target = g /\ t.superseded = current /\ t.then = "idle"
    BY <1>5 DEF MoveTo
  <2> QED
    BY <1>1, <1>5, <2>1 DEF TaskTyped, TaskInPlace, InRegister, InMove, InDrop
<1>6. CASE opened /\ ~(policy = "manual" \/ g = current) /\ policy # "immediate"
  <2>1. policy = "on-catch-up" /\ t = SettleOver(armed)
    BY <1>2, <1>6
  <2>2. CASE current # Nothing /\ Ready(armed) # {}
    <3>1. PICK h : h = held[First(Ready(armed))]
      OBVIOUS
    <3>2. h \in Held /\ h \in Generations
      BY <2>2, <3>1, FoundReady
    <3>3. t.pc = "move" /\ t.target = h /\ t.superseded = current /\ t.then = "drops"
      BY <2>1, <2>2, <3>1 DEF SettleOver, MoveTo
    <3> QED
      BY <1>1, <1>6, <2>1, <3>2, <3>3 DEF TaskTyped, TaskInPlace, InRegister, InMove, InDrop
  <2>3. CASE ~(current # Nothing /\ Ready(armed) # {})
    <3>1. t.pc = "drops"
      BY <2>1, <2>3 DEF SettleOver
    <3> QED
      BY <1>6, <2>1, <3>1 DEF TaskTyped, TaskInPlace, InRegister, InMove, InDrop
  <2> QED
    BY <2>2, <2>3
<1> QED
  BY <1>3, <1>4, <1>5, <1>6

(* create and hold: nothing is being moved or dropped meanwhile, so no task *)
(* relies on the generation's having no record or no fold.                  *)
LEMMA CreateKeeps ==
    ASSUME Inv, OneMove, CreateAndHold("control")
    PROVE  Inv'
<1>1. PICK c : c = tasks["control"]
  OBVIOUS
<1>2. PICK u : u = tasks["index"]
  OBVIOUS
<1>3. /\ World /\ TypeOK /\ DOMAIN tasks = Tasks /\ "control" \in Tasks /\ "index" \in Tasks \ {"control"}
      /\ TaskSafe("control", c) /\ TaskSafe("index", u) /\ Driven(c) /\ (~Revert => Kept(c))
      /\ InOrder(registry) /\ registry.slots.predecessor = Nothing
  BY <1>1, <1>2 DEF Inv, World, TypeOK, Tasks, Books
<1>4. PICK g : g = c.target
  OBVIOUS
<1>5. PICK armed : armed = IF opened /\ policy = "on-catch-up" /\ g # current THEN candidate \cup {g} ELSE candidate
  OBVIOUS
<1>6. PICK t : t = IF ~opened THEN [pc |-> "resolve"]
                   ELSE IF policy = "manual" \/ g = current THEN Idle
                   ELSE IF policy = "immediate" THEN MoveTo(g, "idle")
                   ELSE SettleOver(armed)
  OBVIOUS
<1>7. /\ c.pc = "displace" /\ MayMove("control") /\ Becomes("control", t)
      /\ registry' = Created(registry, g, "successor") /\ candidate' = armed
      /\ held' = (IF g \notin Held THEN Append(held, g) ELSE held)
      /\ lastSync' = (IF g \notin Held THEN [lastSync EXCEPT ![g] = Nothing] ELSE lastSync)
      /\ deferred' \subseteq deferred
      /\ UNCHANGED <<config, state, stored, opened, current, counters>>
  BY <1>1, <1>4, <1>5, <1>6 DEF CreateAndHold, At, NotNaming
<1>8. g \in Generations
  BY <1>3, <1>4, <1>7 DEF TaskSafe, TaskTyped, InRegister
<1>9. follows' \subseteq Generations
  <2>1. follows' \subseteq follows \cup {g}
    BY <1>1, <1>4 DEF CreateAndHold
  <2> QED
    BY <1>3, <1>8, <2>1 DEF TypeOK
<1>10. armed \subseteq Generations /\ (armed = candidate \/ (opened /\ policy = "on-catch-up"))
  BY <1>3, <1>5, <1>8 DEF TypeOK
<1>11. /\ Books' /\ registry'.records = registry.records \cup {g}
       /\ registry.slots.canonical # Nothing => registry'.slots.canonical = registry.slots.canonical
  BY <1>3, <1>7, <1>8, CreatedInOrder DEF Books
<1>12. held' \in Seq(Generations) /\ Once(held') /\ Held' = Held \cup {g}
  <2>1. held \in Seq(Generations) /\ Once(held) /\ Held = Folds(held)
    BY <1>3, HeldFolds DEF World, TypeOK
  <2>2. CASE g \notin Held
    <3>1. PICK h : h = Append(held, g)
      OBVIOUS
    <3>2. h \in Seq(Generations) /\ Once(h) /\ Folds(h) = Held \cup {g}
      BY <1>8, <2>1, <2>2, <3>1, Taken
    <3>3. held' = h
      BY <1>7, <2>2, <3>1
    <3>4. Held' = Folds(h)
      BY <3>3, HeldFolds
    <3> QED
      BY <3>2, <3>3, <3>4
  <2>3. CASE g \in Held
    <3>1. held' = held
      BY <1>7, <2>3
    <3>2. Held' = Held
      BY <3>1 DEF Held
    <3> QED
      BY <2>1, <2>3, <3>1, <3>2
  <2> QED
    BY <2>2, <2>3
<1>13. Held \subseteq registry.records /\ Held \subseteq Generations
  BY <1>3, <1>7, HeldFolds DEF Driven
<1>14. u.pc \notin InMove \cup InDrop
  BY <1>2, <1>3, <1>7, MoveAlone
<1>15. World'
  <2>1. DOMAIN tasks' = Tasks
    BY <1>3, <1>7, TaskStep
  <2>2. /\ lastSync' \in [Generations -> Cursor \cup {Nothing}]
        /\ \A x \in Generations : lastSync'[x] = lastSync[x] \/ (x \notin Held /\ lastSync'[x] = Nothing)
    BY <1>3, <1>7, <1>8 DEF TypeOK
  <2>3. TypeOK'
    BY <1>3, <1>7, <1>9, <1>10, <1>11, <1>12, <2>1, <2>2 DEF TypeOK, Books, InOrder, counters
  <2>4. Answering'
    BY <1>3, <1>7, <1>10, <1>11, GenerationsAssumption DEF World, Answering
  <2>5. ByPolicy'
    BY <1>3, <1>7, <1>10 DEF World, ByPolicy, policy
  <2>6. Level'
    <3>1. \A x \in Generations : lastSync'[x] # Nothing => lastSync'[x] >= state[x]
      BY <1>3, <2>2 DEF World, Level
    <3>2. ASSUME NEW x \in Held \cup {g}, lastSync'[x] # Nothing
          PROVE  lastSync'[x] = state[x]
      <4>1. x \in Held
        BY <1>3, <1>7, <1>8, <3>2 DEF TypeOK
      <4>2. lastSync'[x] = lastSync[x]
        BY <1>13, <2>2, <4>1
      <4> QED
        BY <1>3, <1>13, <3>2, <4>1, <4>2 DEF World, Level
    <3> QED
      BY <1>7, <1>12, <3>1, <3>2 DEF Level
  <2> QED
    BY <1>11, <1>12, <2>3, <2>4, <2>5, <2>6 DEF World, Once
<1>16. TaskSafe("index", u)'
  <2>1. u.pc # "stop"
    BY <1>3 DEF TaskSafe, TaskTyped, InRegister
  <2> QED
    BY <1>3, <1>7, <1>14, <2>1 DEF TaskSafe, TaskTyped, TaskInPlace, TaskDrops, TaskMoves, policy
<1>17. /\ TaskTyped("control", t) /\ TaskInPlace("control", t)
       /\ t.pc \in {"resolve", "idle", "move", "drops"}
       /\ t.pc = "move" => \/ policy = "immediate" /\ t.target = g
                           \/ policy = "on-catch-up" /\ t.target \in Held
  BY <1>3, <1>6, <1>8, <1>10, AfterCreate
<1>18. TaskSafe("control", t)'
  BY <1>7, <1>17 DEF TaskSafe, TaskTyped, TaskInPlace, TaskDrops, TaskMoves, InDrop, policy
<1>19. Driven(t)'
  BY <1>11, <1>12, <1>13 DEF Driven
<1>20. ~Revert => Kept(t)'
  <2>1. SUFFICES ASSUME ~Revert
                 PROVE  Kept(t)'
    OBVIOUS
  <2>2. Kept(c)
    BY <1>3, <2>1
  <2>3. opened => current \in Held' /\ \A d \in deferred' : d.superseded # current
    BY <1>7, <1>12, <2>2 DEF Kept
  <2>4. \A d \in deferred : d.superseded # g
    BY <1>4, <1>7, <2>2 DEF Kept, InRegister
  <2>5. policy = "on-catch-up" => deferred = {}
    BY <1>3 DEF World, ByPolicy
  <2>6. t.pc \in InRegister \cup InMove => t.target \in Held' /\ \A d \in deferred' : d.superseded # t.target
    BY <1>7, <1>12, <1>17, <2>4, <2>5 DEF InRegister, InMove
  <2> QED
    BY <1>7, <2>3, <2>6 DEF Kept
<1>21. Apart(t, u)
  BY <1>14 DEF Apart
<1> QED
  BY <1>2, <1>3, <1>7, <1>15, <1>16, <1>18, <1>19, <1>20, <1>21, Assembled

-----------------------------------------------------------------------------
(* The theorems.                                                            *)

(* The invariant holds before a container is first opened.                  *)
LEMMA InvInit ==
    ASSUME Init
    PROVE  Inv
<1>1. InOrder(EmptyRegistry) /\ EmptyRegistry.slots.predecessor = Nothing
  <2>1. EmptyRegistry \in Registry
    BY DEF EmptyRegistry, Registry
  <2>2. SlotsSound(EmptyRegistry)
    BY DEF EmptyRegistry, SlotsSound
  <2>3. RecordsSound(EmptyRegistry)
    BY DEF EmptyRegistry, RecordsSound, StreamsOf
  <2>4. Bounded(EmptyRegistry)
    BY DEF EmptyRegistry, Bounded
  <2>5. EmptyRegistry.slots.predecessor = Nothing
    BY DEF EmptyRegistry, SlotNames
  <2> QED
    BY <2>1, <2>2, <2>3, <2>4, <2>5 DEF InOrder
<1>2. Held = {} /\ held \in Seq(Generations) /\ Once(held)
  BY DEF Init, Held, Once
<1>3. DOMAIN tasks = Tasks /\ \A p \in Tasks : tasks[p].pc = "idle"
  BY DEF Init, Idle
<1>4. TypeOK
  <2>1. 0 \in Cursor /\ 0 \in 0 .. MaxControls /\ 0 \in 0 .. MaxRestarts
    BY ContainerAssumption DEF Cursor
  <2>2. state \in [Generations -> Cursor] /\ stored \in [Streams -> Cursor]
    BY <2>1 DEF Init
  <2>3. lastSync \in [Generations -> Cursor \cup {Nothing}]
    BY DEF Init, NotSeen
  <2>4. registry \in Registry
    BY <1>1 DEF Init, InOrder
  <2>5. deferred \subseteq Drop /\ follows \subseteq Generations /\ candidate \subseteq Generations
    BY DEF Init
  <2>6. config \in Configs /\ opened \in BOOLEAN /\ current \in Generations \cup {Nothing}
    BY DEF Init
  <2>7. controls \in 0 .. MaxControls /\ restarts \in 0 .. MaxRestarts
    BY <2>1 DEF Init
  <2> QED
    BY <1>2, <1>3, <2>2, <2>3, <2>4, <2>5, <2>6, <2>7 DEF TypeOK
<1>5. World
  BY <1>1, <1>2, <1>4, ContainerAssumption DEF World, Init, Books, Answering, ByPolicy, Level, NotSeen
<1>6. \A p \in Tasks : TaskSafe(p, tasks[p])
  BY <1>3 DEF TaskSafe, TaskTyped, TaskInPlace, TaskDrops, TaskMoves, InRegister, InMove, InDrop
<1>7. Driven(tasks["control"]) /\ Apart(tasks["index"], tasks["control"]) /\ Kept(tasks["control"])
  BY <1>2, <1>3 DEF Init, Driven, Apart, Kept, Tasks, InRegister, InMove
<1> QED
  BY <1>5, <1>6, <1>7 DEF Inv

(* Every step keeps it.                                                     *)
LEMMA InvNext ==
    ASSUME Inv, OneMove, [Next]_vars
    PROVE  Inv'
<1>1. CASE \E g \in Generations : Open(g) \/ Add(g) \/ Promote(g)
  BY <1>1, CallsKeep
<1>2. CASE Registering("control")
  <2>1. CASE Register("control") \/ KeepDisplaced("control") \/ RefuseAtCap("control")
    <3>1. tasks["control"].target \in Generations
      <4>1. TaskSafe("control", tasks["control"])
        BY DEF Inv, Tasks
      <4> QED
        BY <2>1, <4>1 DEF Register, KeepDisplaced, RefuseAtCap, At, TaskSafe, TaskTyped, InRegister
    <3> QED
      BY <2>1, <3>1, CallsKeep
  <2> QED
    BY <1>2, <2>1, DropDisplacedKeeps, StopDrivingKeeps, CreateKeeps, ResolveKeeps, NotHeldKeeps DEF Registering
<1>3. ASSUME NEW p \in Tasks, Moving(p) \/ Settling(p)
      PROVE  Inv'
  BY <1>3, TurnsKeep, CommitMoveKeeps, DeleteKeeps, DropStateKeeps, RunDeferredKeeps DEF Moving, Settling
<1>4. CASE Looping
  <2>1. "index" \in Tasks
    BY DEF Tasks
  <2> QED
    BY <1>4, <2>1, TurnsKeep, DriveKeeps DEF Looping
<1>5. CASE Restart
  BY <1>5, RestartKeeps
<1>6. CASE UNCHANGED vars
  BY <1>6 DEF vars, disk, memory, counters, Inv, World, TypeOK, Books, Answering, ByPolicy, Level, Held, policy,
              TaskSafe, TaskTyped, TaskInPlace, TaskDrops, TaskMoves, Driven, Kept, Apart
<1> QED
  BY <1>1, <1>2, <1>3, <1>4, <1>5, <1>6 DEF Next

(* The invariant holds in every reachable state of a container in which one *)
(* move of reads is in flight at a time, whatever may be added again and    *)
(* wherever reads may be moved back.                                        *)
THEOREM Invariance == OneMove /\ Spec => []Inv
<1>1. Init => Inv
  BY InvInit
<1>2. OneMove /\ Inv /\ [Next]_vars => Inv'
  BY InvNext
<1>3. OneMove => []OneMove
  <2>1. OneMove => (OneMove)'
    BY DEF OneMove
  <2> QED
    BY <2>1, PTL
<1> QED
  BY <1>1, <1>2, <1>3, PTL DEF Spec

(* The registry is in order, every variable has its type and, between       *)
(* calls, what is driven is registered: for every set of generations, every *)
(* policy and cap, and any number of adds, promotions and deaths.           *)
THEOREM ContainerStaysSound == OneMove /\ Spec => []ContainerSound
<1>1. Inv => ContainerSound
  <2>1. ASSUME Inv
        PROVE  HeldIsRegistered
    BY <2>1 DEF Inv, Driven, HeldIsRegistered, Quiet, At, Tasks
  <2>2. ASSUME Inv
        PROVE  TypeOK /\ RegistrySound
    BY <2>2 DEF Inv, World, Books, InOrder, RegistrySound
  <2> QED
    BY <2>1, <2>2 DEF ContainerSound
<1> QED
  BY <1>1, Invariance, PTL

(* Between calls the fold that answers reads is the one the registry names, *)
(* and the loop drives it, unless reads may be moved back to a generation   *)
(* whose drop is waiting.                                                   *)
THEOREM ReadsGoOn == OneMove /\ ~Revert /\ Spec => []ReadsAdvance
<1>1. ~Revert /\ Inv => ReadsAdvance
  BY DEF Inv, World, Answering, Kept, ReadsAdvance
<1>2. ~Revert => [](~Revert)
  <2>1. ~Revert => (~Revert)'
    OBVIOUS
  <2> QED
    BY <2>1, PTL
<1> QED
  BY <1>1, <1>2, Invariance, PTL

(* The loop never moves reads to a state behind the one they were answered  *)
(* from: the cursors it compared are still those of the two states when the *)
(* move is made.                                                            *)
THEOREM ReadsGoForward == OneMove /\ Spec => ReadsNeverGoBack
<1>1. ASSUME Inv, CommitMove("index")
      PROVE  state[tasks["index"].target] >= state[tasks["index"].superseded]
  <2>1. TaskSafe("index", tasks["index"])
    BY <1>1 DEF Inv, Tasks
  <2> QED
    BY <1>1, <2>1 DEF TaskSafe, TaskMoves, CommitMove, At, InMove
<1>2. Inv => [CommitMove("index") =>
            state[tasks["index"].target] >= state[tasks["index"].superseded]]_vars
  BY <1>1
<1> QED
  BY <1>2, Invariance, PTL DEF ReadsNeverGoBack

-----------------------------------------------------------------------------
(* One fetcher per stream. A fold fetches when it is the oldest that is     *)
(* held on its stream, at every moment. What could break it is a fold that  *)
(* is let go without a hand-over, so the invariant has what a registration  *)
(* knows of the fold that it deleted and is about to stop.                  *)

(* The setting: nothing that was let go is taken on again, reads are not    *)
(* moved back under a waiting drop, and no drop hands the stream to a fold  *)
(* that is being let go.                                                    *)
Orderly == OneMove /\ ~Readd /\ ~Revert /\ ~Overtaken

Ages(H, born) == \A g, h \in H : born[g] = born[h] => g = h

Eldest(g, H, born) == \A h \in OnStream(H, StreamOf[g]) : born[g] <= born[h]

Penned(H, f, born) == \A g \in H : (g \notin f) <=> Eldest(g, H, born)

(* A registration has seen every fold that is held, and what it deleted     *)
(* fetches for nobody else.                                                 *)
Surveyed(t) ==
    /\ t.pc = "displace" => Held \subseteq t.surviving
    /\ t.pc = "stop" =>
        /\ Held \subseteq t.surviving \cup {t.gone}
        /\ t.gone \in Held /\ t.gone \notin follows => OnStream(Held, StreamOf[t.gone]) = {t.gone}

(* What arrives is new, or held, or about to be deleted by the loop.        *)
Arrives(t, u) ==
    /\ t.pc \in InRegister /\ opened /\ t.target \in registry.records =>
            t.target \in Held \/ (u.pc = "delete" /\ u.gone = t.target)
    /\ ~opened /\ t.pc # "resolve" => Held = {}

(* What the loop deletes does not answer reads: the delete is not refused.  *)
Going(u) == u.pc = "delete" => u.gone # registry.slots.canonical

Fetching ==
    /\ Ages(Held, registry.born) /\ Penned(Held, follows, registry.born)
    /\ Surveyed(tasks["control"])
    /\ Arrives(tasks["control"], tasks["index"])
    /\ Going(tasks["index"])

(* Some fold of a set is the oldest.                                        *)
LEMMA OldestExists ==
    ASSUME NEW S, S # {}, NEW born, \A g \in S : born[g] \in Nat
    PROVE  \E g \in S : \A h \in S : born[g] <= born[h]
<1> DEFINE N == {born[g] : g \in S}
<1>1. N \in SUBSET Nat /\ N # {}
  OBVIOUS
<1>2. PICK n \in N : \A m \in N : n <= m
  BY <1>1, LeastNumber
<1> QED
  BY <1>2

(* fetcherOf names the oldest fold on a stream, and with ages of their own  *)
(* no other.                                                                *)
LEMMA FetcherIsEldest ==
    ASSUME NEW H, NEW born, \A g \in H : born[g] \in Nat, Ages(H, born), Nothing \notin H
    PROVE  /\ \A g \in H : (fetcherOf(H, born, StreamOf[g]) = g) <=> Eldest(g, H, born)
           /\ \A s : OnStream(H, s) # {} =>
                        fetcherOf(H, born, s) \in OnStream(H, s) /\ Eldest(fetcherOf(H, born, s), H, born)
           /\ \A s : OnStream(H, s) = {} => fetcherOf(H, born, s) = Nothing
<1>1. ASSUME NEW s, OnStream(H, s) # {}
      PROVE  /\ fetcherOf(H, born, s) \in OnStream(H, s)
             /\ \A h \in OnStream(H, s) : born[fetcherOf(H, born, s)] <= born[h]
  <2>1. \A g \in OnStream(H, s) : born[g] \in Nat
    BY DEF OnStream
  <2>2. \E g \in OnStream(H, s) : \A h \in OnStream(H, s) : born[g] <= born[h]
    BY <1>1, <2>1, OldestExists
  <2> QED
    BY <1>1, <2>2 DEF fetcherOf, Oldest
<1>2. ASSUME NEW s, OnStream(H, s) # {}
      PROVE  Eldest(fetcherOf(H, born, s), H, born)
  <2>1. StreamOf[fetcherOf(H, born, s)] = s
    BY <1>1, <1>2 DEF OnStream
  <2> QED
    BY <1>1, <1>2, <2>1 DEF Eldest
<1>3. ASSUME NEW g \in H
      PROVE  (fetcherOf(H, born, StreamOf[g]) = g) <=> Eldest(g, H, born)
  <2>1. g \in OnStream(H, StreamOf[g])
    BY DEF OnStream
  <2>2. PICK f : f = fetcherOf(H, born, StreamOf[g])
    OBVIOUS
  <2>3. f \in OnStream(H, StreamOf[g]) /\ Eldest(f, H, born)
    BY <1>1, <1>2, <2>1, <2>2
  <2>4. ASSUME Eldest(g, H, born)
        PROVE  f = g
    <3>1. f \in H /\ StreamOf[f] = StreamOf[g] /\ born[g] <= born[f] /\ born[f] <= born[g]
      BY <2>1, <2>3, <2>4 DEF Eldest, OnStream
    <3>2. born[f] = born[g]
      BY <3>1
    <3> QED
      BY <3>1, <3>2 DEF Ages
  <2> QED
    BY <2>2, <2>3, <2>4
<1>4. ASSUME NEW s, OnStream(H, s) = {}
      PROVE  fetcherOf(H, born, s) = Nothing
  BY <1>4 DEF fetcherOf
<1> QED
  BY <1>1, <1>2, <1>3, <1>4

(* A fold that goes leaves the others as they are, when it does not fetch   *)
(* or nobody else is on its stream.                                         *)
LEMMA PennedWithout ==
    ASSUME NEW H, NEW f, NEW born, \A g \in H : born[g] \in Nat, Ages(H, born), Penned(H, f, born),
           NEW s \in H, s \in f \/ OnStream(H, StreamOf[s]) = {s}
    PROVE  Penned(H \ {s}, f, born)
<1>1. SUFFICES ASSUME NEW g \in H \ {s}
               PROVE  Eldest(g, H, born) <=> Eldest(g, H \ {s}, born)
  BY DEF Penned
<1>2. CASE StreamOf[g] # StreamOf[s]
  <2>1. OnStream(H \ {s}, StreamOf[g]) = OnStream(H, StreamOf[g])
    BY <1>2 DEF OnStream
  <2> QED
    BY <2>1 DEF Eldest
<1>3. CASE StreamOf[g] = StreamOf[s]
  <2>1. s \in f
    BY <1>1, <1>3 DEF OnStream
  <2>2. PICK o \in OnStream(H, StreamOf[s]) : born[o] < born[s]
    <3>1. ~Eldest(s, H, born)
      BY <2>1 DEF Penned
    <3> QED
      BY <3>1 DEF Eldest, OnStream
  <2>3. o \in OnStream(H \ {s}, StreamOf[g])
    BY <1>3, <2>2 DEF OnStream
  <2>4. ASSUME Eldest(g, H \ {s}, born)
        PROVE  Eldest(g, H, born)
    <3>1. SUFFICES ASSUME NEW h \in OnStream(H, StreamOf[g])
                   PROVE  born[g] <= born[h]
      BY DEF Eldest
    <3>2. CASE h = s
      <4>1. born[g] <= born[o]
        BY <2>3, <2>4 DEF Eldest
      <4> QED
        BY <2>2, <3>2, <4>1 DEF OnStream
    <3>3. CASE h # s
      BY <2>4, <3>1, <3>3 DEF Eldest, OnStream
    <3> QED
      BY <3>2, <3>3
  <2>5. ASSUME Eldest(g, H, born)
        PROVE  Eldest(g, H \ {s}, born)
    BY <2>5 DEF Eldest, OnStream
  <2> QED
    BY <2>4, <2>5
<1> QED
  BY <1>2, <1>3

(* One that fetches goes, and the next in age takes the stream.             *)
LEMMA PennedHandedOver ==
    ASSUME NEW H, NEW f, NEW born, \A g \in H : born[g] \in Nat, Ages(H, born), Penned(H, f, born),
           Nothing \notin H, NEW s \in H, Eldest(s, H, born)
    PROVE  Penned(H \ {s}, f \ {fetcherOf(H \ {s}, born, StreamOf[s])}, born)
<1>1. PICK next : next = fetcherOf(H \ {s}, born, StreamOf[s])
  OBVIOUS
<1>2. SUFFICES ASSUME NEW g \in H \ {s}
               PROVE  (g \notin f \ {next}) <=> Eldest(g, H \ {s}, born)
  BY <1>1 DEF Penned
<1>3. (\A x \in H \ {s} : born[x] \in Nat) /\ Ages(H \ {s}, born) /\ Nothing \notin H \ {s}
  BY DEF Ages
<1>4. CASE StreamOf[g] # StreamOf[s]
  <2>1. OnStream(H \ {s}, StreamOf[g]) = OnStream(H, StreamOf[g])
    BY <1>4 DEF OnStream
  <2>2. Eldest(g, H, born) <=> Eldest(g, H \ {s}, born)
    BY <2>1 DEF Eldest
  <2>3. g # next
    <3>1. CASE OnStream(H \ {s}, StreamOf[s]) = {}
      BY <1>1, <1>3, <3>1, FetcherIsEldest
    <3>2. CASE OnStream(H \ {s}, StreamOf[s]) # {}
      <4>1. next \in OnStream(H \ {s}, StreamOf[s])
        BY <1>1, <1>3, <3>2, FetcherIsEldest
      <4> QED
        BY <1>4, <4>1 DEF OnStream
    <3> QED
      BY <3>1, <3>2
  <2> QED
    BY <2>2, <2>3 DEF Penned
<1>5. CASE StreamOf[g] = StreamOf[s]
  <2>1. (next = g) <=> Eldest(g, H \ {s}, born)
    BY <1>1, <1>3, <1>5, FetcherIsEldest
  <2>2. g \in f
    <3>1. s \in OnStream(H, StreamOf[g]) /\ g \in OnStream(H, StreamOf[s])
      BY <1>5 DEF OnStream
    <3>2. ~Eldest(g, H, born)
      <4>1. SUFFICES ASSUME Eldest(g, H, born)
                     PROVE  FALSE
        OBVIOUS
      <4>2. born[g] <= born[s] /\ born[s] <= born[g]
        BY <3>1, <4>1 DEF Eldest
      <4>3. born[g] = born[s]
        BY <4>2
      <4> QED
        BY <4>3 DEF Ages
    <3> QED
      BY <3>2 DEF Penned
  <2> QED
    BY <2>1, <2>2
<1> QED
  BY <1>4, <1>5

(* A fold that is taken on is the youngest: it fetches when it is alone.    *)
LEMMA PennedTaking ==
    ASSUME NEW H, NEW f, NEW born, NEW now, Ages(H, born), Penned(H, f, born), NEW g, g \notin H,
           \A h \in H \cup {g} : now[h] \in Nat, Nothing \notin H \cup {g},
           \A h \in H : now[h] = born[h] /\ now[h] < now[g]
    PROVE  /\ Ages(H \cup {g}, now)
           /\ Penned(H \cup {g}, IF Follows(g, H \cup {g}, now) THEN f \cup {g} ELSE f \ {g}, now)
<1>1. Ages(H \cup {g}, now)
  BY DEF Ages
<1>2. Follows(g, H \cup {g}, now) <=> ~Eldest(g, H \cup {g}, now)
  BY <1>1, FetcherIsEldest DEF Follows
<1>3. ASSUME NEW h \in H
      PROVE  Eldest(h, H \cup {g}, now) <=> Eldest(h, H, born)
  <2>1. ASSUME Eldest(h, H, born), NEW x \in OnStream(H \cup {g}, StreamOf[h])
        PROVE  now[h] <= now[x]
    BY <2>1 DEF Eldest, OnStream
  <2>2. ASSUME Eldest(h, H \cup {g}, now), NEW x \in OnStream(H, StreamOf[h])
        PROVE  born[h] <= born[x]
    BY <2>2 DEF Eldest, OnStream
  <2> QED
    BY <2>1, <2>2 DEF Eldest
<1>4. PICK k : k = IF Follows(g, H \cup {g}, now) THEN f \cup {g} ELSE f \ {g}
  OBVIOUS
<1>5. (g \notin k) <=> Eldest(g, H \cup {g}, now)
  BY <1>2, <1>4
<1>6. \A h \in H : h \in k <=> h \in f
  BY <1>4
<1>7. Penned(H \cup {g}, k, now)
  BY <1>3, <1>5, <1>6 DEF Penned
<1> QED
  BY <1>1, <1>4, <1>7

(* What the proofs below need of the invariant at a step.                   *)
LEMMA FetchingFacts ==
    ASSUME Inv
    PROVE  /\ World /\ TypeOK /\ DOMAIN tasks = Tasks /\ InOrder(registry)
           /\ {"control", "index"} \subseteq Tasks /\ Tasks = {"control", "index"}
           /\ TaskSafe("control", tasks["control"]) /\ TaskSafe("index", tasks["index"])
           /\ Driven(tasks["control"])
           /\ Held \subseteq Generations /\ Nothing \notin Held
           /\ \A g \in Generations : registry.born[g] \in Nat
<1>1. /\ World /\ TypeOK /\ DOMAIN tasks = Tasks /\ InOrder(registry)
      /\ {"control", "index"} \subseteq Tasks /\ Tasks = {"control", "index"}
      /\ TaskSafe("control", tasks["control"]) /\ TaskSafe("index", tasks["index"])
      /\ Driven(tasks["control"])
  BY DEF Inv, World, TypeOK, Books, Tasks
<1>2. Held \subseteq Generations
  BY <1>1, HeldFolds
<1>3. registry.born \in [Generations -> Nat]
  BY <1>1, RegistryParts DEF InOrder
<1> QED
  BY <1>1, <1>2, <1>3, GenerationsAssumption

(* The loop moves on without a drop.                                        *)
LEMMA LoopTurn ==
    ASSUME Inv, Fetching, NEW t, Becomes("index", t), UNCHANGED <<registry, held, follows, opened>>,
           tasks["index"].pc # "delete", t.pc # "delete"
    PROVE  Fetching'
<1>1. PICK c : c = tasks["control"]
  OBVIOUS
<1>2. tasks'["control"] = c /\ tasks'["index"] = t
  BY <1>1, FetchingFacts, TaskStep
<1>3. Held' = Held
  BY DEF Held
<1>4. Surveyed(c)' /\ Arrives(c, t)' /\ Going(t)'
  BY <1>1, <1>3 DEF Fetching, Surveyed, Arrives, Going
<1> QED
  BY <1>2, <1>3, <1>4 DEF Fetching

(* A call moves on and leaves the folds as they are.                        *)
LEMMA CallTurn ==
    ASSUME Inv, Fetching, NEW t, Becomes("control", t), UNCHANGED <<registry, held, follows, opened>>,
           Surveyed(t), Arrives(t, tasks["index"])
    PROVE  Fetching'
<1>1. PICK u : u = tasks["index"]
  OBVIOUS
<1>2. tasks'["control"] = t /\ tasks'["index"] = u
  BY <1>1, FetchingFacts, TaskStep
<1>3. Held' = Held
  BY DEF Held
<1>4. Surveyed(t)' /\ Arrives(t, u)' /\ Going(u)'
  BY <1>1, <1>3 DEF Fetching, Surveyed, Arrives, Going
<1> QED
  BY <1>2, <1>3, <1>4 DEF Fetching

(* A call is made: what is added is new or held.                            *)
LEMMA CallsFetch ==
    ASSUME Inv, Fetching, Orderly, NEW g \in Generations, Open(g) \/ Add(g) \/ Promote(g)
    PROVE  Fetching'
<1>1. PICK u : u = tasks["index"]
  OBVIOUS
<1>2. ~opened => Held = {}  \/ tasks["control"].pc = "resolve"
  BY DEF Fetching, Arrives
<1>3. tasks["control"].pc = "idle"
  BY DEF Open, Add, Promote, MayControl, At
<1>4. CASE Open(g) \/ Add(g)
  <2>1. PICK t : t = [pc |-> "register", target |-> g]
    OBVIOUS
  <2>2. t.pc = "register" /\ t.target = g
    BY <2>1
  <2>3. Becomes("control", t) /\ UNCHANGED <<registry, held, follows, opened>>
    BY <1>4, <2>1 DEF Open, Add, disk, memory
  <2>4. opened /\ g \in registry.records => g \in Held
    BY <1>4 DEF Open, Add, ComesBack, Orderly
  <2>5. Surveyed(t) /\ Arrives(t, u)
    BY <1>2, <1>3, <2>2, <2>4 DEF Surveyed, Arrives
  <2> QED
    BY <1>1, <2>3, <2>5, CallTurn
<1>5. CASE Promote(g)
  <2>1. PICK t : t = MoveTo(g, "idle")
    OBVIOUS
  <2>2. t.pc = "move"
    BY <2>1 DEF MoveTo
  <2>3. Becomes("control", t) /\ opened /\ UNCHANGED <<registry, held, follows, opened>>
    BY <1>5, <2>1 DEF Promote, MayControl, disk, memory
  <2>4. Surveyed(t) /\ Arrives(t, u)
    BY <2>2, <2>3 DEF Surveyed, Arrives, InRegister
  <2> QED
    BY <1>1, <2>3, <2>4, CallTurn
<1> QED
  BY <1>4, <1>5

(* A registration goes on: it surveys the records, keeps one it displaces,  *)
(* or is refused.                                                           *)
LEMMA RegistersFetch ==
    ASSUME Inv, Fetching, Register("control") \/ KeepDisplaced("control") \/ RefuseAtCap("control")
    PROVE  Fetching'
<1>1. PICK u : u = tasks["index"]
  OBVIOUS
<1>2. PICK c : c = tasks["control"]
  OBVIOUS
<1>3. Surveyed(c) /\ Arrives(c, u) /\ Driven(c)
  BY <1>1, <1>2, FetchingFacts DEF Fetching
<1>4. UNCHANGED <<registry, held, follows, opened>>
  BY DEF Register, KeepDisplaced, RefuseAtCap, disk, memory
<1>5. CASE Register("control")
  <2>1. PICK t : t = Displacing(c.target, registry.records, displacedBySuccessor(c.target, registry, Generations))
    OBVIOUS
  <2>2. Becomes("control", t) /\ c.pc = "register"
    BY <1>2, <1>5, <2>1 DEF Register, At
  <2>3. t.pc = "displace" /\ t.target = c.target /\ t.surviving = registry.records
    BY <2>1 DEF Displacing
  <2>4. Held \subseteq registry.records
    BY <1>3, <2>2 DEF Driven
  <2>5. Surveyed(t) /\ Arrives(t, u)
    BY <1>3, <2>2, <2>3, <2>4 DEF Surveyed, Arrives, InRegister
  <2> QED
    BY <1>1, <1>4, <2>2, <2>5, CallTurn
<1>6. CASE KeepDisplaced("control")
  <2>1. PICK t : t = Displacing(c.target, c.surviving, c.displaced \ {Newest(c.displaced, registry.born)})
    OBVIOUS
  <2>2. Becomes("control", t) /\ c.pc = "displace"
    BY <1>2, <1>6, <2>1 DEF KeepDisplaced, At
  <2>3. t.pc = "displace" /\ t.target = c.target /\ t.surviving = c.surviving
    BY <2>1 DEF Displacing
  <2>4. Surveyed(t) /\ Arrives(t, u)
    BY <1>3, <2>2, <2>3 DEF Surveyed, Arrives, InRegister
  <2> QED
    BY <1>1, <1>4, <2>2, <2>4, CallTurn
<1>7. CASE RefuseAtCap("control")
  <2>1. PICK t : t = Idle
    OBVIOUS
  <2>2. t.pc = "idle" /\ c.pc = "displace" /\ Becomes("control", t)
    BY <1>2, <1>7, <2>1 DEF RefuseAtCap, At, Idle
  <2>3. Surveyed(t) /\ Arrives(t, u)
    BY <1>3, <2>2 DEF Surveyed, Arrives, InRegister
  <2> QED
    BY <1>1, <1>4, <2>2, <2>3, CallTurn
<1> QED
  BY <1>5, <1>6, <1>7

(* What a registration deletes strands nobody: it does not fetch, or is     *)
(* alone on its stream (wouldStrandAFollower).                              *)
LEMMA DropDisplacedFetches ==
    ASSUME Inv, Fetching, DropDisplaced("control")
    PROVE  Fetching'
<1>1. PICK u : u = tasks["index"]
  OBVIOUS
<1>2. PICK c : c = tasks["control"]
  OBVIOUS
<1>3. PICK g : g = Newest(c.displaced, registry.born)
  OBVIOUS
<1>4. Surveyed(c) /\ Arrives(c, u) /\ Going(u)
  BY <1>1, <1>2 DEF Fetching
<1>5. /\ c.pc = "displace" /\ ~wouldStrandAFollower(g, c.surviving, c.target)
      /\ UNCHANGED <<held, follows, opened>> /\ Held' = Held
  BY <1>2, <1>3 DEF DropDisplaced, At, memory, Held
<1>6. Held \subseteq c.surviving
  BY <1>4, <1>5 DEF Surveyed
<1>7. CASE Deletable(registry, g)
  <2>1. PICK t : t = [pc |-> "stop", target |-> c.target, surviving |-> c.surviving \ {g},
                      displaced |-> c.displaced \ {g}, gone |-> g]
    OBVIOUS
  <2>2. Becomes("control", t) /\ registry' = deleteGeneration(registry, g, FALSE)
    BY <1>2, <1>3, <1>7, <2>1 DEF DropDisplaced
  <2>3. t.pc = "stop" /\ t.target = c.target /\ t.gone = g /\ t.surviving = c.surviving \ {g}
    BY <2>1
  <2>4. /\ registry'.records = registry.records \ {g} /\ registry'.born = registry.born
        /\ registry'.slots.canonical = registry.slots.canonical
    BY <1>7, <2>2, FetchingFacts, DeletedInOrder
  <2>5. ASSUME g \in Held, g \notin follows
        PROVE  OnStream(Held, StreamOf[g]) = {g}
    <3>1. Eldest(g, Held, registry.born) /\ Ages(Held, registry.born) /\ \A h \in Held : registry.born[h] \in Nat
      BY <2>5, FetchingFacts DEF Fetching, Penned
    <3>2. c.surviving \cap Held = Held
      BY <1>6
    <3>3. Fetcher(c.surviving \cap Held, StreamOf[g]) = g
      BY <2>5, <3>1, <3>2, FetchingFacts, FetcherIsEldest DEF Fetcher
    <3>4. \A h \in OnStream(Held, StreamOf[g]) \ {g} : h \notin follows
      BY <1>5, <3>3 DEF wouldStrandAFollower
    <3>5. ASSUME NEW h \in OnStream(Held, StreamOf[g]) \ {g}
          PROVE  FALSE
      <4>1. h \in Held /\ StreamOf[h] = StreamOf[g] /\ Eldest(h, Held, registry.born)
        BY <3>4, <3>5 DEF Fetching, Penned, OnStream
      <4>2. registry.born[h] <= registry.born[g] /\ registry.born[g] <= registry.born[h]
        BY <2>5, <3>1, <4>1 DEF Eldest, OnStream
      <4>3. registry.born[h] = registry.born[g]
        BY <2>5, <3>1, <4>1, <4>2
      <4> QED
        BY <2>5, <3>1, <3>5, <4>1, <4>3 DEF Ages
    <3>6. g \in OnStream(Held, StreamOf[g])
      BY <2>5 DEF OnStream
    <3> QED
      BY <3>5, <3>6
  <2>6. Surveyed(t)'
    BY <1>5, <1>6, <2>3, <2>5 DEF Surveyed
  <2>7. Arrives(t, u)' /\ Going(u)'
    BY <1>4, <1>5, <2>3, <2>4 DEF Arrives, Going, InRegister
  <2>8. tasks'["control"] = t /\ tasks'["index"] = u
    BY <1>1, <2>2, FetchingFacts, TaskStep
  <2> QED
    BY <1>5, <2>4, <2>6, <2>7, <2>8 DEF Fetching
<1>8. CASE ~Deletable(registry, g)
  <2>1. PICK t : t = Displacing(c.target, c.surviving, c.displaced \ {g})
    OBVIOUS
  <2>2. Becomes("control", t) /\ registry' = registry
    BY <1>2, <1>3, <1>8, <2>1 DEF DropDisplaced
  <2>3. t.pc = "displace" /\ t.target = c.target /\ t.surviving = c.surviving
    BY <2>1 DEF Displacing
  <2>4. Surveyed(t) /\ Arrives(t, u)
    BY <1>4, <1>5, <2>3 DEF Surveyed, Arrives, InRegister
  <2> QED
    BY <1>1, <1>5, <2>2, <2>4, CallTurn
<1> QED
  BY <1>7, <1>8

(* The fold that was deleted is stopped.                                    *)
LEMMA StopDrivingFetches ==
    ASSUME Inv, Fetching, StopDriving("control")
    PROVE  Fetching'
<1>1. PICK u : u = tasks["index"]
  OBVIOUS
<1>2. PICK c : c = tasks["control"]
  OBVIOUS
<1>3. PICK t : t = Displacing(c.target, c.surviving, c.displaced)
  OBVIOUS
<1>4. PICK g : g = c.gone
  OBVIOUS
<1>5. Surveyed(c) /\ Arrives(c, u) /\ Going(u)
  BY <1>1, <1>2 DEF Fetching
<1>6. /\ c.pc = "stop" /\ Becomes("control", t) /\ held' = Unheld(g)
      /\ UNCHANGED <<registry, follows, opened>>
  BY <1>2, <1>3, <1>4 DEF StopDriving, At
<1>7. t.pc = "displace" /\ t.target = c.target /\ t.surviving = c.surviving
  BY <1>3 DEF Displacing
<1>8. g \in Generations /\ g \notin registry.records
  BY <1>2, <1>4, <1>6, FetchingFacts DEF TaskSafe, TaskTyped, TaskDrops
<1>9. Held' = Held \ {g}
  BY <1>6, <1>8, FetchingFacts, LetGoStep
<1>10. Penned(Held \ {g}, follows, registry.born) /\ Ages(Held \ {g}, registry.born)
  <2>1. Penned(Held, follows, registry.born) /\ Ages(Held, registry.born)
    BY DEF Fetching
  <2>2. CASE g \in Held
    <3>1. g \in follows \/ OnStream(Held, StreamOf[g]) = {g}
      BY <1>4, <1>5, <1>6, <2>2 DEF Surveyed
    <3>2. \A h \in Held : registry.born[h] \in Nat
      BY FetchingFacts
    <3> QED
      BY <2>1, <2>2, <3>1, <3>2, PennedWithout DEF Ages
  <2>3. CASE g \notin Held
    <3>1. Held \ {g} = Held
      BY <2>3
    <3> QED
      BY <2>1, <3>1
  <2> QED
    BY <2>2, <2>3
<1>11. Surveyed(t)'
  BY <1>4, <1>5, <1>6, <1>7, <1>9 DEF Surveyed
<1>12. Arrives(t, u)' /\ Going(u)'
  BY <1>5, <1>6, <1>7, <1>8, <1>9 DEF Arrives, Going, InRegister
<1>13. tasks'["control"] = t /\ tasks'["index"] = u
  BY <1>1, <1>6, FetchingFacts, TaskStep
<1> QED
  BY <1>6, <1>9, <1>10, <1>11, <1>12, <1>13 DEF Fetching

(* A fold that is taken on fetches when it is alone on its stream: it is    *)
(* younger than every other (holdGeneration).                               *)
LEMMA CreateFetches ==
    ASSUME Inv, Fetching, OneMove, CreateAndHold("control")
    PROVE  Fetching'
<1>1. PICK u : u = tasks["index"]
  OBVIOUS
<1>2. PICK c : c = tasks["control"]
  OBVIOUS
<1>3. PICK g : g = c.target
  OBVIOUS
<1>4. PICK armed : armed = IF opened /\ policy = "on-catch-up" /\ g # current THEN candidate \cup {g} ELSE candidate
  OBVIOUS
<1>5. PICK t : t = IF ~opened THEN [pc |-> "resolve"]
                   ELSE IF policy = "manual" \/ g = current THEN Idle
                   ELSE IF policy = "immediate" THEN MoveTo(g, "idle")
                   ELSE SettleOver(armed)
  OBVIOUS
<1>6. PICK made : made = Created(registry, g, "successor")
  OBVIOUS
<1>7. /\ c.pc = "displace" /\ MayMove("control") /\ Becomes("control", t) /\ registry' = made
      /\ held' = (IF g \notin Held THEN Append(held, g) ELSE held)
      /\ follows' = (IF g \in Held THEN follows
                     ELSE IF Follows(g, Held \cup {g}, made.born) THEN follows \cup {g} ELSE follows \ {g})
      /\ opened' = opened
  BY <1>2, <1>3, <1>4, <1>5, <1>6 DEF CreateAndHold, At
<1>8. g \in Generations
  BY <1>2, <1>3, <1>7, FetchingFacts DEF TaskSafe, TaskTyped, InRegister
<1>9. u.pc # "delete"
  BY <1>1, <1>7, FetchingFacts DEF OneMove, MayMove
<1>10. /\ g \in registry.records => made.born = registry.born
       /\ g \notin registry.records => \A h \in registry.records :
            made.born[h] = registry.born[h] /\ made.born[h] < made.born[g]
       /\ made \in Registry
  BY <1>6, <1>8, FetchingFacts, CreatedInOrder DEF InOrder
<1>11. Held \subseteq registry.records
  BY <1>2, <1>7, FetchingFacts DEF Driven
<1>12. Held' = Held \cup {g}
  <2>1. held \in Seq(Generations) /\ Once(held) /\ Held = Folds(held) /\ Held' = Folds(held')
    BY FetchingFacts, HeldFolds DEF World, TypeOK
  <2>2. CASE g \notin Held
    <3>1. PICK h : h = Append(held, g)
      OBVIOUS
    <3>2. Folds(h) = Held \cup {g}
      BY <1>8, <2>1, <2>2, <3>1, Taken
    <3>3. held' = h
      BY <1>7, <2>2, <3>1
    <3> QED
      BY <2>1, <3>2, <3>3
  <2>3. CASE g \in Held
    BY <1>7, <2>1, <2>3
  <2> QED
    BY <2>2, <2>3
<1>13. Ages(Held, registry.born) /\ Penned(Held, follows, registry.born) /\ Arrives(c, u)
  BY <1>1, <1>2 DEF Fetching
<1>14. Ages(Held \cup {g}, made.born) /\ Penned(Held \cup {g}, follows', made.born)
  <2>1. CASE g \in Held
    <3>1. Held \cup {g} = Held /\ made.born = registry.born /\ follows' = follows
      BY <1>7, <1>10, <1>11, <2>1
    <3> QED
      BY <1>13, <3>1
  <2>2. CASE g \notin Held
    <3>1. \A h \in Held \cup {g} : made.born[h] \in Nat
      BY <1>8, <1>10, FetchingFacts, RegistryParts
    <3>2. Nothing \notin Held \cup {g}
      BY <1>8, FetchingFacts, GenerationsAssumption
    <3>3. \A h \in Held : made.born[h] = registry.born[h] /\ made.born[h] < made.born[g]
      <4>1. CASE opened
        <5>1. g \notin registry.records
          BY <1>3, <1>7, <1>9, <1>13, <2>2, <4>1 DEF Arrives, InRegister
        <5> QED
          BY <1>10, <1>11, <5>1
      <4>2. CASE ~opened
        BY <1>7, <1>13, <4>2 DEF Arrives
      <4> QED
        BY <4>1, <4>2
    <3>4. follows' = IF Follows(g, Held \cup {g}, made.born) THEN follows \cup {g} ELSE follows \ {g}
      BY <1>7, <2>2
    <3> QED
      BY <1>13, <2>2, <3>1, <3>2, <3>3, <3>4, PennedTaking
  <2> QED
    BY <2>1, <2>2
<1>15. t.pc \in {"resolve", "idle", "move", "drops"} /\ (~opened => t.pc = "resolve")
  <2>1. armed \subseteq Generations
    BY <1>4, <1>8, FetchingFacts DEF TypeOK
  <2> QED
    BY <1>5, <1>8, <2>1, FetchingFacts, AfterCreate
<1>16. Surveyed(t)' /\ Arrives(t, u)' /\ Going(u)'
  BY <1>7, <1>9, <1>15 DEF Surveyed, Arrives, Going, InRegister
<1>17. tasks'["control"] = t /\ tasks'["index"] = u
  BY <1>1, <1>7, FetchingFacts, TaskStep
<1> QED
  BY <1>7, <1>12, <1>14, <1>16, <1>17 DEF Fetching

(* The end of open, either way.                                             *)
LEMMA OpeningFetches ==
    ASSUME Inv, Fetching, ResolveCanonical("control") \/ CanonicalNotHeld("control")
    PROVE  Fetching'
<1>1. PICK u : u = tasks["index"]
  OBVIOUS
<1>2. PICK t : t = Idle
  OBVIOUS
<1>3. t.pc = "idle" /\ Becomes("control", t) /\ registry' = registry
  BY <1>2 DEF ResolveCanonical, CanonicalNotHeld, Idle, disk
<1>4. tasks'["control"] = t /\ tasks'["index"] = u
  BY <1>1, <1>3, FetchingFacts, TaskStep
<1>5. Going(u)'
  BY <1>1, <1>3 DEF Fetching, Going
<1>6. CASE ResolveCanonical("control")
  <2>1. opened' /\ UNCHANGED <<held, follows>> /\ Held' = Held
    BY <1>6 DEF ResolveCanonical, Held
  <2>2. Surveyed(t)' /\ Arrives(t, u)'
    BY <1>3, <2>1 DEF Surveyed, Arrives, InRegister
  <2> QED
    BY <1>3, <1>4, <1>5, <2>1, <2>2 DEF Fetching
<1>7. CASE CanonicalNotHeld("control")
  <2>1. Held' = {}
    BY <1>7 DEF CanonicalNotHeld, Held
  <2>2. Surveyed(t)' /\ Arrives(t, u)'
    BY <1>3, <2>1 DEF Surveyed, Arrives, InRegister
  <2>3. Ages(Held, registry.born)' /\ Penned(Held, follows, registry.born)'
    BY <2>1 DEF Ages, Penned
  <2> QED
    BY <1>4, <1>5, <2>2, <2>3 DEF Fetching
<1> QED
  BY <1>6, <1>7

(* A superseded fold goes, and hands its stream to the fold that is next,   *)
(* which is registered or is nobody (dropSuperseded, handOverTheStream).    *)
LEMMA HandOverFetches ==
    ASSUME Inv, Fetching, NEW s \in Generations, NEW g \in registry.records, MayDrop(s, g),
           held' = Unheld(s), follows' = HandOver(s)
    PROVE  /\ Held' = Held \ {s}
           /\ Ages(Held \ {s}, registry.born) /\ Penned(Held \ {s}, follows', registry.born)
           /\ \A x \in Generations \ registry.records : x \in follows => x \in follows'
<1>1. Held' = Held \ {s}
  BY FetchingFacts, LetGoStep
<1>2. Ages(Held, registry.born) /\ Penned(Held, follows, registry.born)
  BY DEF Fetching
<1>3. s \in Held /\ \A h \in Held : registry.born[h] \in Nat
  BY FetchingFacts DEF MayDrop
<1>4. Fetches(s) <=> Eldest(s, Held, registry.born)
  BY <1>2, <1>3, FetchingFacts, FetcherIsEldest DEF Fetches, Fetcher
<1>5. CASE Fetches(s)
  <2>1. PICK next : next = fetcherOf(Held \ {s}, registry.born, StreamOf[s])
    OBVIOUS
  <2>2. follows' = follows \ {next} /\ next \in {Nothing, g}
    BY <1>5, <2>1 DEF HandOver, NextFetcher, Fetcher, MayDrop
  <2>3. Penned(Held \ {s}, follows \ {next}, registry.born)
    BY <1>2, <1>3, <1>4, <1>5, <2>1, FetchingFacts, PennedHandedOver
  <2> QED
    BY <1>1, <1>2, <2>2, <2>3, GenerationsAssumption DEF Ages
<1>6. CASE ~Fetches(s)
  <2>1. follows' = follows
    BY <1>6 DEF HandOver
  <2>2. s \in follows
    BY <1>2, <1>3, <1>4, <1>6 DEF Penned
  <2>3. Penned(Held \ {s}, follows, registry.born)
    BY <1>2, <1>3, <2>2, PennedWithout
  <2> QED
    BY <1>1, <1>2, <2>1, <2>3 DEF Ages
<1> QED
  BY <1>5, <1>6

(* What a registration knows survives a drop by the loop.                   *)
LEMMA SurveyedThroughDrop ==
    ASSUME NEW c, Surveyed(c), TaskSafe("control", c), Held' \subseteq Held,
           \A x \in Generations \ registry.records : x \in follows => x \in follows'
    PROVE  Surveyed(c)'
<1>1. c.pc = "displace" => Held' \subseteq c.surviving
  BY DEF Surveyed
<1>2. ASSUME c.pc = "stop"
      PROVE  /\ Held' \subseteq c.surviving \cup {c.gone}
             /\ c.gone \in Held' /\ c.gone \notin follows' => OnStream(Held', StreamOf[c.gone]) = {c.gone}
  <2>1. c.gone \in Generations \ registry.records
    BY <1>2 DEF TaskSafe, TaskTyped, TaskDrops
  <2> QED
    BY <1>2, <2>1 DEF Surveyed, OnStream
<1> QED
  BY <1>1, <1>2 DEF Surveyed

(* A drop that has waited.                                                  *)
LEMMA RunDeferredFetches ==
    ASSUME Inv, Fetching, Orderly, NEW p \in Tasks, NEW d \in Due, RunDeferred(p, d)
    PROVE  Fetching'
<1>1. PICK c : c = tasks["control"]
  OBVIOUS
<1>2. PICK u : u = tasks[p]
  OBVIOUS
<1>3. /\ d \in deferred /\ d.superseded \in Generations /\ d.successor \in registry.records
  BY FetchingFacts DEF Due, Orderly, TypeOK, Drop
<1>4. u.pc = "drops" /\ UNCHANGED <<registry, opened>>
  BY <1>2 DEF RunDeferred, At, disk
<1>5. policy = "immediate" /\ p = "index" /\ opened
  <2>1. TaskSafe(p, u)
    BY <1>2 DEF Inv
  <2> QED
    BY <1>3, <1>4, <2>1, FetchingFacts DEF World, ByPolicy, TaskSafe, TaskInPlace
<1>6. d.superseded # registry.slots.canonical
  BY <1>3, <1>5, FetchingFacts DEF Inv, Orderly, Kept, World, Answering
<1>7. Surveyed(c) /\ Arrives(c, u)
  BY <1>1, <1>2, <1>5 DEF Fetching
<1>8. CASE MayDrop(d.superseded, d.successor)
  <2>1. PICK t : t = [pc |-> "delete", gone |-> d.superseded, then |-> "drops"]
    OBVIOUS
  <2>2. /\ Becomes("index", t) /\ held' = Unheld(d.superseded) /\ follows' = HandOver(d.superseded)
        /\ t.pc = "delete" /\ t.gone = d.superseded
    BY <1>5, <1>8, <2>1 DEF RunDeferred
  <2>3. /\ Held' = Held \ {d.superseded} /\ Ages(Held', registry.born) /\ Penned(Held', follows', registry.born)
        /\ \A x \in Generations \ registry.records : x \in follows => x \in follows'
    BY <1>3, <1>8, <2>2, HandOverFetches
  <2>4. Surveyed(c)'
    BY <1>1, <1>7, <2>3, FetchingFacts, SurveyedThroughDrop
  <2>5. Arrives(c, t)' /\ Going(t)'
    BY <1>4, <1>5, <1>6, <1>7, <2>2, <2>3 DEF Arrives, Going
  <2>6. tasks'["control"] = c /\ tasks'["index"] = t
    BY <1>1, <2>2, FetchingFacts, TaskStep
  <2> QED
    BY <1>4, <2>3, <2>4, <2>5, <2>6 DEF Fetching
<1>9. CASE ~MayDrop(d.superseded, d.successor)
  <2>1. Becomes("index", u) /\ UNCHANGED <<held, follows>>
    BY <1>2, <1>5, <1>9 DEF RunDeferred
  <2> QED
    BY <1>2, <1>4, <1>5, <2>1, LoopTurn
<1> QED
  BY <1>8, <1>9

(* A move of reads, with the drop it may bring.                             *)
LEMMA CommitMoveFetches ==
    ASSUME Inv, Fetching, Orderly, NEW p \in Tasks, CommitMove(p)
    PROVE  Fetching'
<1>1. PICK m : m = tasks[p]
  OBVIOUS
<1>2. PICK g : g = m.target
  OBVIOUS
<1>3. PICK s : s = m.superseded
  OBVIOUS
<1>4. PICK drops : drops = (s # g /\ dropOnPromotion /\ m.wasPromotion /\ policy # "immediate" /\ MayDrop(s, g))
  OBVIOUS
<1>5. PICK t : t = IF drops THEN [pc |-> "delete", gone |-> s, then |-> m.then] ELSE Continue(m.then)
  OBVIOUS
<1>6. /\ m.pc = "commit" /\ g \in registry.records /\ registry' = MovedTo(registry, g, FALSE)
      /\ held' = (IF drops THEN Unheld(s) ELSE held) /\ follows' = (IF drops THEN HandOver(s) ELSE follows)
      /\ opened' = opened /\ Becomes(p, t)
  BY <1>1, <1>2, <1>3, <1>4, <1>5 DEF CommitMove, At
<1>7. TaskSafe(p, m)
  BY <1>1 DEF Inv
<1>8. s \in Generations /\ opened /\ m.then \in {"idle", "drops"}
  BY <1>3, <1>6, <1>7 DEF TaskSafe, TaskTyped, TaskInPlace, InMove
<1>9. registry'.records = registry.records /\ registry'.born = registry.born /\ registry'.slots.canonical = g
  BY <1>6, FetchingFacts, MovedInOrder DEF World, Books
<1>10. /\ Held' \subseteq Held /\ Held \ {s} \subseteq Held' /\ (~drops => Held' = Held)
       /\ Ages(Held', registry.born) /\ Penned(Held', follows', registry.born)
       /\ \A x \in Generations \ registry.records : x \in follows => x \in follows'
  <2>1. CASE drops
    <3>1. /\ Held' = Held \ {s} /\ Ages(Held', registry.born) /\ Penned(Held', follows', registry.born)
          /\ \A x \in Generations \ registry.records : x \in follows => x \in follows'
      BY <1>4, <1>6, <1>8, <2>1, HandOverFetches
    <3> QED
      BY <2>1, <3>1
  <2>2. CASE ~drops
    <3>1. Held' = Held /\ follows' = follows
      BY <1>6, <2>2 DEF Held
    <3> QED
      BY <3>1 DEF Fetching
  <2> QED
    BY <2>1, <2>2
<1>11. /\ drops => t.pc = "delete" /\ t.gone = s /\ s # g
       /\ ~drops => t.pc \in {"idle", "drops"}
  BY <1>4, <1>5, <1>8 DEF Continue, Idle
<1>12. CASE p = "index"
  <2>1. PICK c : c = tasks["control"]
    OBVIOUS
  <2>2. Surveyed(c) /\ Arrives(c, m)
    BY <1>1, <1>12, <2>1 DEF Fetching
  <2>3. Surveyed(c)'
    BY <1>10, <2>1, <2>2, FetchingFacts, SurveyedThroughDrop
  <2>4. Arrives(c, t)'
    <3>1. c.pc \in InRegister /\ c.target \in registry.records => c.target \in Held
      BY <1>6, <1>8, <2>2 DEF Arrives
    <3> QED
      BY <1>6, <1>8, <1>9, <1>10, <1>11, <3>1 DEF Arrives
  <2>5. Going(t)'
    BY <1>9, <1>11 DEF Going
  <2>6. tasks'["control"] = c /\ tasks'["index"] = t
    BY <1>6, <1>12, <2>1, FetchingFacts, TaskStep
  <2> QED
    BY <1>9, <1>10, <2>3, <2>4, <2>5, <2>6 DEF Fetching
<1>13. CASE p = "control"
  <2>1. PICK u : u = tasks["index"]
    OBVIOUS
  <2>2. Surveyed(t)' /\ Arrives(t, u)'
    BY <1>6, <1>8, <1>11 DEF Surveyed, Arrives, InRegister
  <2>3. g \in Held
    BY <1>1, <1>2, <1>6, <1>13 DEF Inv, Orderly, Kept, InMove
  <2>4. u.pc = "delete" => u.gone \notin Held
    BY <2>1, FetchingFacts DEF TaskSafe, TaskDrops, InDrop
  <2>5. Going(u)'
    BY <1>9, <2>3, <2>4 DEF Going
  <2>6. tasks'["control"] = t /\ tasks'["index"] = u
    BY <1>6, <1>13, <2>1, FetchingFacts, TaskStep
  <2> QED
    BY <1>9, <1>10, <2>2, <2>5, <2>6 DEF Fetching
<1> QED
  BY <1>12, <1>13, FetchingFacts

(* A superseded generation is deleted: the loop's is never refused, so what *)
(* arrives meanwhile is new.                                                *)
LEMMA DeleteFetches ==
    ASSUME Inv, Fetching, NEW p \in Tasks, Delete(p)
    PROVE  Fetching'
<1>1. PICK m : m = tasks[p]
  OBVIOUS
<1>2. PICK g : g = m.gone
  OBVIOUS
<1>3. PICK t : t = IF Deletable(registry, g) THEN [pc |-> "dropState", gone |-> g, then |-> m.then]
                   ELSE Continue(m.then)
  OBVIOUS
<1>4. /\ m.pc = "delete" /\ Becomes(p, t) /\ UNCHANGED <<held, follows, opened>> /\ Held' = Held
      /\ registry' = IF Deletable(registry, g) THEN deleteGeneration(registry, g, FALSE) ELSE registry
  BY <1>1, <1>2, <1>3 DEF Delete, At, memory, Held
<1>5. TaskSafe(p, m)
  BY <1>1 DEF Inv
<1>6. opened /\ m.then \in {"idle", "drops"}
  BY <1>4, <1>5 DEF TaskSafe, TaskTyped, TaskInPlace, InDrop
<1>7. t.pc \in {"dropState", "idle", "drops"}
  BY <1>3, <1>6 DEF Continue, Idle
<1>8. /\ registry'.born = registry.born /\ registry'.slots.canonical = registry.slots.canonical
      /\ registry'.records \subseteq registry.records
      /\ g \in registry'.records => g = registry.slots.canonical
  <2>1. CASE Deletable(registry, g)
    <3>1. PICK r : r = deleteGeneration(registry, g, FALSE)
      OBVIOUS
    <3>2. r.born = registry.born /\ r.slots.canonical = registry.slots.canonical /\ r.records = registry.records \ {g}
      BY <2>1, <3>1, FetchingFacts, DeletedInOrder
    <3>3. registry' = r
      BY <1>4, <2>1, <3>1
    <3> QED
      BY <3>2, <3>3
  <2>2. CASE ~Deletable(registry, g)
    BY <1>4, <2>2 DEF Deletable
  <2> QED
    BY <2>1, <2>2
<1>9. CASE p = "index"
  <2>1. PICK c : c = tasks["control"]
    OBVIOUS
  <2>2. Surveyed(c) /\ Arrives(c, m) /\ Going(m)
    BY <1>1, <1>9, <2>1 DEF Fetching
  <2>3. Surveyed(c)' /\ Going(t)'
    BY <1>4, <1>7, <2>2 DEF Surveyed, Going
  <2>4. Arrives(c, t)'
    BY <1>2, <1>4, <1>6, <1>8, <2>2 DEF Arrives, Going
  <2>5. tasks'["control"] = c /\ tasks'["index"] = t
    BY <1>4, <1>9, <2>1, FetchingFacts, TaskStep
  <2> QED
    BY <1>4, <1>8, <2>3, <2>4, <2>5 DEF Fetching
<1>10. CASE p = "control"
  <2>1. PICK u : u = tasks["index"]
    OBVIOUS
  <2>2. Surveyed(t)' /\ Arrives(t, u)'
    BY <1>4, <1>6, <1>7 DEF Surveyed, Arrives, InRegister
  <2>3. Going(u)'
    BY <1>8, <2>1 DEF Fetching, Going
  <2>4. tasks'["control"] = t /\ tasks'["index"] = u
    BY <1>4, <1>10, <2>1, FetchingFacts, TaskStep
  <2> QED
    BY <1>4, <1>8, <2>2, <2>3, <2>4 DEF Fetching
<1> QED
  BY <1>9, <1>10, FetchingFacts

(* Any other turn of a task leaves the folds and the records as they are.   *)
LEMMA OtherTurn ==
    ASSUME Inv, Fetching, NEW p \in Tasks, NEW t, Becomes(p, t), UNCHANGED <<registry, held, follows, opened>>,
           opened, tasks[p].pc # "delete", t.pc \notin InRegister \cup {"delete"}
    PROVE  Fetching'
<1>1. CASE p = "index"
  BY <1>1, LoopTurn
<1>2. CASE p = "control"
  <2>1. Surveyed(t) /\ Arrives(t, tasks["index"])
    BY DEF Surveyed, Arrives, InRegister
  <2> QED
    BY <1>2, <2>1, CallTurn
<1> QED
  BY <1>1, <1>2, FetchingFacts

(* The turns of a move, of the loop and of its drops.                       *)
LEMMA TurnsFetch ==
    ASSUME Inv, Fetching, NEW p \in Tasks,
           Move(p) \/ MoveUnknown(p) \/ DropState(p) \/ Settled(p) \/ Looping
    PROVE  Fetching'
<1>1. \A q \in Tasks : TaskSafe(q, tasks[q])
  BY DEF Inv
<1>2. CASE Move(p)
  <2>1. PICK t : t = [pc |-> "commit", target |-> tasks[p].target, superseded |-> tasks[p].superseded,
                      then |-> tasks[p].then, wasPromotion |-> registry.slots.successor = tasks[p].target]
    OBVIOUS
  <2>2. t.pc = "commit" /\ Becomes(p, t) /\ tasks[p].pc = "move" /\ UNCHANGED <<registry, held, follows, opened>>
    BY <1>2, <2>1 DEF Move, At, disk, memory
  <2>3. opened
    BY <1>1, <2>2 DEF TaskSafe, TaskInPlace, InMove
  <2> QED
    BY <2>2, <2>3, OtherTurn DEF InRegister
<1>3. CASE MoveUnknown(p) \/ Settled(p)
  <2>1. PICK t : t = Idle
    OBVIOUS
  <2>2. /\ t.pc = "idle" /\ Becomes(p, t) /\ tasks[p].pc \in {"commit", "drops"}
        /\ UNCHANGED <<registry, held, follows, opened>>
    BY <1>3, <2>1 DEF MoveUnknown, Settled, At, disk, memory, Idle
  <2>3. opened
    BY <1>1, <2>2 DEF TaskSafe, TaskInPlace, InMove
  <2> QED
    BY <2>2, <2>3, OtherTurn DEF InRegister
<1>4. CASE DropState(p)
  <2>1. PICK t : t = Continue(tasks[p].then)
    OBVIOUS
  <2>2. Becomes(p, t) /\ tasks[p].pc = "dropState" /\ UNCHANGED <<registry, held, follows, opened>>
    BY <1>4, <2>1 DEF DropState, At, memory
  <2>3. opened /\ tasks[p].then \in {"idle", "drops"}
    BY <1>1, <2>2 DEF TaskSafe, TaskTyped, TaskInPlace, InDrop
  <2>4. t.pc \in {"idle", "drops"}
    BY <2>1, <2>3 DEF Continue, Idle
  <2> QED
    BY <2>2, <2>3, <2>4, OtherTurn DEF InRegister
<1>5. CASE Looping
  <2>1. opened
    <3>1. tasks["index"].pc = "cycle" => opened
      BY <1>1, FetchingFacts DEF TaskSafe, TaskInPlace
    <3> QED
      BY <1>5, <3>1 DEF Looping, StartCycle, Drive, EndCycle, At
  <2>2. tasks["index"].pc \in {"idle", "cycle"} /\ UNCHANGED <<registry, held, follows, opened>>
    BY <1>5 DEF Looping, StartCycle, Drive, EndCycle, At, disk, memory
  <2>3. PICK t : t = IF StartCycle THEN [pc |-> "cycle", todo |-> held]
                     ELSE IF Drive THEN [pc |-> "cycle", todo |-> Tail(tasks["index"].todo)]
                     ELSE SettleOver(candidate)
    OBVIOUS
  <2>4. Becomes("index", t)
    BY <1>5, <2>3 DEF Looping, StartCycle, Drive, EndCycle
  <2>5. t.pc \in {"cycle", "move", "drops"}
    BY <2>3 DEF SettleOver, MoveTo
  <2> QED
    BY <2>1, <2>2, <2>4, <2>5, LoopTurn
<1> QED
  BY <1>2, <1>3, <1>4, <1>5

(* A process that dies holds no fold.                                       *)
LEMMA RestartFetches ==
    ASSUME Restart
    PROVE  Fetching'
<1>1. Held' = {} /\ \A p \in Tasks : tasks'[p].pc = "idle"
  BY DEF Restart, Held, Idle
<1>2. {"control", "index"} \subseteq Tasks
  BY DEF Tasks
<1>3. Ages(Held, registry.born)' /\ Penned(Held, follows, registry.born)'
  BY <1>1 DEF Ages, Penned
<1>4. Surveyed(tasks["control"])' /\ Arrives(tasks["control"], tasks["index"])' /\ Going(tasks["index"])'
  BY <1>1, <1>2 DEF Surveyed, Arrives, Going, InRegister
<1> QED
  BY <1>3, <1>4 DEF Fetching

(* It holds before a container is first opened.                             *)
LEMMA FetchingInit ==
    ASSUME Init
    PROVE  Fetching
<1>1. Held = {} /\ \A p \in Tasks : tasks[p].pc = "idle"
  BY DEF Init, Held, Idle
<1>2. {"control", "index"} \subseteq Tasks
  BY DEF Tasks
<1> QED
  BY <1>1, <1>2 DEF Fetching, Ages, Penned, Surveyed, Arrives, Going, InRegister

(* Every step keeps it.                                                     *)
LEMMA FetchingNext ==
    ASSUME Inv, Fetching, Orderly, [Next]_vars
    PROVE  Fetching'
<1>1. CASE \E g \in Generations : Open(g) \/ Add(g) \/ Promote(g)
  BY <1>1, CallsFetch
<1>2. CASE Registering("control")
  BY <1>2, RegistersFetch, DropDisplacedFetches, StopDrivingFetches, CreateFetches, OpeningFetches
  DEF Registering, Orderly
<1>3. ASSUME NEW p \in Tasks, Moving(p) \/ Settling(p)
      PROVE  Fetching'
  BY <1>3, TurnsFetch, CommitMoveFetches, DeleteFetches, RunDeferredFetches DEF Moving, Settling
<1>4. CASE Looping
  BY <1>4, FetchingFacts, TurnsFetch
<1>5. CASE Restart
  BY <1>5, RestartFetches
<1>6. CASE UNCHANGED vars
  BY <1>6 DEF vars, disk, memory, counters, Fetching, Held, Surveyed, Arrives, Going
<1> QED
  BY <1>1, <1>2, <1>3, <1>4, <1>5, <1>6 DEF Next

(* Exactly one of the folds that are held on a stream fetches it, for every *)
(* set of generations and streams, every policy and cap, and any number of  *)
(* adds, promotions, drops and deaths (fetcherOf, wouldStrandAFollower,     *)
(* handOverTheStream), where a stream is not handed to a fold whose record  *)
(* is already gone.                                                         *)
THEOREM EveryStreamHasOneFetcher == Orderly /\ Spec => []OneFetcher
<1>1. Init => Inv /\ Fetching
  BY InvInit, FetchingInit
<1>2. Orderly /\ Inv /\ Fetching /\ [Next]_vars => Inv' /\ Fetching'
  BY InvNext, FetchingNext DEF Orderly
<1>3. Orderly => []Orderly
  <2>1. Orderly => (Orderly)'
    BY DEF Orderly, OneMove
  <2> QED
    BY <2>1, PTL
<1>4. Inv /\ Fetching => OneFetcher
  <2>1. SUFFICES ASSUME Inv, Fetching, NEW s \in StreamsOf(Held)
                 PROVE  Cardinality(OnStream(Held, s) \ follows) = 1
    BY DEF OneFetcher
  <2>2. OnStream(Held, s) # {} /\ \A g \in Held : registry.born[g] \in Nat
    BY <2>1, FetchingFacts DEF StreamsOf, OnStream
  <2>3. PICK o : o = fetcherOf(Held, registry.born, s)
    OBVIOUS
  <2>4. /\ o \in OnStream(Held, s)
        /\ \A g \in Held : (fetcherOf(Held, registry.born, StreamOf[g]) = g) <=> Eldest(g, Held, registry.born)
    BY <2>1, <2>2, <2>3, FetchingFacts, FetcherIsEldest DEF Fetching
  <2>5. \A g \in OnStream(Held, s) : (g \notin follows) <=> g = o
    BY <2>1, <2>3, <2>4 DEF Fetching, Penned, OnStream
  <2>6. OnStream(Held, s) \ follows = {o}
    BY <2>4, <2>5
  <2> QED
    BY <2>6, FS_Singleton
<1> QED
  BY <1>1, <1>2, <1>3, <1>4, PTL DEF Spec
=============================================================================
