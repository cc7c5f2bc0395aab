----------------------------- MODULE Generations -----------------------------
(***************************************************************************)
(* The generation registry: which generations an indexer keeps, which of   *)
(* them each of the three slots names, and which streams outlive them. The *)
(* registry is one value and every verb is one guarded commit on it: it    *)
(* decides from what it read, and writes only if nobody wrote in between.  *)
(*                                                                         *)
(* A generation is a processor over a stream. `born` orders registrations: *)
(* createdAt is strictly increasing within a registry.                     *)
(***************************************************************************)
EXTENDS Naturals, FiniteSets

CONSTANTS
    Nothing,            \* no generation: undefined
    Generations,        \* the generations that may ever be registered
    Streams,            \* the streams they fold
    StreamOf,           \* the stream of each
    MaxStreams          \* the cap on streams

SlotNames == {"canonical", "successor", "predecessor"}

ASSUME GenerationsAssumption ==
    /\ Nothing \notin Generations \cup SlotNames
    /\ StreamOf \in [Generations -> Streams]
    /\ MaxStreams \in Nat \ {0}

Registry == [records : SUBSET Generations, born : [Generations -> Nat],
             slots : [SlotNames -> Generations \cup {Nothing}], kept : SUBSET Streams]

EmptyRegistry == [records |-> {}, born |-> [g \in Generations |-> 0],
                  slots |-> [n \in SlotNames |-> Nothing], kept |-> {}]

-----------------------------------------------------------------------------
(* Questions.                                                               *)

slotHolding(slots, g) == {n \in SlotNames : slots[n] = g}

OnStream(S, stream) == {g \in S : StreamOf[g] = stream}

Oldest(S, born) == CHOOSE g \in S : \A h \in S : born[g] <= born[h]

Newest(S, born) == CHOOSE g \in S : \A h \in S : born[g] >= born[h]

(* The oldest generation of S over a stream.                                *)
fetcherOf(S, born, stream) ==
    IF OnStream(S, stream) = {} THEN Nothing ELSE Oldest(OnStream(S, stream), born)

StreamsOf(S) == {StreamOf[g] : g \in S}

(* The caps count generations, and streams with a generation on them.       *)
CapReached(r, g, maxGenerations) ==
    /\ g \notin r.records
    /\ \/ Cardinality(r.records) + 1 > maxGenerations
       \/ /\ StreamOf[g] \notin StreamsOf(r.records)
          /\ Cardinality(StreamsOf(r.records)) + 1 > MaxStreams

(* The generations an arriving successor pushes out: the one the slot names *)
(* and those no slot names, if this runtime may collect them.               *)
displacedBySuccessor(arriving, r, collectable) ==
    IF r.slots.canonical = Nothing \/ slotHolding(r.slots, arriving) \cap {"canonical", "successor"} # {}
    THEN {}
    ELSE {g \in r.records \ {arriving} :
            IF slotHolding(r.slots, g) # {} THEN r.slots.successor = g ELSE g \in collectable}

-----------------------------------------------------------------------------
(* Verbs: the registry a commit leaves.                                     *)

(* create: resolve the one that is there, or add it as the newest. The      *)
(* first takes `canonical`; one a slot names already stays where it is,     *)
(* except that a predecessor which arrives again becomes the successor.     *)
Created(r, g, into) ==
    LET highest == IF r.records = {} THEN 0 ELSE r.born[Newest(r.records, r.born)]
        slots == IF r.slots.canonical = Nothing
                 THEN [r.slots EXCEPT !.canonical = g]
                 ELSE IF into = "successor" /\ r.slots.predecessor = g
                 THEN [r.slots EXCEPT !.successor = g, !.predecessor = Nothing]
                 ELSE IF into # Nothing /\ slotHolding(r.slots, g) = {}
                 THEN [r.slots EXCEPT ![into] = g]
                 ELSE r.slots
    IN [records |-> r.records \cup {g},
        born |-> IF g \in r.records THEN r.born ELSE [r.born EXCEPT ![g] = highest + 1],
        slots |-> slots,
        kept |-> r.kept \cup {StreamOf[g]}]

(* moveCanonicalTo, for a generation that is registered.                    *)
MovedTo(r, g, assignPredecessor) ==
    IF r.slots.canonical = g THEN r
    ELSE [r EXCEPT !.slots =
            [canonical |-> g,
             successor |-> IF r.slots.successor = g THEN Nothing ELSE r.slots.successor,
             predecessor |-> IF r.slots.canonical # Nothing /\ assignPredecessor
                             THEN r.slots.canonical ELSE r.slots.predecessor]]

Deletable(r, g) == g \in r.records /\ r.slots.canonical # g

(* The record goes and the slots that named it go with it.                  *)
Without(r, S) ==
    [r EXCEPT !.records = @ \ S,
              !.slots = [n \in SlotNames |-> IF @[n] \in S THEN Nothing ELSE @[n]]]

(* Whether a delete that asks for it takes the stream along.                *)
Reaps(r, g, reapStream) == reapStream /\ OnStream(r.records, StreamOf[g]) = {g}

deleteGeneration(r, g, reapStream) ==
    [Without(r, {g}) EXCEPT !.kept = IF Reaps(r, g, reapStream) THEN @ \ {StreamOf[g]} ELSE @]

-----------------------------------------------------------------------------

(* Every slot names a registered generation, no generation is named twice,  *)
(* and an indexer that keeps any generation has a canonical one.            *)
SlotsSound(r) ==
    /\ \A n \in SlotNames : r.slots[n] # Nothing => r.slots[n] \in r.records
    /\ \A n, m \in SlotNames : r.slots[n] = r.slots[m] /\ r.slots[n] # Nothing => n = m
    /\ r.records # {} => r.slots.canonical # Nothing

(* The stream of a registered generation is kept, and no two generations    *)
(* are the same age.                                                        *)
RecordsSound(r) ==
    /\ StreamsOf(r.records) \subseteq r.kept
    /\ \A g, h \in r.records : r.born[g] = r.born[h] => g = h
=============================================================================
