---------------------------- MODULE MCLogFetcher ---------------------------
EXTENDS LogFetcher

CONSTANTS x, y

(* How many logs lie below a height, when one lies in each block of a set.  *)
OneIn(blocks) == [h \in Start |-> Cardinality({b \in blocks : b < h})]
Sparse == OneIn({2, 5})
Busy == OneIn(3 .. MaxHeight)     \* busy after a quiet stretch

Unlearned == [ceiling |-> Nothing, safe |-> Nothing, size |-> Nothing]

NodeOf(below, span, cap, tooWide, tooMany, archive) ==
    [below |-> below, span |-> span, cap |-> cap, tooWide |-> tooWide, tooMany |-> tooMany, archive |-> archive]

PlanOf(n, senders, asserted, learned, lost, failing, dying) ==
    [node |-> n, senders |-> senders, maxBlocks |-> 6, maxEvents |-> 4, numRetry |-> 1, attempts |-> 2,
     learned |-> learned, asserted |-> asserted, default |-> 4, maxCorrections |-> 1,
     losses |-> lost, faults |-> failing, restarts |-> dying]

MCPlans ==
    {PlanOf(NodeOf(Sparse, 3, 9, {"stated", "wide", "mute"}, {"mute"}, 0), {x}, Nothing, Unlearned, 1, 1, 1),
     PlanOf(NodeOf(Busy, 9, 3, {"mute"}, {"named", "counted"}, 0), {x}, Nothing, Unlearned, 1, 1, 0),
     PlanOf(NodeOf(Busy, 9, 3, {"mute"}, {"mute", "silent"}, 0), {x}, 3, Unlearned, 1, 1, 1),
     PlanOf(NodeOf(Sparse, 3, 9, {"wide"}, {"mute"}, 0), {x, y}, Nothing,
            [ceiling |-> 5, safe |-> 2, size |-> 5], 1, 0, 0),
     PlanOf(NodeOf(Busy, 9, 9, {"mute"}, {"mute"}, 2), {x}, Nothing, Unlearned, 0, 1, 1)}
=============================================================================
