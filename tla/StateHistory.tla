----------------------------- MODULE StateHistory -----------------------------
(***************************************************************************)
(* What a state store promises, with no versions in it: the state as of    *)
(* every block number the store still answers about. A reader asks for     *)
(* view[at]; the current state is view[MaxBlock], the state as of any      *)
(* block that has not been reached.                                        *)
(***************************************************************************)
EXTENDS Integers

CONSTANTS Keys, Values, NoValue, Untouched, MaxBlock

VARIABLES
    view,   \* [floor .. MaxBlock -> [Keys -> Values \cup {NoValue}]]
    floor   \* lowest block number still answered

Empty == [k \in Keys |-> NoValue]

Init ==
    /\ floor = 0
    /\ view = [at \in 0 .. MaxBlock |-> Empty]

(* A block at n changes the state as of n and of everything above it.       *)
Extend(n, m) ==
    /\ view' = [at \in floor .. MaxBlock |->
                    IF at < n
                    THEN view[at]
                    ELSE [k \in Keys |-> IF m[k] = Untouched THEN view[MaxBlock][k] ELSE m[k]]]
    /\ UNCHANGED floor

(* A revert makes the state as of `keepUpTo` the newest one.                *)
Truncate(keepUpTo) ==
    /\ view' = [at \in floor .. MaxBlock |-> IF at <= keepUpTo THEN view[at] ELSE view[keepUpTo]]
    /\ UNCHANGED floor

(* A wipe starts over, with the whole history readable again.               *)
Wipe ==
    /\ floor' = 0
    /\ view' = [at \in 0 .. MaxBlock |-> Empty]

(* A prune gives up the bottom of the history and changes nothing above it. *)
Forget(f) ==
    /\ floor' = f
    /\ view' = [at \in f .. MaxBlock |-> view[at]]

Next ==
    \/ \E n \in 0 .. MaxBlock, m \in [Keys -> Values \cup {NoValue, Untouched}] : Extend(n, m)
    \/ \E keepUpTo \in floor .. MaxBlock : Truncate(keepUpTo)
    \/ Wipe
    \/ \E f \in floor .. MaxBlock : Forget(f)

Spec == Init /\ [][Next]_<<view, floor>>
=============================================================================
