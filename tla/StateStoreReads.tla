--------------------------- MODULE StateStoreReads ---------------------------
(***************************************************************************)
(* The store's answers against the history they claim to be: `hist` is the *)
(* state as of every block, whatever has been pruned, and a historical     *)
(* read is any one assertRetained lets through.                            *)
(***************************************************************************)
EXTENDS StateStore

VARIABLE hist   \* the state as of each block, were nothing ever pruned

ReadsInit == Init /\ hist = [at \in Heights |-> [k \in Keys |-> NoValue]]

ReadsNext ==
    \/ \E n \in Heights, h \in Hashes, m \in Mutations, c \in Cursors \cup {NoCursor} :
        /\ ApplyBlock(n, h, m, c)
        /\ hist' = [at \in Heights |->
                        IF at < n THEN hist[at]
                        ELSE [k \in Keys |-> IF m[k] = Untouched THEN hist[MaxBlock][k] ELSE m[k]]]
    \/ \E keepUpTo \in Heights :
        /\ ReorgRevert(keepUpTo)
        /\ hist' = [at \in Heights |-> IF at <= keepUpTo THEN hist[at] ELSE hist[keepUpTo]]
    \/ \E budget \in PruneBudgets : Prune(budget) /\ UNCHANGED hist

ReadsSpec == ReadsInit /\ [][ReadsNext]_<<vars, hist>>

(* A historical read is answered exactly or refused (getAsOf and listAsOf   *)
(* behind assertRetained): the boundary a read is refused at is the one     *)
(* versions are deleted at.                                                 *)
AnsweredReadsExact ==
    \A k \in Keys, at \in Heights : Retained(at) => AsOf(k, at) = hist[at][k]
=============================================================================
