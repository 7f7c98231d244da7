--------------------------- MODULE MCDedupLedger ----------------------------
(* Small instances of DedupLedger for TLC.                                 *)
EXTENDS DedupLedger, TLC

CONSTANTS u1, u2, c1, c2

OneBadge == {<<c1>>}
MixedBatches == {<<c1>>, <<c2, c1>>}
NoMerge == {}
EitherMerge == {<<u1, u2>>, <<u2, u1>>}

(* Bound: a batch of two runs on the interim ledger, and merges on Signet. *)
(* Two batches run at once, and a third badge is issued, only while no     *)
(* account was merged, no request has been given up on, no DELETE was      *)
(* overtaken and no batch has left a badge behind, and of these at most    *)
(* one happens; a merge is reversed only when no batch is under way.       *)
Busy == {m \in Minters : mint[m] # IdleMint}
Bound ==
    LET merged == \E p \in MergePairs : record[p].state # "none"
        undone == \E p \in MergePairs : record[p].state = "reversed"
        late == inflight # {} \/ \E r \in Refs : entry[r].state \in {"late", "overtaken"}
        odd == {<<"merged", merged>>, <<"late", late>>, <<"adrift", adrift # {}>>}
    IN  /\ merged => backend = "signet"
        /\ merged \/ late \/ adrift # {} =>
             /\ Cardinality(Busy) < 2
             /\ Cardinality({b \in Badges : badge[b] # NoBadge}) < 3
        /\ undone => Busy = {}
        /\ Cardinality({x \in odd : x[2]}) < 2
        /\ Cardinality({m \in Minters : Len(mint[m].todo) > 1})
             < IF backend = "signet" THEN 1 ELSE 2

(* Entry ids, badge ids, requests and accounts are interchangeable.        *)
Symmetry ==
    Permutations(Refs) \cup Permutations(Badges) \cup Permutations(Minters)
        \cup Permutations(Users)
=============================================================================
