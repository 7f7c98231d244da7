------------------------------ MODULE MCGroups ------------------------------
(* Small instances of Groups for TLC.                                      *)
EXTENDS Groups, TLC

Busy == {r \in Requests : req[r].pc # "idle"}
Disclosing == {d \in Disclosers : disc[d].pc # "idle"}
Handles == {k \in DOMAIN entry : entry[k] # NoEntry}

(* Bound: before any disclosure two requests overlap.  After one, requests *)
(* come one at a time, there are no admins, and two disclosures overlap    *)
(* only for one anchor.  Three handles, which fill a shard, exist only     *)
(* before the first request that follows.                                  *)
Bound ==
    LET quiet == tomb = {} /\ Busy = {} /\ Cardinality(Disclosing) <= 2
    IN  \/ Handles = {} /\ Disclosing = {}
        \/ /\ Cardinality(Busy) < 2
           /\ \A r \in Busy : req[r].pc \in {"remove", "delete", "add"}
                                /\ req[r].role = "member"
           /\ \A m \in Anchors : member[m].role # "admin"
           /\ Cardinality({disc[d].anchor : d \in Disclosing}) < 2 \/ quiet
           /\ Cardinality(Handles) < 3 \/ quiet
           /\ \A k \in Handles : entry[k].list[2] = 1 => quiet

Symmetry == Permutations(Users) \cup Permutations(Anchors)
              \cup Permutations(Revokers) \cup Permutations(Disclosers)
=============================================================================
