--------------------------- MODULE MCAnonIdentity ---------------------------
(* Small instances of AnonIdentity for TLC.                                *)
EXTENDS AnonIdentity, TLC

CONSTANTS u1, u2, k1, k2

Owner == (k1 :> u1) @@ (k2 :> u2)

Busy == {d \in Devices : op[d].pc # "idle"}
Ops == {op[d].pc : d \in Devices}
Raised == \E u \in Users : row[u].epoch > 1
Switched == \E d \in Devices : cookie[d] # u1 \/ page[d].user # u1
Paired == \E s \in RelayIds : relay[s] # None
Wrapped == \E u \in Users : blobs[u] # {}

Waiting == {d \in Devices : wrap[d] # None}

(* Bound: one copy waits for a passkey, and one root is relabelled.  The   *)
(* copies and the relay are not both in use, nor is the relay with two     *)
(* server actions under way or two roots made.  With a second account      *)
(* about, nothing is reset and one root is made.  A second relay session   *)
(* is opened only in the calmest states.                                   *)
Bound ==
    /\ Cardinality(Waiting) < 2 /\ Cardinality(relabelled) < 2
    /\ Waiting # {} => Cardinality(Busy) < 2
    /\ (\A s \in RelayIds : relay[s] # None) => ~Switched /\ ~Raised /\ Busy = {}
    /\ Paired => ~Wrapped /\ Waiting = {}
                 /\ Ops \cap {"put", "upsert", "blobs", "cooled", "rekey", "audit"} = {}
    /\ Paired => Cardinality(Busy) < 2 /\ Len(made) < 2
    /\ Switched => ~Raised /\ Ops \cap {"reset", "cooled", "rekey", "audit"} = {}
                   /\ Cardinality(Busy) < 2 /\ Len(made) < 2

Symmetry == Permutations(RelayIds)
=============================================================================
