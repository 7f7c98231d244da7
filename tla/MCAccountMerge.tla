--------------------------- MODULE MCAccountMerge ---------------------------
(* Small instances of AccountMerge for TLC.                                *)
EXTENDS AccountMerge, TLC

CONSTANTS a, b, c, ea, eb, ec

(* Two donors of one survivor, and a chain of two merges.                  *)
StarAndChain == {<<a, c>>, <<b, c>>, <<a, b>>}
Mutual == {<<a, b>>, <<b, a>>}

Mail == [e \in Emails |-> CASE e = ea -> a [] e = eb -> b [] e = ec -> c]

Happened == {<<rec[r].donor, rec[r].survivor>> : r \in {s \in Recs : rec[s] # NoRec}}
UnderWay == {<<conf[p].donor, conf[p].survivor>> : p \in {q \in Confirmers : conf[q] # IdleConf}}
Concerned == links \cup Happened \cup UnderWay

NoRows == \A i \in Rows \cup Left \cup Passkeys \cup Eligs : owner[i] = None
NoTokens == \A t \in Tokens : owner[t] = None
NoReversal == \A r \in Recs : rec[r].state # "reversed"
Touching(u, states) ==
    {r \in Recs : rec[r].state \in states /\ u \in {rec[r].donor, rec[r].survivor}}
NeverBanned(u) == user[u].gen = Cardinality(Touching(u, {"merged", "reversed"}))
                                    + Cardinality(Touching(u, {"reversed"}))
NoBan == \A u \in Users : NeverBanned(u)
OneClient == Cardinality({tok[t].client : t \in Tokens} \ {None}) <= 1
SamePrimary == \A e \in Emails : primary[e] = Live(MailOf[e])
Requested == links \cup (proofs \X {c}) \cup UnderWay
OneRequest == Cardinality(Requested) <= 1
Doing(pcs) == \A x \in Requests : req[x].pc \in {"idle"} \cup pcs
Exchanging == Doing({"sub", "create"})
UsedOf(kind) == {i \in kind : owner[i] # None}

(* Bound: a request is open only when no link or proof is outstanding;     *)
Calm == Doing({}) \/ (links = {} /\ proofs = {})
(* and tokens are issued, or accounts are banned, while two donors         *)
(* merge into one survivor by overlapping requests, or addresses promoted  *)
(* while they do so one after the other;                                   *)
Star == <<a, b>> \notin Concerned /\ NoRows /\ NoReversal
Traffic == Star /\ Exchanging /\ NoBan /\ SamePrimary /\ (OneClient \/ Cardinality(Happened) = 0)
Bans == Star /\ Doing({}) /\ NoTokens /\ SamePrimary /\ NeverBanned(b)
Promotions == Star /\ Doing({"act"}) /\ NoTokens /\ NoBan /\ OneRequest
(* or one pair with two rows is merged and undone, or with one row merged  *)
(* again;                                                                  *)
Undone ==
    /\ Concerned \subseteq {<<a, c>>} /\ proofs \subseteq {a} /\ OneRequest
    /\ UsedOf(Ids \ Emails) \subseteq OwnedBy(a) \cup OwnedBy(c)
    /\ \A x \in Requests : req[x].user # b
    /\ Cardinality(UsedOf(Ids \ Emails)) + Cardinality({r \in Recs : rec[r] # NoRec})
         + Cardinality({x \in Requests : req[x] # IdleReq}) <= 3
    /\ OneClient /\ NoBan /\ SamePrimary
(* or merges follow one another in a chain.                                *)
Chain ==
    /\ <<a, c>> \notin Concerned /\ proofs \subseteq {a, b}
    /\ NoRows /\ Exchanging /\ NoReversal /\ OneRequest /\ NoBan /\ SamePrimary
Bound == Calm /\ (Traffic \/ Bans \/ Promotions \/ Undone \/ Chain)

(* Clients, tokens, eligibility rows and requests are interchangeable.     *)
IdSymmetry ==
    Permutations(Clients) \cup Permutations(Tokens) \cup Permutations(Eligs)
        \cup Permutations(Confirmers) \cup Permutations(Recs)
        \cup Permutations(Requests)
=============================================================================
